---------------------------- MODULE Conformance ----------------------------
(***************************************************************************)
(* The stream of one run: the executor appends its lines to stream.jsonl,  *)
(* byte by byte for whoever looks on; conformance_watch.py polls the file  *)
(* while it grows; when the executor is gone conformance_record.py builds  *)
(* the record from it and conformance_verify.py judges that record.        *)
(***************************************************************************)
EXTENDS StreamFacts

CONSTANTS
  Decl,       \* the declarations considered: sets of tools and spawn depths
  Odd,        \* bound: how many lines of a stream are not plain text
  NoRecord    \* statement.json does not exist

ASSUME DeclAssumption == Decl \subseteq [tools : (SUBSET Tool) \ {{}}, depth : Nat]

VARIABLES
  decl,      \* the declaration: its tools and its max spawn depth
  stream,    \* the events the executor has written, the last perhaps in part
  file,      \* the bytes of stream.jsonl
  executor,  \* "running" or "gone"
  statement, \* statement.json
  verdict,   \* the verifier's answer
  watch,     \* the watcher's program counter and variables
  state      \* conformance.state, the tally it shows

vars == <<decl, stream, file, executor, statement, verdict, watch, state>>

Plain(e) == e.text = "plain"
Split(e) == e.text = "split"

\* The bytes of the i-th line: text of two characters or of one that takes two
\* bytes, and its newline.
BytesOf(e, i) ==
  << <<i, "first">>, <<i, IF Plain(e) THEN "rest" ELSE "trail">>, <<i, "newline">> >>
LineSize == 3

IsTrail(b) == b[2] = "trail"
EndsLine(b) == b[2] = "newline"

\* How many bytes of the last line are there, if it is being written.
Torn == Len(file) % LineSize
Lines == SubSeq(stream, 1, Len(file) \div LineSize)

Init ==
  /\ decl \in Decl
  /\ stream = <<>> /\ file = <<>>
  /\ executor = "running"
  /\ statement = NoRecord /\ verdict = "none"
  /\ watch = [pc |-> "poll", size |-> 0, offset |-> 0, buf |-> <<>>]
  /\ state = NoTally

-----------------------------------------------------------------------------
Written == ToSet(stream)

\* A call of the executor, or of a delegation it has made; a result of a call
\* that has none; the event that ends the stream.
CanEmit(e) ==
  CASE e.kind = "use" ->
         /\ e.id = Cardinality(Uses(Written)) + 1
         /\ e.parent = Top \/ \E u \in Uses(Written) : u.id = e.parent /\ u.tool = Agent
    [] e.kind = "result" ->
         (\E u \in Uses(Written) : u.id = e.id) /\ ResultsOf(Written, e.id) = {}
    [] OTHER -> TRUE

StartLine ==
  /\ executor = "running" /\ Torn = 0 /\ ~HasEnd(Written)
  /\ \E e \in Line :
       /\ CanEmit(e)
       /\ Plain(e) \/ Cardinality({i \in DOMAIN stream : ~Plain(stream[i])}) < Odd
       /\ stream' = Append(stream, e)
       /\ \E n \in 1 .. LineSize - 1 :
            file' = file \o SubSeq(BytesOf(e, Len(stream')), 1, n)
  /\ UNCHANGED <<decl, executor, statement, verdict, watch, state>>

FinishLine ==
  /\ executor = "running" /\ Torn # 0
  /\ file' = file \o SubSeq(BytesOf(Last(stream), Len(stream)), Torn + 1, LineSize)
  /\ UNCHANGED <<decl, stream, executor, statement, verdict, watch, state>>

\* The executor exits after its last line, or is killed (by `timeout`, or with
\* its launcher) anywhere, in the middle of a line too.
ExecutorEnds ==
  /\ executor = "running"
  /\ executor' = "gone"
  /\ UNCHANGED <<decl, stream, file, statement, verdict, watch, state>>

-----------------------------------------------------------------------------
TornChar == Torn = 1 /\ ~Plain(Last(stream))

\* The events the builder reads: lines end at newlines, what is not JSON is
\* passed over, and a last line that lacks nothing but its newline is a line.
BuilderLines == ToSet(IF Torn = LineSize - 1 THEN stream ELSE Lines)

\* What the verifier reads: splitlines ends lines at other characters too,
\* and the pieces of such a line are not JSON.
VerifierLines == {e \in BuilderLines : ~Split(e)}

\* The builder: refused when a parent is missing or the bytes do not decode.
Build ==
  /\ executor # "running" /\ statement = NoRecord /\ verdict = "none"
  /\ IF TornChar \/ ~Rooted(Uses(BuilderLines))
       THEN verdict' = "no record" /\ UNCHANGED statement
       ELSE /\ LET facts == Analyze(BuilderLines)
               IN statement' = [declared |-> decl, facts |-> facts,
                                unused |-> decl.tools \ Executed(facts.exercised)]
            /\ UNCHANGED verdict
  /\ UNCHANGED <<decl, stream, file, executor, watch, state>>

Verify ==
  /\ statement # NoRecord /\ verdict = "none"
  /\ verdict' = Verdict(statement, decl, VerifierLines)
  /\ UNCHANGED <<decl, stream, file, executor, statement, watch, state>>

-----------------------------------------------------------------------------
\* The watcher's loop.

\* os.path.getsize: in bytes.
Poll ==
  /\ watch.pc = "poll" /\ Len(file) > watch.offset
  /\ watch' = [watch EXCEPT !.size = Len(file), !.pc = "read"]
  /\ UNCHANGED <<decl, stream, file, executor, statement, verdict, state>>

\* The place of the last newline of a text, and what comes after it.
LastEnd(text) == Max({0} \cup {n \in DOMAIN text : EndsLine(text[n])})
RestOf(text) == SubSeq(text, LastEnd(text) + 1, Len(text))

\* The characters of a run of bytes: a second byte is its first one's character.
Decoded(bytes) ==
  LET chars[n \in 0 .. Len(bytes)] ==
        IF n = 0 THEN <<>>
        ELSE IF IsTrail(bytes[n]) THEN chars[n - 1] ELSE Append(chars[n - 1], bytes[n])
  IN chars[Len(bytes)]

\* The n-th character ends a line, and that line is the text of an event.
EndsEvent(text, n) ==
  /\ EndsLine(text[n])
  /\ LET i == text[n][1]
     IN RestOf(SubSeq(text, 1, n - 1)) =
          Decoded(Front(BytesOf(stream[i], i)))

\* The lines of a text are fed to the tally, those that are not events passed
\* over.
FeedAll(text) ==
  LET tally[n \in 0 .. Len(text)] ==
        IF n = 0 THEN state
        ELSE IF EndsEvent(text, n) THEN Fed(tally[n - 1], stream[text[n][1]], decl.tools)
        ELSE tally[n - 1]
  IN tally[Len(text)]

\* fh.seek(offset); fh.read(size - offset): a position in bytes, a length in
\* characters, of a file that may have grown since.  A character cut in two, at
\* the position or at the end of the file, is an exception nothing catches.
Ahead == SubSeq(file, watch.offset + 1, Len(file))
Chars == Decoded(IF TornChar THEN Front(Ahead) ELSE Ahead)
Cut == IsTrail(Ahead[1]) \/ (TornChar /\ Len(Chars) < watch.size - watch.offset)
Got == SubSeq(Chars, 1, Min({watch.size - watch.offset, Len(Chars)}))

\* Mutant: what was left of an incomplete line is dropped.
Read_DropsRest ==
  /\ watch.pc = "read"
  /\ IF Cut THEN watch' = [watch EXCEPT !.pc = "crashed"] /\ UNCHANGED state
     ELSE /\ state' = FeedAll(watch.buf \o Got)
          /\ watch' = [watch EXCEPT !.offset = watch.size, !.buf = <<>>,
                         !.pc = IF state'.complete THEN "done" ELSE "poll"]
  /\ UNCHANGED <<decl, stream, file, executor, statement, verdict>>

\* The lines read are fed to the tally, conformance.state is replaced as a
\* whole, and a complete stream is the end.
Read ==
  /\ watch.pc = "read"
  /\ IF Cut THEN watch' = [watch EXCEPT !.pc = "crashed"] /\ UNCHANGED state
     ELSE /\ state' = FeedAll(watch.buf \o Got)
          /\ watch' = [watch EXCEPT !.offset = watch.size, !.buf = RestOf(watch.buf \o Got),
                         !.pc = IF state'.complete THEN "done" ELSE "poll"]
  /\ UNCHANGED <<decl, stream, file, executor, statement, verdict>>

Watch == Poll \/ Read

Next == StartLine \/ FinishLine \/ ExecutorEnds \/ Build \/ Verify \/ Watch

Spec == Init /\ [][Next]_vars

-----------------------------------------------------------------------------
\* What happened, said of the lines and after no reader's way of reading them.
Ran == {u \in Uses(BuilderLines) : \E e \in ResultsOf(BuilderLines, u.id) : ~e.error}
Answered == \A u \in Uses(BuilderLines) : ResultsOf(BuilderLines, u.id) # {}
OffSurface == \E u \in Ran : u.tool \notin decl.tools

\* A chain of n calls, each made by the one before: its last has depth n - 1.
Chain(c, n) == c[1].parent = Top /\ \A i \in 1 .. n - 1 : c[i + 1].parent = c[i].id
TooDeep ==
  \E n \in 1 .. Cardinality(Id) : n > decl.depth /\
    \E c \in [1 .. n -> Uses(BuilderLines)] :
      Chain(c, n) /\ c[n] \in Ran /\ c[n].tool = Agent

Left == OffSurface \/ TooDeep

\* "Never a pass": CONFORMANT is said only of a stream that ended, with every
\* call answered and nothing executed outside the declaration, whatever its
\* text and however it was cut (header of conformance_verify.py, lines 6-14).
PassIsEarned ==
  verdict = "CONFORMANT" => HasEnd(BuilderLines) /\ Answered /\ ~Left

\* "Two computations that must agree": on streams without a splitting
\* character the verdict is the run's own, DIVERGENT only of a run that left
\* its declaration and CONFORMANT of every finished one that did not.
VerdictIsTheRuns ==
  (\A e \in BuilderLines : ~Split(e)) /\ statement # NoRecord /\ verdict # "none" =>
    /\ verdict = "DIVERGENT" => Left
    /\ HasEnd(BuilderLines) /\ Answered /\ ~Left => verdict = "CONFORMANT"

\* The same without the condition on the text, as the header has it (lines
\* 6-11): of a run that ended, whose record is what its builder wrote,
\* DIVERGENT says that the execution left its declaration.
DivergenceIsTheRuns == HasEnd(ToSet(Lines)) /\ verdict = "DIVERGENT" => Left

\* The watcher feeds its tally each line once, in order, whatever the writer
\* has finished when it polls, and when it is done it has raised its alarm
\* ("oos-exec ... This is the alarm") if and only if an executed call was off
\* the surface (streams of plain text).
Passed == SubSeq(stream, 1, watch.offset \div LineSize)
AllPlain == \A i \in DOMAIN stream : Plain(stream[i])
WatchMissesNothing ==
  AllPlain =>
    /\ watch.pc # "crashed"
    /\ state = Tally(Passed, decl.tools)
    /\ watch.pc = "done" <=> HasEnd(ToSet(Passed))
    /\ watch.pc = "done" => /\ state.oosExec > 0 <=> OffSurface
                            /\ state.unresolved = {} <=> Answered

\* "The narrowest surface the evidence supports" (conformance_narrow.py): the
\* proposal widens nothing and the run stays inside it, provided that what
\* delegations ran and what they were answered agree.
DelegationsRan ==
  \A u \in Uses(BuilderLines) : u.tool = Agent =>
    (u \in Ran <=> \E v \in Ran : v.parent = u.id)
NarrowingHolds ==
  verdict = "CONFORMANT" /\ DelegationsRan =>
    LET narrow == Narrowed(statement)
    IN /\ narrow.tools \subseteq decl.tools /\ narrow.depth <= decl.depth
       /\ Inside(statement.facts, narrow)
=============================================================================
