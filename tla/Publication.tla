---------------------------- MODULE Publication -----------------------------
(***************************************************************************)
(* What a push carries.  scripts/statement_lint.py --surface judges the    *)
(* tracked tree of HEAD against a pinned baseline and the census declared  *)
(* of it.  A run's evidence may be in that tree as it was measured, or     *)
(* with a private path replaced under a declared rule, which               *)
(* path_transform_verify.py checks and conformance_verify.py undoes.       *)
(* Bytes are sequences of tokens, and a digest is what it digests.         *)
(***************************************************************************)
EXTENDS Naturals, Sequences, SequencesExt, FiniteSetsExt

CONSTANTS
  Token,      \* what bytes are made of
  Stream,     \* the bytes the evidence may have
  Rule,       \* the rule files: pattern, replacement and the rest of the file
  Note,       \* other files: their bytes, and the evidence whose sha256 they state
  Claims,     \* the bytes of the declaration, .verity/claims.json
  Baseline,   \* bound: the trees a baseline is pinned at
  NoFile, NoBase, Undeclared

VARIABLES
  tree,       \* HEAD: the tracked files
  base,       \* the tree of the pinned baseline
  census,     \* --declare: for each class the files and occurrences said of it
  remote      \* the repository has one

pubVars == <<tree, base, census, remote>>

Path == {"stream", "record", "rule", "note", "claims"}

\* _classes: two are declared by the caller, one is computed of this machine.
\* The home path holds the prefix that userpath looks for.
Holds == [userpath |-> {"home", "users"}, modelid |-> {"model"}, homepath |-> {"home"}]
Class == DOMAIN Holds
Quotable == {"userpath", "modelid"}

Bytes(t, p) ==
  IF t[p] = NoFile THEN <<>>
  ELSE CASE p \in {"stream", "claims"} -> t[p]
         [] p = "rule" -> <<t.rule.pattern, t.rule.replacement>> \o t.rule.rest
         [] p = "note" -> t.note.bytes
         [] p = "record" -> <<>>

Tokens(t, p) == ToSet(Bytes(t, p))

\* A rule is written to replace what one of the classes looks for.
ASSUME PublicationAssumption ==
  /\ Stream \subseteq Seq(Token) /\ Claims \subseteq Seq(Token)
  /\ Rule \subseteq [pattern : Token, replacement : Token, rest : Seq(Token)]
  /\ Note \subseteq [bytes : Seq(Token), pins : SUBSET Stream]
  /\ \A rule \in Rule : \E c \in Class : rule.pattern \in Holds[c]

\* The sha256 tokens a file states; a record pins the stream it measured.
Pins(t, p) ==
  IF t[p] = NoFile THEN {}
  ELSE CASE p = "record" -> {t.record.measured}
         [] p = "note" -> t.note.pins
         [] OTHER -> {}

-----------------------------------------------------------------------------
\* _hits: where in a file, and in a tree, a class occurs.
Hits(t, p, c) == {i \in DOMAIN Bytes(t, p) : Bytes(t, p)[i] \in Holds[c]}
Count(t, p, c) == Cardinality(Hits(t, p, c))
Occurrences(t, c) == UNION {{p} \X Hits(t, p, c) : p \in Path}

\* What is charged of a file: per class what it gained, and never less than
\* nothing.  Mutant: one number for the file.
Charged_Netted(p) ==
  MapThenSumSet(LAMBDA c : Count(tree, p, c), Class)
    > MapThenSumSet(LAMBDA c : Count(base, p, c), Class)
Charged(p) == \E c \in Class : Count(tree, p, c) > Count(base, p, c)

\* A rule, with every occurrence inside one of its two slots' strings,
\* wherever that string stands in the file.
ExemptRule(p) ==
  /\ p = "rule"
  /\ \A x \in Tokens(tree, p) :
       (\E c \in Class : x \in Holds[c]) => x \in {tree.rule.pattern, tree.rule.replacement}

\* The declaration, with every literal it is said to declare and no machine fact.
ExemptDeclaration(p) ==
  /\ p = "claims"
  /\ \A c \in Class : Count(tree, p, c) > 0 <=> c \in Quotable

Pinned(p) == p = "stream" /\ \E o \in Path \ {p} : tree.stream \in Pins(tree, o)

Exempt(p) == ExemptRule(p) \/ ExemptDeclaration(p) \/ Pinned(p)

\* The census of a tree, and the classes whose declared one is not the baseline's.
CensusOf(t) ==
  [c \in Class |-> [files |-> Cardinality({p \in Path : Count(t, p, c) > 0}),
                    occurrences |-> Cardinality(Occurrences(t, c))]]
Moved == {c \in Class : census[c] \notin {Undeclared, CensusOf(base)[c]}}

\* Its exit is 0: nothing can be pushed, or nothing is refused.
Surface ==
  IF ~remote THEN "no public surface"
  ELSE IF base = NoBase \/ \A p \in Path : tree[p] = NoFile THEN "unmeasured"
  ELSE IF Moved = {} /\ \A p \in Path : Charged(p) => Exempt(p) THEN "pass" ELSE "refused"

-----------------------------------------------------------------------------
Replaced(bytes, old, new) == [i \in DOMAIN bytes |-> IF bytes[i] = old THEN new ELSE bytes[i]]

\* The verifier takes evidence with the digest the record pins, or, through the
\* inverse of the rule it cites, bytes whose original has it.
Admitted ==
  /\ tree.record # NoFile /\ tree.stream # NoFile
  /\ tree.record.cites # NoFile => tree.rule = tree.record.cites
  /\ \/ tree.stream = tree.record.measured
     \/ /\ tree.record.cites # NoFile
        /\ Replaced(tree.stream, tree.rule.replacement, tree.rule.pattern)
             = tree.record.measured

\* path_transform_verify: the rule is the one the transformation was declared
\* under, the blob is the one declared, the pattern is gone.  Mutant: it is not
\* looked for.
Transformed_NoResidue(rule, new) ==
  rule # NoFile /\ tree.rule = rule /\ tree.stream = new
Transformed(rule, new) ==
  /\ rule # NoFile /\ tree.rule = rule
  /\ tree.stream = new
  /\ rule.pattern \notin Tokens(tree, "stream")

-----------------------------------------------------------------------------
PubInit ==
  /\ tree = [p \in Path |-> NoFile]
  /\ base = NoBase
  /\ census = [c \in Class |-> Undeclared]
  /\ remote = FALSE

\* A commit writes or removes one file.
Content(p) ==
  CASE p = "stream" -> Stream
    [] p = "record" -> [measured : Stream, cites : Rule \cup {NoFile}]
    [] p = "rule" -> Rule
    [] p = "note" -> Note
    [] p = "claims" -> Claims

Commit ==
  /\ \E p \in Path : \E file \in Content(p) \cup {NoFile} : tree' = [tree EXCEPT ![p] = file]
  /\ UNCHANGED <<base, census, remote>>

\* The baseline is pinned, with its census, with one off by one, or with none.
Pin ==
  /\ tree \in Baseline
  /\ base' = tree
  /\ census' \in {CensusOf(tree), [c \in Class |-> Undeclared],
                  [CensusOf(tree) EXCEPT !.homepath.occurrences = @ + 1]}
  /\ UNCHANGED <<tree, remote>>

AddRemote == ~remote /\ remote' = TRUE /\ UNCHANGED <<tree, base, census>>

PubNext == Commit \/ Pin \/ AddRemote

PubSpec == PubInit /\ [][PubNext]_pubVars

-----------------------------------------------------------------------------
\* Who may carry what, said of one occurrence: a rule the string it replaces, in
\* the two slots that quote it (Bytes puts them first) and nowhere else; evidence
\* what a digest in another file fixes; the declaration what can be declared.
Slot == {1, 2}
Entitled(h, c) ==
  CASE h[1] = "rule" -> h[2] \in Slot
    [] h[1] = "stream" -> \E o \in Path \ {"stream"} : tree.stream \in Pins(tree, o)
    [] h[1] = "claims" -> c \in Quotable
    [] OTHER -> FALSE

\* What is there without title, of a class, is no more than was declared of it.
WithinTheCensus ==
  \A c \in Class : census[c] # Undeclared =>
    Cardinality({h \in Occurrences(tree, c) : ~Entitled(h, c)}) <= census[c].occurrences

\* The rule says what stands in its slots once: no field beside them repeats it.
\* The code looks for the slots' strings wherever they stand, so that a copy in a
\* note exempts itself, "a leak wearing a rule's shape" by its own docstring (556).
RuleIsBare ==
  tree.rule # NoFile =>
    ToSet(tree.rule.rest) \cap {tree.rule.pattern, tree.rule.replacement} = {}

\* "Zero on the surface a change ADDS; exactly the declared count on the
\* surface that already EXISTS" (statement_lint.py:424-426): whatever files were
\* rewritten since, a tree that passes carries of each class no more occurrences
\* than were declared, outside the places entitled to them, if its rule is bare.
NothingNewTravels == Surface = "pass" /\ RuleIsBare => WithinTheCensus

\* "Declared, or it is drift" (path_transform_verify.py:2): evidence the
\* verifier admits, whose transformation is declared or which is new on a
\* surface that passes, pinned by its record alone, is what was measured or
\* the whole image of it, although the verifier would undo a half of one too.
EvidenceIsWhole ==
  /\ Admitted
  /\ \/ Transformed(tree.rule, tree.stream)
     \/ /\ Surface = "pass" /\ base.stream = NoFile
        /\ tree.stream \notin Pins(tree, "note")
  => \/ tree.stream = tree.record.measured
     \/ tree.stream = Replaced(tree.record.measured, tree.record.cites.pattern,
                              tree.record.cites.replacement)
=============================================================================
