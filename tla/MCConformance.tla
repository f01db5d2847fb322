--------------------------- MODULE MCConformance ---------------------------
(* An instance of Conformance, and beside it one of Publication: what becomes *)
(* of a run's record once it is there.                                        *)
EXTENDS Conformance, Publication

CONSTANT Grep

\* Nothing left out, and one tool of two with no delegation.
MCDecl == {[tools |-> Tool, depth |-> 1], [tools |-> {Agent}, depth |-> 0]}

\* Evidence with a path twice, half of it and the whole of it replaced, and
\* evidence without.
MCStream == {<<"home", "home">>, <<"mark", "home">>, <<"mark", "mark">>, <<"text">>}

\* A rule that says no more than what it replaces, one that says its pattern again
\* beside the slots, and one that says something private of its own.
MCHomeRule == [pattern |-> "home", replacement |-> "mark", rest |-> <<"text">>]
MCRule == {MCHomeRule, [MCHomeRule EXCEPT !.rest = <<"home">>],
           [MCHomeRule EXCEPT !.rest = <<"users">>]}

MCNote == {[bytes |-> <<"text">>, pins |-> {<<"mark", "home">>}],
           [bytes |-> <<"home">>, pins |-> {}], [bytes |-> <<"model">>, pins |-> {}]}

\* The declaration as it should be, with a machine fact, and without a class.
MCClaims == {<<"users", "model">>, <<"users", "model", "home">>, <<"users">>}

Bare == [p \in Path |-> NoFile]
MCBaseline ==
  {[Bare EXCEPT !.note = n] : n \in MCNote}
    \cup {[Bare EXCEPT !.stream = <<"mark", "home">>, !.claims = <<"users">>]}

\* The two share no variable: it is enough to follow them apart.
Streaming == stream # <<>> \/ executor # "running" \/ decl.tools # Tool
Publishing == tree # Bare \/ base # NoBase \/ remote

BothNext ==
  \/ ~Publishing /\ Next /\ UNCHANGED pubVars
  \/ ~Streaming /\ PubNext /\ UNCHANGED vars

BothInit == Init /\ PubInit

Both == BothInit /\ [][BothNext]_<<vars, pubVars>>
=============================================================================
