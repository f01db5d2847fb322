------------------------------ MODULE MCWorker ------------------------------
(* An instance of Worker: a project, a repository inside it, a place outside. *)
EXTENDS Worker

MCProject == <<"p">>
MCRepo == {<<"p">>, <<"p", "vendor">>}
MCCwd == {<<"p", "src">>, <<"p", "vendor", "src">>, <<"tmp">>}
MCHaltDir == {<<"p">>}
MCScope == {<<"src">>}
MCWanted == {<<"src", "f">>, <<"f">>}

CallsAlike == Permutations(Call)

\* The reader shares no variable with the launcher's tail, and sees of a call
\* only that it is over and how: it is enough to follow the two apart, and the
\* reader from calls that are not under way.
Apart ==
  \/ session.units = <<>> /\ session.replaced = 0 /\ view.pc = "poll" /\ view.follow
  \/ run.pc \in {"running", "digest"} /\ \A c \in Call : ~At(c, "asked") /\ ~At(c, "allowed")
=============================================================================
