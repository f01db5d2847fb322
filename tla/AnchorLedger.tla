---------------------------- MODULE AnchorLedger ----------------------------
(***************************************************************************)
(* scripts/conformance_anchor.sh as the launcher calls it, one action per  *)
(* step that another depositor can observe: read the ledger head, truncate *)
(* and write the statement file, hash it, remove it, and swap the ledger   *)
(* ref if it still is the head read.  Every depositor on a ledger          *)
(* repository uses one file name, .anchor-statement.json.                  *)
(***************************************************************************)
EXTENDS LedgerPromise

CONSTANTS
  Tries,      \* compare-and-swaps tried before giving up; 3 in the code
  Exclusive,  \* deposits come one at a time, as from a single launcher
  Mortal,     \* runs that may be killed
  Absent,     \* no .anchor-statement.json
  Garbled     \* its bytes are no statement: empty, or one over another

ASSUME AnchorAssumption ==
  /\ Tries \in Nat \ {0}
  /\ Exclusive \in BOOLEAN
  /\ Mortal \subseteq Run
  /\ Absent \notin Statement /\ Garbled \notin Statement
  /\ Absent # Garbled

VARIABLES
  file,       \* .anchor-statement.json in the ledger repository
  op          \* where each run stands, and its deposit in progress

vars == <<chain, entry, file, op>>

Content == Statement \cup {Garbled}

DepositPCs == {"head", "open", "write", "hash", "rm", "cas"}

\* "refused": the declaration was not taken, so nothing is spawned;
\* "unrecorded": the stream was not, so there is no anchors.json.
Op == [pc : DepositPCs \cup {"start", "running", "recorded", "refused",
                             "unrecorded", "killed"},
       role : Role, head : Seq(Content), st : Content \cup {Absent},
       tries : 0 .. Tries, linked : BOOLEAN, alive : BOOLEAN]

Init ==
  /\ LedgerInit
  /\ file = Absent
  /\ op = [r \in Run |-> [pc |-> "start", role |-> "declaration", head |-> <<>>,
                          st |-> Absent, tries |-> 0, linked |-> FALSE,
                          alive |-> TRUE]]

InFlight == {r \in Run : op[r].pc \in DepositPCs}

At(r, pc) == op[r].pc = pc
Goto(r, pc) == op' = [op EXCEPT ![r].pc = pc]

\* The script ends; a launcher that is gone learns nothing from it.
Exit(r, pc) == Goto(r, IF op[r].alive THEN pc ELSE "killed")

\* Mutant: the launcher starts the run although its declaration was refused.
Fails_Open(r) == Exit(r, IF op[r].role = "declaration" THEN "running" ELSE "unrecorded")

Fails(r) == Exit(r, IF op[r].role = "declaration" THEN "refused" ELSE "unrecorded")

-----------------------------------------------------------------------------
\* The launcher deposits its declaration, and its stream once the child is
\* done.
Begin(r, role) ==
  /\ op[r].alive
  /\ \/ At(r, "start") /\ role = "declaration"
     \/ At(r, "running") /\ role = "stream"
  /\ Exclusive => InFlight = {}
  /\ op' = [op EXCEPT ![r].pc = "head", ![r].role = role, ![r].tries = 0]
  /\ UNCHANGED <<chain, entry, file>>

ReadHead(r) ==
  /\ At(r, "head")
  /\ op' = [op EXCEPT ![r].pc = "open", ![r].head = chain]
  /\ UNCHANGED <<chain, entry, file>>

\* Mutant: a statement file that is there already is taken for one's own.
OpenStatement_KeepsLeftover(r) ==
  /\ At(r, "open")
  /\ IF file = Absent
       THEN /\ file' = Garbled
            /\ op' = [op EXCEPT ![r].pc = "write", ![r].linked = TRUE]
       ELSE UNCHANGED file /\ Goto(r, "hash")
  /\ UNCHANGED <<chain, entry>>

\* open(out, "w") creates the file, or empties the one that is there.
OpenStatement(r) ==
  /\ At(r, "open")
  /\ file' = Garbled
  /\ op' = [op EXCEPT ![r].pc = "write", ![r].linked = TRUE]
  /\ UNCHANGED <<chain, entry>>

\* The buffered statement goes out on close: into a file nobody sees when
\* another depositor has removed the name, and over another's statement when
\* one has been written since (a longer one leaves its tail).
WriteStatement(r) ==
  /\ At(r, "write")
  /\ LET mine == StatementOf(r, op[r].role, op[r].head)
     IN IF op[r].linked
          THEN file' \in {mine} \cup (IF file \in Statement THEN {Garbled} ELSE {})
          ELSE UNCHANGED file
  /\ op' = [op EXCEPT ![r].pc = "hash", ![r].linked = FALSE]
  /\ UNCHANGED <<chain, entry>>

\* hash-object takes whatever is in the file by now; with no file it fails,
\* and set -e ends the script.
HashStatement(r) ==
  /\ At(r, "hash")
  /\ IF file = Absent
       THEN Fails(r)
       ELSE op' = [op EXCEPT ![r].pc = "rm", ![r].st = file]
  /\ UNCHANGED <<chain, entry, file>>

\* rm -f: a depositor between its open and its write goes on writing to the
\* file that had the name.
RemoveStatement(r) ==
  /\ At(r, "rm")
  /\ file' = Absent
  /\ op' = [o \in Run |->
              IF o = r THEN [op[o] EXCEPT !.pc = "cas"]
                       ELSE [op[o] EXCEPT !.linked = FALSE]]
  /\ UNCHANGED <<chain, entry>>

\* Mutant: the id of the head is answered, not the new entry's.
Acknowledge_AnswersHead(r, head) ==
  /\ chain' = Append(head, op[r].st)
  /\ entry' = IF op[r].alive
                THEN [entry EXCEPT ![r][op[r].role] = Len(head)] ELSE entry
  /\ Exit(r, IF op[r].role = "declaration" THEN "running" ELSE "recorded")

Acknowledge(r, head) ==
  /\ chain' = Append(head, op[r].st)
  /\ entry' = IF op[r].alive
                THEN [entry EXCEPT ![r][op[r].role] = Len(head) + 1] ELSE entry
  /\ Exit(r, IF op[r].role = "declaration" THEN "running" ELSE "recorded")

\* Mutants: no old value is given to update-ref; the head is read afresh.
Swap_Unconditional(r) == At(r, "cas") /\ Acknowledge(r, op[r].head) /\ UNCHANGED file
Swap_FreshHead(r) == At(r, "cas") /\ Acknowledge(r, chain) /\ UNCHANGED file

\* The entry is committed on the head read and the ref moved to it, if it
\* still is that head.
Swap(r) ==
  /\ At(r, "cas")
  /\ chain = op[r].head
  /\ Acknowledge(r, op[r].head)
  /\ UNCHANGED file

\* Lost to another entry, or to the lock of a swap under way: go round again,
\* and give up (exit 6) with the last try.
SwapLost(r) ==
  /\ At(r, "cas")
  /\ chain # op[r].head \/ \E o \in Run \ {r} : At(o, "cas")
  /\ op' = [op EXCEPT ![r].tries = @ + 1,
              ![r].pc = IF op[r].tries + 1 < Tries THEN "head"
                        ELSE IF ~op[r].alive THEN "killed"
                        ELSE IF op[r].role = "declaration" THEN "refused"
                        ELSE "unrecorded"]
  /\ UNCHANGED <<chain, entry, file>>

Depositing(r) ==
  \/ ReadHead(r) \/ OpenStatement(r) \/ WriteStatement(r) \/ HashStatement(r)
  \/ RemoveStatement(r) \/ Swap(r) \/ SwapLost(r)

\* SIGKILL of the launcher.  A deposit under way is a process of its own: it
\* may die too, or run on with nobody to tell.
Kill(r) ==
  /\ r \in Mortal
  /\ op[r].alive
  /\ op[r].pc \in DepositPCs \cup {"start", "running"}
  /\ \/ op' = [op EXCEPT ![r].alive = FALSE, ![r].pc = "killed"]
     \/ r \in InFlight /\ op' = [op EXCEPT ![r].alive = FALSE]
  /\ UNCHANGED <<chain, entry, file>>

Next ==
  \E r \in Run :
    \/ \E role \in Role : Begin(r, role)
    \/ Depositing(r)
    \/ Kill(r)

Spec == Init /\ [][Next]_vars

-----------------------------------------------------------------------------
TypeOK ==
  /\ chain \in Seq(Content)
  /\ entry \in [Run -> [Role -> Nat \cup {NoEntry}]]
  /\ file \in Content \cup {Absent}
  /\ op \in [Run -> Op]
  /\ \A r \in InFlight :
       /\ op[r].tries < Tries
       /\ op[r].pc \in {"rm", "cas"} => op[r].st # Absent

\* The ledger only grows, by one entry at a time, whatever races or dies
\* (header lines 8-10 and 19-23: "the chain is append-only under
\* compare-and-swap").
AppendOnly ==
  [][\/ chain' = chain
     \/ /\ Len(chain') = Len(chain) + 1
        /\ \A i \in DOMAIN chain : chain'[i] = chain[i]]_vars

\* An entry id that was answered stays in the ledger, and no two deposits
\* are answered with one entry.
AnswersStand ==
  \A r, o \in Run, x, y \in Role :
    entry[r][x] # NoEntry =>
      /\ entry[r][x] \in DOMAIN chain
      /\ entry[o][y] = entry[r][x] => o = r /\ y = x

\* "one entry", "the digest being anchored" (header lines 7-16): the entry
\* a depositor is answered with anchors the depositor's own digest.
AnchorsOwnDigest ==
  \A r \in Run, role \in Role :
    entry[r][role] \in DOMAIN chain =>
      LET st == chain[entry[r][role]]
      IN st \in Statement /\ st.run = r /\ st.role = role

\* An entry that carries its depositor's own statement names the entry it
\* was attached to ("an instantaneous read, attached where it validated",
\* header lines 25-27), however often the swap was lost before.
NamesItsPredecessor ==
  \A r \in Run, role \in Role :
    entry[r][role] \in DOMAIN chain =>
      LET st == chain[entry[r][role]]
      IN st \in Statement /\ st.run = r /\ st.role = role
         => st.pred = entry[r][role] - 1

\* A run's stream is in the ledger after its declaration, and the chain shows
\* it (the order conformance_verify.py checks, lines 478-499).
DeclarationFirst ==
  \A r \in Run :
    entry[r]["stream"] # NoEntry =>
      /\ entry[r]["declaration"] # NoEntry
      /\ entry[r]["declaration"] < entry[r]["stream"]

\* conformance_verify.py lines 441-523 on the record of r: both entries are
\* included, each anchors this run's digest for its role, the declaration
\* precedes the stream, and no other entry names the run.
Verifies(r) ==
  LET d == entry[r]["declaration"]
      s == entry[r]["stream"]
      Anchors(i, role) ==
        i \in DOMAIN chain /\ chain[i] \in Statement
        /\ chain[i].run = r /\ chain[i].role = role
  IN /\ Anchors(d, "declaration")
     /\ Anchors(s, "stream")
     /\ d <= s
     /\ \A i \in DOMAIN chain : chain[i] \in Statement /\ chain[i].run = r => i \in {d, s}

\* A run that got both its entries has a record its verifier accepts.
RecordsVerify == \A r \in Run : At(r, "recorded") => Verifies(r)

\* Without a rival a deposit is never refused, so a run is never stopped or
\* left unrecorded by its own ledger.
NeverRefused == \A r \in Run : op[r].pc \notin {"refused", "unrecorded"}

\* A depositor's statement, once written, is for the head it read; what the
\* file holds before that is not its own.
Own(r, st) == st \in Statement /\ st.run = r /\ st.role = op[r].role
StatementsAreFresh ==
  \A r \in Run :
    /\ At(r, "write") => ~Own(r, file)
    /\ At(r, "hash") /\ Own(r, file) => file.pred = Len(op[r].head)
    /\ op[r].pc \in {"rm", "cas"} /\ Own(r, op[r].st) => op[r].st.pred = Len(op[r].head)

BeforeAnswer(r, role) ==
  \/ r \in InFlight /\ op[r].role = role
  \/ At(r, IF role = "declaration" THEN "start" ELSE "running")

\* A run has been answered exactly the deposits it has behind it.
AnswersMatchStage ==
  \A r \in Run :
    /\ BeforeAnswer(r, "declaration") =>
         entry[r]["declaration"] = NoEntry /\ entry[r]["stream"] = NoEntry
    /\ BeforeAnswer(r, "stream") =>
         entry[r]["declaration"] # NoEntry /\ entry[r]["stream"] = NoEntry
    /\ At(r, "recorded") =>
         entry[r]["declaration"] # NoEntry /\ entry[r]["stream"] # NoEntry

\* The inductive invariant of the deposits, in every regime.
DepositInv ==
  /\ TypeOK /\ AnswersStand /\ AnswersMatchStage /\ DeclarationFirst
  /\ StatementsAreFresh /\ NamesItsPredecessor

\* Without a rival, the file and the head stay what the depositor made them.
ExclusiveProgress ==
  \A r \in InFlight :
    /\ InFlight = {r}
    /\ op[r].pc # "head" => op[r].head = chain
    /\ At(r, "write") => op[r].linked /\ file = Garbled
    /\ At(r, "hash") => file = StatementOf(r, op[r].role, chain)
    /\ op[r].pc \in {"rm", "cas"} => op[r].st = StatementOf(r, op[r].role, chain)

\* Without a rival, the ledger holds statements only, at most one for each
\* run and role, and none a run has yet to deposit.
ChainIsClean ==
  /\ \A i \in DOMAIN chain : chain[i] \in Statement
  /\ \A i, j \in DOMAIN chain :
       chain[i].run = chain[j].run /\ chain[i].role = chain[j].role => i = j
  /\ \A i \in DOMAIN chain :
       /\ ~BeforeAnswer(chain[i].run, "declaration")
       /\ chain[i].role = "stream" => ~BeforeAnswer(chain[i].run, "stream")

\* What more is inductive when deposits come one at a time.
ExclusiveInv ==
  Exclusive => ExclusiveProgress /\ ChainIsClean /\ AnchorsOwnDigest /\ NeverRefused
=============================================================================
