------------------------------- MODULE Rollup -------------------------------
(***************************************************************************)
(* The receipts directory: launchers write receipts into it                *)
(* (scripts/write_receipt.py), the recurring slice RS-001 rolls them up    *)
(* into receipt-chain.jsonl (scripts/receipt_chain.py) and                 *)
(* receipts-index.jsonl (scripts/receipts_index.py), moves them to the     *)
(* archive and commits.  A rollup may be killed between any two of its     *)
(* commands, and inside the append of one.                                 *)
(***************************************************************************)
EXTENDS Naturals, Sequences, FiniteSets

CONSTANTS
  Receipt,     \* the receipts, by filename; a number is its lexicographic place
  Frail,       \* those whose writer may be killed in it
  Threshold,   \* ROLLUP_THRESHOLD
  MaxActs,     \* bound: rollups started or resumed, backfills and reports
  NoName       \* the name of a line that does not parse

ASSUME RollupAssumption ==
  /\ Receipt \subseteq Nat /\ IsFiniteSet(Receipt) /\ Frail \subseteq Receipt
  /\ Threshold \in Nat \ {0} /\ MaxActs \in Nat

VARIABLES
  receipt,     \* each receipt file: where it is, its bytes, who has it open
  chain,       \* receipt-chain.jsonl in the working tree
  index,       \* receipts-index.jsonl, which git ignores
  head,        \* what HEAD holds: the chain's blob and the archive
  roll,        \* the rollup
  acts,        \* how many of them there were
  mishap       \* something was cut short, or stopped, since the beginning

rollVars == <<receipt, chain, index, head, roll, acts, mishap>>

-----------------------------------------------------------------------------
\* A file of lines: whether it exists, its terminated lines, and what follows
\* the last newline.  A line is the texts written since the previous newline:
\* one, unless an earlier writer left its line without its end.
NoFile == [there |-> FALSE, lines |-> <<>>, tail |-> <<>>]

\* The lines as `for raw in f` gives them.
Lines(file) == IF file.tail = <<>> THEN file.lines ELSE Append(file.lines, file.tail)

\* The front part of a text whose write was cut short: no line has place 0.
Cut == [seq |-> 0]

\* json.loads takes a line that is one whole text.
Parses(line) == Len(line) = 1 /\ line[1] # Cut

\* open("a"), then write(text + "\n") for each text: the first meets the tail.
Write(file, texts) ==
  [there |-> TRUE,
   lines |-> file.lines \o
     [i \in DOMAIN texts |-> (IF i = 1 THEN file.tail ELSE <<>>) \o <<texts[i]>>],
   tail |-> IF texts = <<>> THEN file.tail ELSE <<>>]

\* What a writer killed in it leaves: nothing done, or some whole lines, and
\* perhaps a part of the next one, or all of it but the newline.
CutShort(file, texts) ==
  LET Kept(k) == Write(file, SubSeq(texts, 1, k))
  IN {file} \cup {Kept(k) : k \in 0 .. Len(texts)}
       \cup UNION {{[Kept(k - 1) EXCEPT !.tail = @ \o <<t>>] : t \in {Cut, texts[k]}}
                     : k \in DOMAIN texts}

-----------------------------------------------------------------------------
\* A hash is what it hashes.  GENESIS is the line before the first.
Genesis == <<>>

\* receipt_chain.append: the entries for the sources, each linked to the line
\* before it, the first to the last line of the file as it is.
ChainTexts(file, names, bytes) ==
  LET old == Lines(file)
      text[i \in DOMAIN names] ==
        [seq |-> Len(old) + i, name |-> names[i], sha |-> bytes[names[i]],
         prev |-> IF i > 1 THEN <<text[i - 1]>>
                  ELSE IF old = <<>> THEN Genesis ELSE old[Len(old)]]
  IN text

\* receipt_chain.verify: each line parses, and has its place and its link.
Verifies(file) ==
  LET line == Lines(file)
  IN \A i \in DOMAIN line :
       /\ Parses(line[i])
       /\ line[i][1].seq = i
       /\ line[i][1].prev = IF i = 1 THEN Genesis ELSE line[i - 1]

\* receipts_index.append: the sequence from the index alone, the hash and the
\* distilled fields from the file (unreadable ones from a part of a receipt).
IndexTexts(file, names, bytes) ==
  [i \in DOMAIN names |->
     [seq |-> Len(Lines(file)) + i, name |-> names[i], sha |-> bytes[names[i]]]]

\* receipts_index.gate: both parse, are as long, and agree line by line.
Gate(idx, chn) ==
  LET a == Lines(idx)  b == Lines(chn)
  IN /\ \A i \in DOMAIN a : Parses(a[i])
     /\ \A i \in DOMAIN b : Parses(b[i])
     /\ Len(a) = Len(b)
     /\ \A i \in DOMAIN a : /\ a[i][1].seq = b[i][1].seq
                            /\ a[i][1].sha = b[i][1].sha
                            /\ a[i][1].name = b[i][1].name

-----------------------------------------------------------------------------
Loose == {f \in Receipt : receipt[f].place = "loose"}
Archive == {f \in Receipt : receipt[f].place = "archive"}
Bytes == [f \in Receipt |-> receipt[f].whole]

\* A set of receipts in lexicographic order.
Sorted(S) == CHOOSE s \in [1 .. Cardinality(S) -> S] :
               \A i, j \in DOMAIN s : i < j => s[i] < s[j]

Idle == [pc |-> "idle", list |-> <<>>, todo |-> <<>>, base |-> 0, ibase |-> 0,
          late |-> {}]

\* Nothing but the late receipts is kept of a rollup that is over.
Over(pc) == [Idle EXCEPT !.pc = pc, !.late = roll.late]
Stopped == Over("stopped")

RollInit ==
  /\ receipt = [f \in Receipt |-> [place |-> "nowhere", whole |-> FALSE,
                                   open |-> FALSE, tracked |-> FALSE]]
  /\ chain = NoFile /\ index = NoFile
  /\ head = [chain |-> NoFile, archive |-> {}]
  /\ roll = Idle
  /\ acts = 0 /\ mishap = FALSE

-----------------------------------------------------------------------------
\* write_receipt.py writes in place: open("w"), then json.dump.
OpenReceipt(f) ==
  /\ receipt[f].place = "nowhere"
  /\ receipt' = [receipt EXCEPT ![f].place = "loose", ![f].open = TRUE]
  /\ UNCHANGED <<chain, index, head, roll, acts, mishap>>

\* The writer has the file, wherever it has been moved.
CloseReceipt(f) ==
  /\ receipt[f].open
  /\ receipt' = [receipt EXCEPT ![f].whole = TRUE, ![f].open = FALSE]
  /\ UNCHANGED <<chain, index, head, roll, acts, mishap>>

KillWriter(f) ==
  /\ f \in Frail /\ receipt[f].open
  /\ receipt' = [receipt EXCEPT ![f].open = FALSE]
  /\ UNCHANGED <<chain, index, head, roll, acts, mishap>>

\* The operator commits the receipt of a run that has ended.
Track(f) ==
  /\ receipt[f].place = "loose" /\ ~receipt[f].open /\ ~receipt[f].tracked
  /\ receipt' = [receipt EXCEPT ![f].tracked = TRUE]
  /\ UNCHANGED <<chain, index, head, roll, acts, mishap>>

Writers == \E f \in Receipt :
  OpenReceipt(f) \/ CloseReceipt(f) \/ KillWriter(f) \/ Track(f)

-----------------------------------------------------------------------------
\* rollup_due.sh and R1: the loose receipts in order, and the lines there are.
Snapshot ==
  /\ roll.pc \in {"idle", "stopped", "killed"} /\ acts < MaxActs
  /\ Cardinality(Loose) >= Threshold
  /\ roll' = [pc |-> "chain", list |-> Sorted(Loose), todo |-> Sorted(Loose),
              base |-> Len(chain.lines), ibase |-> Len(index.lines),
              late |-> roll.late \cup {f \in Loose : receipt[f].open}]
  /\ acts' = acts + 1
  /\ UNCHANGED <<receipt, chain, index, head, mishap>>

\* Mutant: what is resumed is taken to be chained and indexed already.
Resume_AtMove ==
  /\ roll.pc = "killed" /\ acts < MaxActs
  /\ LET rest == Sorted({roll.list[i] : i \in DOMAIN roll.list} \ Archive)
     IN roll' = [roll EXCEPT !.pc = IF rest = <<>> THEN "gate" ELSE "move",
                             !.todo = rest]
  /\ acts' = acts + 1
  /\ UNCHANGED <<receipt, chain, index, head, mishap>>

\* "set difference (R1 list minus already archived), continue only those".
Resume ==
  /\ roll.pc = "killed" /\ acts < MaxActs
  /\ LET rest == Sorted({roll.list[i] : i \in DOMAIN roll.list} \ Archive)
     IN roll' = [roll EXCEPT !.pc = IF rest = <<>> THEN "gate" ELSE "chain",
                             !.todo = rest]
  /\ acts' = acts + 1
  /\ UNCHANGED <<receipt, chain, index, head, mishap>>

\* R2
ChainAppend ==
  /\ roll.pc = "chain"
  /\ chain' = Write(chain, ChainTexts(chain, roll.todo, Bytes))
  /\ roll' = [roll EXCEPT !.pc = "index"]
  /\ UNCHANGED <<receipt, index, head, acts, mishap>>

\* R2b
IndexAppend ==
  /\ roll.pc = "index"
  /\ index' = Write(index, IndexTexts(index, roll.todo, Bytes))
  /\ roll' = [roll EXCEPT !.pc = "move"]
  /\ UNCHANGED <<receipt, chain, head, acts, mishap>>

\* Mutants: every tracked loose receipt goes; an untracked one is passed over.
Move_All ==
  /\ roll.pc = "move" /\ roll.todo # <<>>
  /\ \A i \in DOMAIN roll.todo : receipt[roll.todo[i]].tracked
  /\ receipt' = [f \in Receipt |-> IF f \in Loose /\ receipt[f].tracked
                    THEN [receipt[f] EXCEPT !.place = "archive"] ELSE receipt[f]]
  /\ roll' = [roll EXCEPT !.todo = <<>>, !.pc = "gate"]
  /\ UNCHANGED <<chain, index, head, acts, mishap>>
Move_PassesOver ==
  /\ roll.pc = "move" /\ roll.todo # <<>>
  /\ receipt' = [receipt EXCEPT ![Head(roll.todo)].place =
                    IF receipt[Head(roll.todo)].tracked THEN "archive" ELSE @]
  /\ roll' = [roll EXCEPT !.todo = Tail(@),
                          !.pc = IF Tail(roll.todo) = <<>> THEN "gate" ELSE @]
  /\ UNCHANGED <<chain, index, head, acts, mishap>>

\* R3: git mv, which refuses a file git does not track.
Move ==
  /\ roll.pc = "move" /\ roll.todo # <<>>
  /\ LET f == Head(roll.todo)
     IN \/ /\ receipt[f].tracked
           /\ receipt' = [receipt EXCEPT ![f].place = "archive"]
           /\ roll' = [roll EXCEPT !.todo = Tail(@),
                                   !.pc = IF Tail(roll.todo) = <<>> THEN "gate" ELSE @]
           /\ UNCHANGED mishap
        \/ /\ ~receipt[f].tracked
           /\ roll' = Stopped
           /\ mishap' = TRUE
           /\ UNCHANGED receipt
  /\ UNCHANGED <<chain, index, head, acts>>

\* Mutant: the counts alone.
Checks_Counts == /\ Len(chain.lines) = roll.base + Len(roll.list)
                 /\ Len(index.lines) = roll.ibase + Len(roll.list)

\* R4 and the stop conditions: the gate, and both files longer by the list.
Checks == /\ Gate(index, chain)
          /\ Len(chain.lines) = roll.base + Len(roll.list)
          /\ Len(index.lines) = roll.ibase + Len(roll.list)

Check ==
  /\ roll.pc = "gate"
  /\ roll' = IF Checks THEN [roll EXCEPT !.pc = "commit"] ELSE Stopped
  /\ mishap' = (mishap \/ ~Checks)
  /\ UNCHANGED <<receipt, chain, index, head, acts>>

\* R5: one commit of the chain and of the renames.
CommitRollup ==
  /\ roll.pc = "commit"
  /\ head' = [chain |-> chain, archive |-> Archive]
  /\ roll' = Over("idle")
  /\ UNCHANGED <<receipt, chain, index, acts, mishap>>

\* The rollup dies between two commands, or in the append of one.
KillRollup ==
  /\ roll.pc \in {"chain", "index", "move", "gate", "commit"}
  /\ roll' = [roll EXCEPT !.pc = "killed"]
  /\ IF roll.pc = "chain"
     THEN chain' \in CutShort(chain, ChainTexts(chain, roll.todo, Bytes))
     ELSE UNCHANGED chain
  /\ IF roll.pc = "index"
     THEN index' \in CutShort(index, IndexTexts(index, roll.todo, Bytes))
     ELSE UNCHANGED index
  /\ mishap' = TRUE
  /\ UNCHANGED <<receipt, head, acts>>

-----------------------------------------------------------------------------
\* receipts_index.backfill copies the chain's lines for as long as each names
\* an archived receipt that still has its hash.
Copied(line) == /\ Archive \cap {line[1].name} # {}
                /\ receipt[line[1].name].whole = line[1].sha

BackfillTexts ==
  LET line == Lines(chain)
      n == CHOOSE k \in 0 .. Len(line) :
             /\ \A i \in 1 .. k : Copied(line[i])
             /\ k < Len(line) => ~Copied(line[k + 1])
  IN [i \in 1 .. n |-> [seq |-> line[i][1].seq, name |-> line[i][1].name,
                        sha |-> line[i][1].sha]]

\* It refuses an index that has lines and a chain that does not parse.
MayBackfill(old) == /\ Lines(old) = <<>>
                    /\ \A i \in DOMAIN Lines(chain) : Parses(Lines(chain)[i])

AtRest == roll.pc \in {"idle", "stopped", "killed"}

\* Over the index as it is, or taken away first by the operator.
Backfill ==
  /\ AtRest /\ acts < MaxActs /\ chain.there
  /\ \E old \in {index, NoFile} :
       /\ MayBackfill(old)
       /\ \/ /\ index' = Write(old, BackfillTexts)
             /\ mishap' = (mishap \/ Len(BackfillTexts) < Len(Lines(chain)))
          \/ index' \in CutShort(old, BackfillTexts) /\ mishap' = TRUE
  /\ acts' = acts + 1
  /\ UNCHANGED <<receipt, chain, head, roll>>

RollNext == \/ Writers \/ Snapshot \/ Resume \/ ChainAppend \/ IndexAppend
            \/ Move \/ Check \/ CommitRollup \/ KillRollup
            \/ Backfill

RollSpec == RollInit /\ [][RollNext]_rollVars

-----------------------------------------------------------------------------
Name(line) == IF Parses(line) THEN line[1].name ELSE NoName
Names(file) == [i \in DOMAIN Lines(file) |-> Name(Lines(file)[i])]

\* The blob at HEAD, "the authoritative check" (receipt_chain.py:19), verifies,
\* although R4 runs the gate and not verify, the gate looks at no link, and an
\* append never looks at what it appends to.
CommittedVerifies == Verifies(head.chain)

\* "per appended line, sha256 matches archived file raw bytes" (RS-001, V5),
\* of all receipts whose writer was through when R1 listed them.
ArchivedAsHashed ==
  \A f \in head.archive \ roll.late :
    \E i \in DOMAIN Lines(head.chain) :
      LET entry == Lines(head.chain)[i][1]
      IN entry.name = f /\ entry.sha = receipt[f].whole

\* As long as nothing was cut short or stopped, chain, index, archive and HEAD
\* agree between rollups, and each receipt is loose or named once.
QuietIsConsistent ==
  ~mishap /\ roll.pc = "idle" =>
    /\ Gate(index, chain) /\ Verifies(chain) /\ head.chain = chain
    /\ \A f \in Receipt : Cardinality({i \in DOMAIN Names(chain) : Names(chain)[i] = f})
                           = IF f \in Archive THEN 1 ELSE 0

\* A backfill that runs to its end over an intact chain, all of whose receipts
\* are in the archive with their bytes, gives an index that agrees with it.
BackfillRepairs ==
  [][/\ acts' > acts /\ chain.there /\ Verifies(chain)
     /\ \A i \in DOMAIN Lines(chain) : Copied(Lines(chain)[i])
     /\ index' = Write(NoFile, BackfillTexts)
     => Gate(index', chain')]_rollVars

\* The commit is RS-001's atomic one.
Log == INSTANCE ReceiptLog WITH
  log <- Names(head.chain), archived <- head.archive

CommittedLog == Log!LogSpec
=============================================================================
