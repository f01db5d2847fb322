------------------------- MODULE AnchorLedgerProofs -------------------------
(***************************************************************************)
(* Theorems about module AnchorLedger, for every set of runs and every     *)
(* number of tries.                                                        *)
(***************************************************************************)
EXTENDS AnchorLedger, TLAPS

USE NoEntryAssumption, AnchorAssumption

\* The parts of TypeOK that the steps below look up.
LEMMA Lookup ==
  ASSUME TypeOK, NEW r \in Run
  PROVE  /\ op[r] \in Op
         /\ op[r].head \in Seq(Content) /\ op[r].st \in Content \cup {Absent}
         /\ op[r].role \in Role /\ op[r].tries \in 0 .. Tries
         /\ op[r].linked \in BOOLEAN /\ op[r].alive \in BOOLEAN
         /\ entry[r] \in [Role -> Nat \cup {NoEntry}]
         /\ \A role \in Role : entry[r][role] \in Nat \cup {NoEntry}
  BY DEF TypeOK, Op

LEMMA MineTyped ==
  ASSUME TypeOK, NEW r \in Run
  PROVE  StatementOf(r, op[r].role, op[r].head) \in Statement
  <1>1. op[r].head \in Seq(Content) /\ op[r].role \in Role
    BY Lookup
  <1> QED BY <1>1 DEF StatementOf, Statement

\* What an action does to the run that takes it, in one record.
LEMMA OneMoves ==
  ASSUME TypeOK, NEW r \in Run, NEW o \in Op, op' = [op EXCEPT ![r] = o]
  PROVE  /\ op' \in [Run -> Op] /\ op'[r] = o
         /\ \A s \in Run : s # r => op'[s] = op[s]
  BY DEF TypeOK

Ends == {"refused", "unrecorded", "killed", "running", "recorded"}

LEMMA ExitMoves ==
  ASSUME TypeOK, NEW r \in Run, NEW pc \in Ends, Exit(r, pc)
  PROVE  /\ op' = [op EXCEPT ![r] = [op[r] EXCEPT !.pc = IF op[r].alive THEN pc ELSE "killed"]]
         /\ [op[r] EXCEPT !.pc = IF op[r].alive THEN pc ELSE "killed"] \in Op
  <1>1. op[r] \in Op /\ op \in [Run -> Op]
    BY Lookup DEF TypeOK
  <1>2. op' = [op EXCEPT ![r] = [op[r] EXCEPT !.pc = IF op[r].alive THEN pc ELSE "killed"]]
    BY <1>1 DEF Exit, Goto
  <1>3. [op[r] EXCEPT !.pc = IF op[r].alive THEN pc ELSE "killed"] \in Op
    BY <1>1 DEF Op, Ends
  <1> QED BY <1>2, <1>3

-----------------------------------------------------------------------------
(* Each action in normal form: which record replaces the run's, and that   *)
(* the record is well typed.                                               *)
LEMMA BeginForm ==
  ASSUME TypeOK, NEW r \in Run, NEW role \in Role, Begin(r, role)
  PROVE  LET o == [op[r] EXCEPT !.pc = "head", !.role = role, !.tries = 0]
         IN op' = [op EXCEPT ![r] = o] /\ o \in Op /\ UNCHANGED <<chain, entry, file>>
            /\ o.alive = op[r].alive /\ o.linked = op[r].linked
            /\ o.st = op[r].st /\ o.head = op[r].head
            /\ o.pc = "head" /\ o.role = role
            /\ ((op[r].pc = "start" /\ role = "declaration") \/ (op[r].pc = "running" /\ role = "stream"))
            /\ (Exclusive => InFlight = {})
  <1>1. op[r] \in Op /\ op \in [Run -> Op] /\ 0 \in 0 .. Tries
    BY Lookup DEF TypeOK
  <1>2. [op[r] EXCEPT !.pc = "head", !.role = role, !.tries = 0] \in Op
    BY <1>1 DEF Op, DepositPCs
  <1>3. op' = [op EXCEPT ![r] = [op[r] EXCEPT !.pc = "head", !.role = role, !.tries = 0]]
    BY <1>1 DEF Begin
  <1>4. UNCHANGED <<chain, entry, file>>
    BY DEF Begin
  <1>7. Exclusive => InFlight = {}
    BY Zenon DEF Begin
  <1>6. (op[r].pc = "start" /\ role = "declaration") \/ (op[r].pc = "running" /\ role = "stream")
    BY Zenon DEF Begin, At
  <1> DEFINE o == [op[r] EXCEPT !.pc = "head", !.role = role, !.tries = 0]
  <1>5. /\ o.alive = op[r].alive /\ o.linked = op[r].linked
        /\ o.st = op[r].st /\ o.head = op[r].head
        /\ o.pc = "head" /\ o.role = role
    BY <1>1 DEF Op
  <1> QED BY <1>2, <1>3, <1>4, <1>5, <1>6, <1>7

LEMMA ReadHeadForm ==
  ASSUME TypeOK, NEW r \in Run, ReadHead(r)
  PROVE  LET o == [op[r] EXCEPT !.pc = "open", !.head = chain]
         IN op' = [op EXCEPT ![r] = o] /\ o \in Op /\ UNCHANGED <<chain, entry, file>>
            /\ o.pc = "open" /\ o.role = op[r].role /\ o.alive = op[r].alive
            /\ o.head = chain /\ op[r].pc = "head"
  <1>1. op[r] \in Op /\ op \in [Run -> Op] /\ chain \in Seq(Content)
    BY Lookup DEF TypeOK
  <1>2. [op[r] EXCEPT !.pc = "open", !.head = chain] \in Op
    BY <1>1 DEF Op, DepositPCs
  <1> QED BY <1>1, <1>2 DEF ReadHead, At, Op

LEMMA OpenForm ==
  ASSUME TypeOK, NEW r \in Run, OpenStatement(r)
  PROVE  LET o == [op[r] EXCEPT !.pc = "write", !.linked = TRUE]
         IN op' = [op EXCEPT ![r] = o] /\ o \in Op /\ UNCHANGED <<chain, entry>>
            /\ file' = Garbled
            /\ o.pc = "write" /\ o.role = op[r].role /\ o.alive = op[r].alive
            /\ o.head = op[r].head /\ op[r].pc = "open" /\ o.linked = TRUE
  <1>1. op[r] \in Op /\ op \in [Run -> Op]
    BY Lookup DEF TypeOK
  <1>2. [op[r] EXCEPT !.pc = "write", !.linked = TRUE] \in Op
    BY <1>1 DEF Op, DepositPCs
  <1> QED BY <1>1, <1>2 DEF OpenStatement, At, Op

LEMMA WriteForm ==
  ASSUME TypeOK, NEW r \in Run, WriteStatement(r)
  PROVE  LET o == [op[r] EXCEPT !.pc = "hash", !.linked = FALSE]
         IN op' = [op EXCEPT ![r] = o] /\ o \in Op /\ UNCHANGED <<chain, entry>>
            /\ (\/ file' = StatementOf(r, op[r].role, op[r].head)
                \/ file' = Garbled /\ file \in Statement
                \/ file' = file /\ ~op[r].linked)
            /\ o.pc = "hash" /\ o.role = op[r].role /\ o.alive = op[r].alive
            /\ o.head = op[r].head /\ op[r].pc = "write"
  <1>1. op[r] \in Op /\ op \in [Run -> Op]
    BY Lookup DEF TypeOK
  <1>2. [op[r] EXCEPT !.pc = "hash", !.linked = FALSE] \in Op
    BY <1>1 DEF Op, DepositPCs
  <1> QED BY <1>1, <1>2 DEF WriteStatement, At, Op

LEMMA HashForm ==
  ASSUME TypeOK, NEW r \in Run, HashStatement(r), file # Absent
  PROVE  LET o == [op[r] EXCEPT !.pc = "rm", !.st = file]
         IN op' = [op EXCEPT ![r] = o] /\ o \in Op /\ UNCHANGED <<chain, entry, file>>
            /\ o.pc = "rm" /\ o.role = op[r].role /\ o.alive = op[r].alive
            /\ o.head = op[r].head /\ o.st = file /\ op[r].pc = "hash"
  <1>1. op[r] \in Op /\ op \in [Run -> Op] /\ file \in Content \cup {Absent}
    BY Lookup DEF TypeOK
  <1>2. [op[r] EXCEPT !.pc = "rm", !.st = file] \in Op
    BY <1>1 DEF Op, DepositPCs
  <1> QED BY <1>1, <1>2 DEF HashStatement, At, Op

\* A deposit that ends without an entry.
Unanswered == {"refused", "unrecorded", "killed"}

LEMMA HashFails ==
  ASSUME TypeOK, NEW r \in Run, HashStatement(r), file = Absent
  PROVE  \E pc \in Unanswered :
           LET o == [op[r] EXCEPT !.pc = pc]
           IN op' = [op EXCEPT ![r] = o] /\ o \in Op /\ UNCHANGED <<chain, entry, file>>
              /\ o.pc = pc /\ o.role = op[r].role /\ o.alive = op[r].alive
              /\ o.head = op[r].head /\ o.st = op[r].st /\ op[r].pc = "hash"
  <1> DEFINE pc == IF op[r].role = "declaration" THEN "refused" ELSE "unrecorded"
             q == IF op[r].alive THEN pc ELSE "killed"
  <1>1. op[r] \in Op /\ pc \in Ends /\ q \in Unanswered
    BY Lookup DEF Ends, Unanswered
  <1>2. Exit(r, pc) /\ op[r].pc = "hash" /\ UNCHANGED <<chain, entry, file>>
    BY DEF HashStatement, Fails, At
  <1>3. op' = [op EXCEPT ![r] = [op[r] EXCEPT !.pc = q]] /\ [op[r] EXCEPT !.pc = q] \in Op
    BY <1>1, <1>2, ExitMoves
  <1> q \in Unanswered
    BY <1>1
  <1>4. WITNESS q \in Unanswered
  <1> HIDE DEF q
  <1> QED BY <1>1, <1>2, <1>3 DEF Op

LEMMA RemoveForm ==
  ASSUME TypeOK, NEW r \in Run, RemoveStatement(r)
  PROVE  /\ op' \in [Run -> Op] /\ UNCHANGED <<chain, entry>> /\ file' = Absent
         /\ op[r].pc = "rm" /\ op'[r].pc = "cas"
         /\ \A s \in Run : /\ op'[s].role = op[s].role /\ op'[s].alive = op[s].alive
                           /\ op'[s].head = op[s].head /\ op'[s].st = op[s].st
                           /\ s # r => op'[s].pc = op[s].pc
  <1>1. \A s \in Run : op[s] \in Op
    BY DEF TypeOK
  <1>2. \A s \in Run : [op[s] EXCEPT !.pc = "cas"] \in Op /\ [op[s] EXCEPT !.linked = FALSE] \in Op
    BY <1>1 DEF Op, DepositPCs
  <1>3. op' = [s \in Run |-> IF s = r THEN [op[s] EXCEPT !.pc = "cas"]
                                      ELSE [op[s] EXCEPT !.linked = FALSE]]
    BY DEF RemoveStatement
  <1>4. op' \in [Run -> Op]
    BY <1>2, <1>3
  <1>5. \A s \in Run : /\ op'[s].role = op[s].role /\ op'[s].alive = op[s].alive
                       /\ op'[s].head = op[s].head /\ op'[s].st = op[s].st
                       /\ s # r => op'[s].pc = op[s].pc
    BY <1>1, <1>3 DEF Op
  <1>6. op'[r].pc = "cas"
    BY <1>1, <1>3 DEF Op
  <1> QED BY <1>4, <1>5, <1>6 DEF RemoveStatement, At

LEMMA SwapForm ==
  ASSUME TypeOK, NEW r \in Run, Swap(r)
  PROVE  LET next == IF op[r].role = "declaration" THEN "running" ELSE "recorded"
             pc == IF op[r].alive THEN next ELSE "killed"
             o == [op[r] EXCEPT !.pc = pc]
         IN /\ op' = [op EXCEPT ![r] = o] /\ o \in Op /\ o.pc = pc
            /\ o.role = op[r].role /\ o.alive = op[r].alive /\ o.st = op[r].st
            /\ o.head = op[r].head
            /\ op[r].pc = "cas" /\ chain = op[r].head /\ UNCHANGED file
            /\ chain' = Append(chain, op[r].st)
            /\ (op[r].alive => entry' = [entry EXCEPT ![r][op[r].role] = Len(chain) + 1])
            /\ (~op[r].alive => entry' = entry)
  <1> DEFINE next == IF op[r].role = "declaration" THEN "running" ELSE "recorded"
             pc == IF op[r].alive THEN next ELSE "killed"
  <1>1. op[r] \in Op /\ next \in Ends
    BY Lookup DEF Ends
  <1>2. op[r].pc = "cas" /\ chain = op[r].head /\ UNCHANGED file /\ Exit(r, next)
        /\ chain' = Append(chain, op[r].st)
        /\ entry' = IF op[r].alive THEN [entry EXCEPT ![r][op[r].role] = Len(chain) + 1]
                                   ELSE entry
    BY DEF Swap, Acknowledge, At
  <1>3. op' = [op EXCEPT ![r] = [op[r] EXCEPT !.pc = pc]] /\ [op[r] EXCEPT !.pc = pc] \in Op
    BY <1>1, <1>2, ExitMoves
  <1> HIDE DEF next
  <1>4. [op[r] EXCEPT !.pc = pc].pc = pc /\ [op[r] EXCEPT !.pc = pc].role = op[r].role
        /\ [op[r] EXCEPT !.pc = pc].alive = op[r].alive /\ [op[r] EXCEPT !.pc = pc].st = op[r].st
        /\ [op[r] EXCEPT !.pc = pc].head = op[r].head
    BY <1>1 DEF Op
  <1> QED BY <1>2, <1>3, <1>4 DEF next

LEMMA SwapLostForm ==
  ASSUME TypeOK, NEW r \in Run, SwapLost(r)
  PROVE  \E pc \in Unanswered \cup {"head"} :
           LET o == [op[r] EXCEPT !.pc = pc, !.tries = @ + 1]
           IN op' = [op EXCEPT ![r] = o] /\ o \in Op /\ UNCHANGED <<chain, entry, file>>
              /\ o.pc = pc /\ o.role = op[r].role /\ o.alive = op[r].alive
              /\ o.head = op[r].head /\ o.st = op[r].st /\ op[r].pc = "cas"
              /\ (chain # op[r].head \/ \E s \in Run \ {r} : At(s, "cas"))
              /\ (pc = "head" => op[r].tries + 1 < Tries)
  <1> DEFINE pc == IF op[r].tries + 1 < Tries THEN "head"
                   ELSE IF ~op[r].alive THEN "killed"
                   ELSE IF op[r].role = "declaration" THEN "refused"
                   ELSE "unrecorded"
  <1>1. op[r] \in Op /\ op \in [Run -> Op] /\ pc \in Unanswered \cup {"head"}
        /\ op[r].tries + 1 \in 0 .. Tries
    BY Lookup DEF TypeOK, Unanswered, SwapLost, At, InFlight, DepositPCs
  <1>2. op' = [op EXCEPT ![r] = [op[r] EXCEPT !.pc = pc, !.tries = @ + 1]]
        /\ op[r].pc = "cas" /\ UNCHANGED <<chain, entry, file>>
        /\ (chain # op[r].head \/ \E s \in Run \ {r} : At(s, "cas"))
    BY <1>1 DEF SwapLost, At
  <1>3. pc = "head" => op[r].tries + 1 < Tries
    OBVIOUS
  <1> pc \in Unanswered \cup {"head"}
    BY <1>1
  <1>4. WITNESS pc \in Unanswered \cup {"head"}
  <1> HIDE DEF pc
  <1>5. [op[r] EXCEPT !.pc = pc, !.tries = @ + 1] \in Op
    BY <1>1 DEF Op, DepositPCs, Unanswered
  <1> QED BY <1>1, <1>2, <1>3, <1>5 DEF Op

LEMMA KillForm ==
  ASSUME TypeOK, NEW r \in Run, Kill(r)
  PROVE  \E pc \in {"killed"} \cup (IF r \in InFlight THEN {op[r].pc} ELSE {}) :
           LET o == [op[r] EXCEPT !.pc = pc, !.alive = FALSE]
           IN op' = [op EXCEPT ![r] = o] /\ o \in Op /\ UNCHANGED <<chain, entry, file>>
              /\ o.pc = pc /\ o.role = op[r].role /\ o.alive = FALSE /\ o.linked = op[r].linked
              /\ o.head = op[r].head /\ o.st = op[r].st
  <1>1. op[r] \in Op /\ op \in [Run -> Op] /\ UNCHANGED <<chain, entry, file>>
    BY Lookup DEF TypeOK, Kill
  <1>2. CASE op' = [op EXCEPT ![r].alive = FALSE, ![r].pc = "killed"]
    <2>1. op' = [op EXCEPT ![r] = [op[r] EXCEPT !.pc = "killed", !.alive = FALSE]]
          /\ [op[r] EXCEPT !.pc = "killed", !.alive = FALSE] \in Op
      BY <1>1, <1>2, ZenonT(60) DEF Op
    <2>2. WITNESS "killed" \in {"killed"} \cup (IF r \in InFlight THEN {op[r].pc} ELSE {})
    <2> QED BY <1>1, <2>1 DEF Op
  <1>3. CASE r \in InFlight /\ op' = [op EXCEPT ![r].alive = FALSE]
    <2>1. op' = [op EXCEPT ![r] = [op[r] EXCEPT !.pc = op[r].pc, !.alive = FALSE]]
          /\ [op[r] EXCEPT !.pc = op[r].pc, !.alive = FALSE] \in Op
      BY <1>1, <1>3 DEF Op
    <2>2. op[r].pc \in {"killed"} \cup (IF r \in InFlight THEN {op[r].pc} ELSE {})
      BY <1>3
    <2>3. WITNESS op[r].pc \in {"killed"} \cup (IF r \in InFlight THEN {op[r].pc} ELSE {})
    <2> QED BY <1>1, <2>1 DEF Op
  <1> QED BY <1>2, <1>3 DEF Kill

-----------------------------------------------------------------------------
(* Type correctness.                                                       *)
LEMMA TypeInit == Init => TypeOK
  <1> SUFFICES ASSUME Init PROVE TypeOK
    OBVIOUS
  <1>1. <<>> \in Seq(Content) /\ 0 \in 0 .. Tries /\ 0 < Tries
    OBVIOUS
  <1>2. op \in [Run -> Op]
    BY <1>1 DEF Init, Op, Role, DepositPCs
  <1>3. InFlight = {}
    BY DEF Init, InFlight, DepositPCs
  <1> QED BY <1>1, <1>2, <1>3 DEF Init, LedgerInit, TypeOK

\* One moving run keeps the typing of all of them, if it is in flight with
\* tries to spare and commits with a statement.
LEMMA MoveTyped ==
  ASSUME TypeOK, NEW r \in Run, NEW o \in Op, op' = [op EXCEPT ![r] = o],
         o.pc \in DepositPCs => o.tries < Tries,
         o.pc \in {"rm", "cas"} => o.st # Absent,
         chain' \in Seq(Content), file' \in Content \cup {Absent},
         entry' \in [Run -> [Role -> Nat \cup {NoEntry}]]
  PROVE  TypeOK'
  <1>1. op' \in [Run -> Op] /\ op'[r] = o /\ \A s \in Run : s # r => op'[s] = op[s]
    BY OneMoves
  <1> QED BY <1>1 DEF TypeOK, InFlight

LEMMA TypeStep == TypeOK /\ [Next]_vars => TypeOK'
  <1> SUFFICES ASSUME TypeOK, [Next]_vars PROVE TypeOK'
    OBVIOUS
  <1>0. /\ chain \in Seq(Content) /\ file \in Content \cup {Absent}
        /\ entry \in [Run -> [Role -> Nat \cup {NoEntry}]]
    BY DEF TypeOK
  <1>a. ASSUME NEW r \in Run
        PROVE  /\ op[r].pc \in DepositPCs => op[r].tries < Tries
               /\ op[r].pc \in {"rm", "cas"} => op[r].st # Absent
    BY DEF TypeOK, InFlight, DepositPCs
  <1>b. \A r \in Run : op[r] \in Op
    BY DEF TypeOK
  <1>1. ASSUME NEW r \in Run, NEW role \in Role, Begin(r, role) PROVE TypeOK'
    <2> DEFINE o == [op[r] EXCEPT !.pc = "head", !.role = role, !.tries = 0]
    <2>1. o \in Op /\ op' = [op EXCEPT ![r] = o] /\ UNCHANGED <<chain, entry, file>>
      BY <1>1, BeginForm
    <2>2. o.tries < Tries /\ o.pc \notin {"rm", "cas"}
      BY <1>b DEF Op
    <2> HIDE DEF o
    <2> QED BY <2>1, <2>2, <1>0, MoveTyped
  <1>2. ASSUME NEW r \in Run, ReadHead(r) PROVE TypeOK'
    <2> DEFINE o == [op[r] EXCEPT !.pc = "open", !.head = chain]
    <2>1. o \in Op /\ op' = [op EXCEPT ![r] = o] /\ UNCHANGED <<chain, entry, file>>
          /\ op[r].pc = "head"
      BY <1>2, ReadHeadForm
    <2>2. o.tries < Tries /\ o.pc \notin {"rm", "cas"}
      BY <1>a, <1>b, <2>1 DEF Op, DepositPCs
    <2> HIDE DEF o
    <2> QED BY <2>1, <2>2, <1>0, MoveTyped
  <1>3. ASSUME NEW r \in Run, OpenStatement(r) PROVE TypeOK'
    <2> DEFINE o == [op[r] EXCEPT !.pc = "write", !.linked = TRUE]
    <2>1. o \in Op /\ op' = [op EXCEPT ![r] = o] /\ UNCHANGED <<chain, entry>>
          /\ op[r].pc = "open" /\ file' = Garbled
      BY <1>3, OpenForm
    <2>2. o.tries < Tries /\ o.pc \notin {"rm", "cas"}
      BY <1>a, <1>b, <2>1 DEF Op, DepositPCs
    <2> HIDE DEF o
    <2> QED BY <2>1, <2>2, <1>0, MoveTyped DEF Content
  <1>4. ASSUME NEW r \in Run, WriteStatement(r) PROVE TypeOK'
    <2> DEFINE o == [op[r] EXCEPT !.pc = "hash", !.linked = FALSE]
    <2>1. o \in Op /\ op' = [op EXCEPT ![r] = o] /\ UNCHANGED <<chain, entry>>
          /\ op[r].pc = "write"
      BY <1>4, WriteForm
    <2>2. o.tries < Tries /\ o.pc \notin {"rm", "cas"}
      BY <1>a, <1>b, <2>1 DEF Op, DepositPCs
    <2>3. file' \in Content \cup {Absent}
      BY <1>4, <1>0, WriteForm, MineTyped DEF Content
    <2> HIDE DEF o
    <2> QED BY <2>1, <2>2, <2>3, <1>0, MoveTyped
  <1>5. ASSUME NEW r \in Run, HashStatement(r) PROVE TypeOK'
    <2>1. CASE file = Absent
      <3>1. PICK pc \in Unanswered :
              /\ [op[r] EXCEPT !.pc = pc] \in Op
              /\ op' = [op EXCEPT ![r] = [op[r] EXCEPT !.pc = pc]]
              /\ UNCHANGED <<chain, entry, file>>
              /\ [op[r] EXCEPT !.pc = pc].pc = pc
        BY <1>5, <2>1, HashFails
      <3>2. pc \notin DepositPCs /\ pc \notin {"rm", "cas"}
        BY DEF Unanswered, DepositPCs
      <3> QED BY <3>1, <3>2, <1>0, MoveTyped
    <2>2. CASE file # Absent
      <3> DEFINE o == [op[r] EXCEPT !.pc = "rm", !.st = file]
      <3>1. o \in Op /\ op' = [op EXCEPT ![r] = o] /\ UNCHANGED <<chain, entry, file>>
            /\ op[r].pc = "hash"
        BY <1>5, <2>2, HashForm
      <3>2. o.tries < Tries /\ (o.pc \in {"rm", "cas"} => o.st # Absent)
        BY <1>a, <1>b, <2>2, <3>1 DEF Op, DepositPCs
      <3> HIDE DEF o
      <3> QED BY <3>1, <3>2, <1>0, MoveTyped
    <2> QED BY <2>1, <2>2
  <1>6. ASSUME NEW r \in Run, RemoveStatement(r) PROVE TypeOK'
    <2>1. op' \in [Run -> Op] /\ UNCHANGED <<chain, entry>> /\ file' = Absent /\ op[r].pc = "rm"
          /\ \A s \in Run : s # r => op'[s].pc = op[s].pc
      BY <1>6, RemoveForm
    <2>2. \A s \in Run : op'[s].tries = op[s].tries /\ op'[s].st = op[s].st
      <3>1. op' = [s \in Run |-> IF s = r THEN [op[s] EXCEPT !.pc = "cas"]
                                          ELSE [op[s] EXCEPT !.linked = FALSE]]
        BY <1>6 DEF RemoveStatement
      <3> QED BY <3>1, <1>b DEF Op
    <2>3. op[r].tries < Tries /\ op[r].st # Absent
      BY <1>a, <2>1 DEF DepositPCs
    <2> QED BY <2>1, <2>2, <2>3, <1>0 DEF TypeOK, InFlight
  <1>7. ASSUME NEW r \in Run, Swap(r) PROVE TypeOK'
    <2> DEFINE pc == IF op[r].alive
                       THEN IF op[r].role = "declaration" THEN "running" ELSE "recorded"
                       ELSE "killed"
               o == [op[r] EXCEPT !.pc = pc]
    <2>1. /\ o \in Op /\ op' = [op EXCEPT ![r] = o] /\ o.pc = pc /\ UNCHANGED file
          /\ op[r].pc = "cas"
      BY <1>7, SwapForm
    <2>2. pc \notin DepositPCs /\ pc \notin {"rm", "cas"}
      BY DEF DepositPCs
    <2>3. op[r].st \in Content /\ op[r].role \in Role
      BY <2>1, <1>a, Lookup
    <2>4. chain' \in Seq(Content)
      <3>1. chain' = Append(chain, op[r].st)
        BY <1>7, SwapForm
      <3> QED BY <1>0, <2>3, <3>1
    <2>5. entry' \in [Run -> [Role -> Nat \cup {NoEntry}]]
      <3> DEFINE n == Len(chain) + 1
      <3>1. n \in Nat
        BY <1>0
      <3>2. entry' = entry \/ entry' = [entry EXCEPT ![r][op[r].role] = n]
        BY <1>7, SwapForm, Lookup
      <3> HIDE DEF n
      <3> QED BY <1>0, <2>3, <3>1, <3>2
    <2> HIDE DEF o, pc
    <2> QED BY <2>1, <2>2, <2>4, <2>5, <1>0, MoveTyped
  <1>8. ASSUME NEW r \in Run, SwapLost(r) PROVE TypeOK'
    <2>1. PICK pc \in Unanswered \cup {"head"} :
            LET o == [op[r] EXCEPT !.pc = pc, !.tries = @ + 1]
            IN /\ o \in Op /\ o.pc = pc /\ op' = [op EXCEPT ![r] = o]
               /\ UNCHANGED <<chain, entry, file>>
               /\ pc = "head" => op[r].tries + 1 < Tries
      BY <1>8, SwapLostForm
    <2> DEFINE o == [op[r] EXCEPT !.pc = pc, !.tries = @ + 1]
    <2>2. o.tries = op[r].tries + 1
      BY <1>b DEF Op
    <2>3. o \in Op /\ op' = [op EXCEPT ![r] = o] /\ (o.pc \in DepositPCs => o.tries < Tries)
          /\ o.pc \notin {"rm", "cas"}
      BY <2>1, <2>2 DEF Unanswered, DepositPCs
    <2> HIDE DEF o
    <2> QED BY <2>1, <2>3, <1>0, MoveTyped
  <1>9. ASSUME NEW r \in Run, Kill(r) PROVE TypeOK'
    <2>1. PICK pc \in {"killed"} \cup (IF r \in InFlight THEN {op[r].pc} ELSE {}) :
            LET o == [op[r] EXCEPT !.pc = pc, !.alive = FALSE]
            IN /\ o \in Op /\ o.pc = pc /\ o.st = op[r].st /\ op' = [op EXCEPT ![r] = o]
               /\ UNCHANGED <<chain, entry, file>>
      BY <1>9, KillForm
    <2> DEFINE o == [op[r] EXCEPT !.pc = pc, !.alive = FALSE]
    <2>2. o.tries = op[r].tries /\ (pc = "killed" \/ pc = op[r].pc)
      BY <1>b, <2>1 DEF Op
    <2>3. /\ o \in Op /\ op' = [op EXCEPT ![r] = o] /\ UNCHANGED <<chain, entry, file>>
          /\ o.pc \in DepositPCs => o.tries < Tries
          /\ o.pc \in {"rm", "cas"} => o.st # Absent
      BY <1>a, <2>1, <2>2 DEF DepositPCs
    <2> HIDE DEF o
    <2> QED BY <2>3, <1>0, MoveTyped
  <1>10. CASE UNCHANGED vars
    BY <1>10 DEF TypeOK, InFlight, vars
  <1> QED
    BY <1>1, <1>2, <1>3, <1>4, <1>5, <1>6, <1>7, <1>8, <1>9, <1>10 DEF Next, Depositing

\* Every reachable state is well typed: in particular no deposit under way
\* has used up its tries, and none commits without a statement.
THEOREM LedgerTypeCorrect == Spec => []TypeOK
  BY TypeInit, TypeStep, PTL DEF Spec

\* The chain only ever grows by one entry: no race, retry or death removes or
\* replaces an entry.
THEOREM LedgerGrows == Spec => AppendOnly
  <1> DEFINE Grows == chain' = chain \/ (Len(chain') = Len(chain) + 1
                                         /\ \A i \in DOMAIN chain : chain'[i] = chain[i])
  <1>1. TypeOK /\ [Next]_vars => Grows
    <2> SUFFICES ASSUME TypeOK, [Next]_vars PROVE Grows
      OBVIOUS
    <2>1. CASE UNCHANGED vars
      BY <2>1 DEF vars
    <2>2. ASSUME NEW r \in Run, Swap(r) PROVE Grows
      <3>1. chain' = Append(chain, op[r].st) /\ chain \in Seq(Content)
        BY <2>2, SwapForm DEF TypeOK
      <3>2. op[r].st \in Content
        BY <2>2, Lookup DEF TypeOK, Swap, At, InFlight, DepositPCs
      <3> QED BY <3>1, <3>2
    <2>3. ASSUME NEW r \in Run, ~Swap(r), Depositing(r) \/ Kill(r) \/ \E role \in Role : Begin(r, role)
          PROVE Grows
      BY <2>3 DEF Depositing, Begin, ReadHead, OpenStatement, WriteStatement, HashStatement,
                  RemoveStatement, SwapLost, Kill
    <2> QED BY <2>1, <2>2, <2>3 DEF Next
  <1>2. TypeOK /\ [Next]_vars => [Grows]_vars
    BY <1>1
  <1> QED BY LedgerTypeCorrect, <1>2, PTL DEF Spec, AppendOnly

-----------------------------------------------------------------------------
(* The inductive invariant of the deposits.                                *)
LEMMA DepositInit == Init => DepositInv
  <1> SUFFICES ASSUME Init PROVE DepositInv
    OBVIOUS
  <1>1. TypeOK
    BY TypeInit
  <1>2. \A r \in Run : /\ op[r].pc = "start" /\ op[r].role = "declaration"
                      /\ entry[r]["declaration"] = NoEntry /\ entry[r]["stream"] = NoEntry
                      /\ \A role \in Role : entry[r][role] = NoEntry
    BY DEF Init, LedgerInit, Role
  <1>3. InFlight = {}
    BY <1>2 DEF InFlight, DepositPCs
  <1>4. AnswersMatchStage
    BY <1>2, <1>3 DEF AnswersMatchStage, BeforeAnswer, At
  <1>5. AnswersStand /\ DeclarationFirst /\ StatementsAreFresh
    BY <1>2 DEF AnswersStand, DeclarationFirst, StatementsAreFresh, At
  <1>6. chain = <<>>
    BY DEF Init, LedgerInit
  <1>7. NamesItsPredecessor
    BY <1>6 DEF NamesItsPredecessor
  <1> QED BY <1>1, <1>4, <1>5, <1>7 DEF DepositInv

\* A step that leaves the ledger and the answers alone.
LEMMA QuietKept ==
  ASSUME UNCHANGED <<chain, entry>>, AnswersStand, DeclarationFirst, NamesItsPredecessor
  PROVE  AnswersStand' /\ DeclarationFirst' /\ NamesItsPredecessor'
  BY DEF AnswersStand, DeclarationFirst, NamesItsPredecessor

\* A run that owed an answer before its step may owe it after.
LEMMA StageKept ==
  ASSUME TypeOK, AnswersMatchStage, NEW r \in Run, NEW o \in Op,
         op' = [op EXCEPT ![r] = o], UNCHANGED entry, o.pc # "recorded",
         \A role \in Role :
           (o.pc \in DepositPCs /\ o.role = role)
           \/ o.pc = (IF role = "declaration" THEN "start" ELSE "running")
           => BeforeAnswer(r, role)
  PROVE  AnswersMatchStage'
  <1>1. op' \in [Run -> Op] /\ op'[r] = o /\ \A s \in Run : s # r => op'[s] = op[s]
    BY OneMoves
  <1>2. \A s \in Run, role \in Role : BeforeAnswer(s, role)' => BeforeAnswer(s, role)
    BY <1>1 DEF BeforeAnswer, InFlight, At
  <1>3. \A s \in Run : At(s, "recorded")' => At(s, "recorded")
    BY <1>1 DEF At
  <1> QED BY <1>2, <1>3 DEF AnswersMatchStage, Role

\* A step of r leaves the file and its own statement fresh for r, and puts no
\* statement of another run into the file.
LEMMA FreshKept ==
  ASSUME TypeOK, StatementsAreFresh, NEW r \in Run, NEW o \in Op,
         op' = [op EXCEPT ![r] = o],
         file' = file \/ file' \notin Statement \/ file'.run = r,
         o.pc = "write" => ~(file' \in Statement /\ file'.run = r /\ file'.role = o.role),
         o.pc = "hash" /\ file' \in Statement /\ file'.run = r /\ file'.role = o.role
           => file'.pred = Len(o.head),
         o.pc \in {"rm", "cas"} /\ o.st \in Statement /\ o.st.run = r /\ o.st.role = o.role
           => o.st.pred = Len(o.head)
  PROVE  StatementsAreFresh'
  <1>1. op' \in [Run -> Op] /\ op'[r] = o /\ \A s \in Run : s # r => op'[s] = op[s]
    BY OneMoves
  <1> QED BY <1>1 DEF StatementsAreFresh, At, Own

\* The one step that appends, and answers if anyone is left to hear it.
LEMMA SwapAnswers ==
  ASSUME DepositInv, NEW r \in Run, Swap(r)
  PROVE  AnswersStand' /\ DeclarationFirst' /\ NamesItsPredecessor' /\ AnswersMatchStage'
  <1> DEFINE role == op[r].role
             n == Len(chain) + 1
  <1>0. TypeOK /\ chain \in Seq(Content) /\ role \in Role /\ op[r].st \in Content
    BY Lookup DEF DepositInv, TypeOK, Swap, At, InFlight, DepositPCs
  <1>1. /\ chain' = Append(chain, op[r].st) /\ op[r].pc = "cas" /\ chain = op[r].head
        /\ (op[r].alive => entry' = [entry EXCEPT ![r][role] = n])
        /\ (~op[r].alive => entry' = entry)
    BY <1>0, SwapForm
  <1>2. /\ DOMAIN chain = 1 .. Len(chain) /\ DOMAIN chain' = 1 .. n /\ n \in Nat
        /\ n \in DOMAIN chain' /\ chain'[n] = op[r].st /\ n \notin DOMAIN chain
        /\ \A i \in DOMAIN chain : i \in DOMAIN chain' /\ chain'[i] = chain[i] /\ i < n
    BY <1>0, <1>1
  <1>3. /\ entry \in [Run -> [Role -> Nat \cup {NoEntry}]] /\ n # NoEntry
    BY <1>0, <1>2 DEF TypeOK
  <1>4. \A s \in Run, x \in Role : entry[s][x] # NoEntry => entry[s][x] \in DOMAIN chain
    BY DEF DepositInv, AnswersStand
  <1>5. r \in InFlight
    BY <1>1 DEF InFlight, DepositPCs
  <1>6. op[r].alive => /\ \A s \in Run, x \in Role : (s # r \/ x # role) => entry'[s][x] = entry[s][x]
                       /\ entry'[r][role] = n
    BY <1>0, <1>1, <1>3
  <1>7. BeforeAnswer(r, role)
    BY <1>5 DEF BeforeAnswer
  <1>8. op[r].st \in Statement /\ op[r].st.run = r /\ op[r].st.role = role => op[r].st.pred = n - 1
    BY <1>0, <1>1, <1>2 DEF DepositInv, StatementsAreFresh, Own
  <1> HIDE DEF n
  <1>9. CASE ~op[r].alive
    <2>1. entry' = entry
      BY <1>1, <1>9
    <2> DEFINE o == [op[r] EXCEPT !.pc = "killed"]
    <2>2. op' = [op EXCEPT ![r] = o] /\ o \in Op /\ o.pc = "killed"
      BY <1>0, <1>9, SwapForm
    <2>6. \A x \in Role : ~((o.pc \in DepositPCs /\ o.role = x)
                           \/ o.pc = (IF x = "declaration" THEN "start" ELSE "running"))
      BY <2>2 DEF DepositPCs
    <2> HIDE DEF o
    <2>3. AnswersMatchStage'
      BY <2>6, <1>0, <2>1, <2>2, StageKept DEF DepositInv, DepositPCs
    <2>4. AnswersStand' /\ DeclarationFirst'
      BY <1>2, <2>1 DEF DepositInv, AnswersStand, DeclarationFirst
    <2>5. NamesItsPredecessor'
      BY <1>2, <1>3, <1>4, <2>1 DEF DepositInv, NamesItsPredecessor
    <2> QED BY <2>3, <2>4, <2>5
  <1>10. CASE op[r].alive
    <2> DEFINE pc == IF role = "declaration" THEN "running" ELSE "recorded"
               o == [op[r] EXCEPT !.pc = pc]
    <2>1. op' = [op EXCEPT ![r] = o] /\ o \in Op /\ o.pc = pc
      BY <1>0, <1>10, SwapForm
    <2>2. AnswersStand'
      BY <1>2, <1>3, <1>4, <1>6, <1>10 DEF DepositInv, AnswersStand
    <2>3. DeclarationFirst'
      <3>1. role = "declaration" => entry[r]["stream"] = NoEntry
        BY <1>7 DEF DepositInv, AnswersMatchStage
      <3>2. role = "stream" => entry[r]["declaration"] # NoEntry
        BY <1>7 DEF DepositInv, AnswersMatchStage
      <3>3. \A s \in Run : entry[s]["stream"] # NoEntry =>
              entry[s]["declaration"] # NoEntry /\ entry[s]["declaration"] < entry[s]["stream"]
        BY DEF DepositInv, DeclarationFirst
      <3>4. ASSUME NEW s \in Run, entry'[s]["stream"] # NoEntry
            PROVE  entry'[s]["declaration"] # NoEntry /\ entry'[s]["declaration"] < entry'[s]["stream"]
        <4>1. CASE s # r
          BY <1>6, <1>10, <3>3, <3>4, <4>1 DEF Role
        <4>2. CASE s = r /\ role = "declaration"
          BY <1>6, <1>10, <3>1, <3>4, <4>2 DEF Role
        <4>3. CASE s = r /\ role = "stream"
          BY <1>2, <1>4, <1>6, <1>10, <3>2, <4>3 DEF Role
        <4> QED BY <1>0, <4>1, <4>2, <4>3 DEF Role
      <3> QED BY <3>4 DEF DeclarationFirst
    <2>4. NamesItsPredecessor'
      <3> SUFFICES ASSUME NEW s \in Run, NEW x \in Role, entry'[s][x] \in DOMAIN chain',
                          chain'[entry'[s][x]] \in Statement,
                          chain'[entry'[s][x]].run = s, chain'[entry'[s][x]].role = x
                   PROVE  chain'[entry'[s][x]].pred = entry'[s][x] - 1
        BY DEF NamesItsPredecessor
      <3>1. CASE s = r /\ x = role
        BY <1>2, <1>6, <1>8, <1>10, <3>1
      <3>2. CASE ~(s = r /\ x = role)
        <4>1. entry'[s][x] = entry[s][x] /\ entry[s][x] # NoEntry
          BY <1>2, <1>6, <1>10, <3>2
        <4>2. entry[s][x] \in DOMAIN chain
          BY <1>4, <4>1
        <4> QED BY <1>2, <4>1, <4>2 DEF DepositInv, NamesItsPredecessor
      <3> QED BY <3>1, <3>2
    <2>5. AnswersMatchStage'
      <3>1. op'[r] = o /\ \A s \in Run : s # r => op'[s] = op[s]
        BY <1>0, <2>1, OneMoves
      <3>2. \A s \in Run, x \in Role : s # r => entry'[s][x] = entry[s][x]
        BY <1>6, <1>10
      <3>3. \A s \in Run \ {r}, x \in Role :
              /\ BeforeAnswer(s, x)' => BeforeAnswer(s, x)
              /\ At(s, "recorded")' => At(s, "recorded")
        BY <3>1 DEF BeforeAnswer, InFlight, At
      <3>4. CASE role = "declaration"
        <4>1. op'[r].pc = "running"
          BY <2>1, <3>1, <3>4
        <4>2. /\ ~BeforeAnswer(r, "declaration")' /\ ~At(r, "recorded")'
              /\ entry'[r]["declaration"] # NoEntry /\ entry'[r]["stream"] = entry[r]["stream"]
          BY <1>3, <1>6, <1>10, <3>4, <4>1 DEF BeforeAnswer, At, InFlight, DepositPCs, Role
        <4>3. entry[r]["stream"] = NoEntry
          BY <1>7, <3>4 DEF DepositInv, AnswersMatchStage
        <4> QED BY <3>2, <3>3, <4>2, <4>3 DEF DepositInv, AnswersMatchStage, Role
      <3>5. CASE role = "stream"
        <4>1. op'[r].pc = "recorded"
          BY <2>1, <3>1, <3>5
        <4>2. /\ ~BeforeAnswer(r, "declaration")' /\ ~BeforeAnswer(r, "stream")'
              /\ entry'[r]["stream"] # NoEntry /\ entry'[r]["declaration"] = entry[r]["declaration"]
          BY <1>3, <1>6, <1>10, <3>5, <4>1 DEF BeforeAnswer, At, InFlight, DepositPCs, Role
        <4>3. entry[r]["declaration"] # NoEntry
          BY <1>7, <3>5 DEF DepositInv, AnswersMatchStage
        <4> QED BY <3>2, <3>3, <4>2, <4>3 DEF DepositInv, AnswersMatchStage, Role
      <3> QED BY <1>0, <3>4, <3>5 DEF Role
    <2> QED BY <2>2, <2>3, <2>4, <2>5
  <1> QED BY <1>9, <1>10

LEMMA DepositStep == DepositInv /\ [Next]_vars => DepositInv'
  <1> SUFFICES ASSUME DepositInv, [Next]_vars PROVE DepositInv'
    OBVIOUS
  <1>0. TypeOK /\ TypeOK' /\ AnswersStand /\ DeclarationFirst /\ NamesItsPredecessor
        /\ AnswersMatchStage /\ StatementsAreFresh
    BY TypeStep DEF DepositInv
  <1>a. \A r \in Run : op[r].pc \in DepositPCs => BeforeAnswer(r, op[r].role)
    BY DEF BeforeAnswer, InFlight
  <1>b. ASSUME NEW r \in Run, NEW o \in Op, op' = [op EXCEPT ![r] = o], UNCHANGED <<chain, entry>>,
               o.pc # "recorded",
               \A role \in Role :
                 (o.pc \in DepositPCs /\ o.role = role)
                 \/ o.pc = (IF role = "declaration" THEN "start" ELSE "running")
                 => BeforeAnswer(r, role),
               StatementsAreFresh'
        PROVE  DepositInv'
    BY <1>0, <1>b, QuietKept, StageKept DEF DepositInv
  <1>1. ASSUME NEW r \in Run, NEW role \in Role, Begin(r, role) PROVE DepositInv'
    <2> DEFINE o == [op[r] EXCEPT !.pc = "head", !.role = role, !.tries = 0]
    <2>1. /\ o \in Op /\ op' = [op EXCEPT ![r] = o] /\ UNCHANGED <<chain, entry, file>>
          /\ o.pc = "head" /\ o.role = role
          /\ (op[r].pc = "start" /\ role = "declaration") \/ (op[r].pc = "running" /\ role = "stream")
      BY <1>0, <1>1, BeginForm, ZenonT(60)
    <2> HIDE DEF o
    <2>2. StatementsAreFresh'
      BY <1>0, <2>1, FreshKept
    <2>3. BeforeAnswer(r, role)
      BY <2>1 DEF BeforeAnswer, At
    <2> QED BY <1>b, <2>1, <2>2, <2>3
  <1>2. ASSUME NEW r \in Run, ReadHead(r) PROVE DepositInv'
    <2> DEFINE o == [op[r] EXCEPT !.pc = "open", !.head = chain]
    <2>1. /\ o \in Op /\ op' = [op EXCEPT ![r] = o] /\ UNCHANGED <<chain, entry, file>>
          /\ o.pc = "open" /\ o.role = op[r].role /\ op[r].pc = "head"
      BY <1>0, <1>2, ReadHeadForm
    <2> HIDE DEF o
    <2>2. StatementsAreFresh'
      BY <1>0, <2>1, FreshKept
    <2> QED BY <1>a, <1>b, <2>1, <2>2 DEF DepositPCs
  <1>3. ASSUME NEW r \in Run, OpenStatement(r) PROVE DepositInv'
    <2> DEFINE o == [op[r] EXCEPT !.pc = "write", !.linked = TRUE]
    <2>1. /\ o \in Op /\ op' = [op EXCEPT ![r] = o] /\ UNCHANGED <<chain, entry>>
          /\ file' \notin Statement
          /\ o.pc = "write" /\ o.role = op[r].role /\ op[r].pc = "open"
      BY <1>0, <1>3, OpenForm
    <2> HIDE DEF o
    <2>2. StatementsAreFresh'
      BY <1>0, <2>1, FreshKept
    <2> QED BY <1>a, <1>b, <2>1, <2>2 DEF DepositPCs
  <1>4. ASSUME NEW r \in Run, WriteStatement(r) PROVE DepositInv'
    <2> DEFINE o == [op[r] EXCEPT !.pc = "hash", !.linked = FALSE]
               mine == StatementOf(r, op[r].role, op[r].head)
    <2>1. /\ o \in Op /\ op' = [op EXCEPT ![r] = o] /\ UNCHANGED <<chain, entry>>
          /\ file' = mine \/ file' \notin Statement \/ file' = file
          /\ o.pc = "hash" /\ o.role = op[r].role /\ o.head = op[r].head /\ op[r].pc = "write"
      BY <1>0, <1>4, WriteForm
    <2>2. mine.run = r /\ mine.pred = Len(op[r].head)
      BY DEF StatementOf
    <2>3. ~Own(r, file)
      BY <1>0, <2>1 DEF StatementsAreFresh, At
    <2> HIDE DEF o, mine
    <2>4. StatementsAreFresh'
      BY <1>0, <2>1, <2>2, <2>3, FreshKept DEF Own
    <2> QED BY <1>a, <1>b, <2>1, <2>4 DEF DepositPCs
  <1>5. ASSUME NEW r \in Run, HashStatement(r) PROVE DepositInv'
    <2>1. CASE file = Absent
      <3>1. PICK pc \in Unanswered :
              /\ [op[r] EXCEPT !.pc = pc] \in Op
              /\ op' = [op EXCEPT ![r] = [op[r] EXCEPT !.pc = pc]]
              /\ UNCHANGED <<chain, entry, file>>
              /\ [op[r] EXCEPT !.pc = pc].pc = pc
        BY <1>0, <1>5, <2>1, HashFails
      <3> DEFINE o == [op[r] EXCEPT !.pc = pc]
      <3>2. /\ o \in Op /\ op' = [op EXCEPT ![r] = o] /\ o.pc \in Unanswered
            /\ UNCHANGED <<chain, entry, file>>
        BY <3>1
      <3> HIDE DEF o
      <3>3. StatementsAreFresh'
        BY <1>0, <3>2, FreshKept DEF Unanswered
      <3> QED BY <1>b, <3>2, <3>3 DEF DepositPCs, Unanswered
    <2>2. CASE file # Absent
      <3> DEFINE o == [op[r] EXCEPT !.pc = "rm", !.st = file]
      <3>1. /\ o \in Op /\ op' = [op EXCEPT ![r] = o] /\ UNCHANGED <<chain, entry, file>>
            /\ o.pc = "rm" /\ o.role = op[r].role /\ o.head = op[r].head /\ o.st = file
            /\ op[r].pc = "hash"
        BY <1>0, <1>5, <2>2, HashForm
      <3>2. Own(r, file) => file.pred = Len(op[r].head)
        BY <1>0, <3>1 DEF StatementsAreFresh, At
      <3> HIDE DEF o
      <3>3. StatementsAreFresh'
        BY <1>0, <3>1, <3>2, FreshKept DEF Own
      <3> QED BY <1>a, <1>b, <3>1, <3>3 DEF DepositPCs
    <2> QED BY <2>1, <2>2
  <1>6. ASSUME NEW r \in Run, RemoveStatement(r) PROVE DepositInv'
    <2>1. /\ UNCHANGED <<chain, entry>> /\ file' \notin Statement
          /\ op[r].pc = "rm" /\ op'[r].pc = "cas"
          /\ \A s \in Run : /\ op'[s].role = op[s].role /\ op'[s].head = op[s].head
                            /\ op'[s].st = op[s].st /\ (s # r => op'[s].pc = op[s].pc)
      BY <1>0, <1>6, RemoveForm
    <2>2. StatementsAreFresh'
      BY <1>0, <2>1 DEF StatementsAreFresh, At, Own
    <2>3. \A s \in Run, role \in Role : BeforeAnswer(s, role)' => BeforeAnswer(s, role)
      BY <2>1 DEF BeforeAnswer, InFlight, At, DepositPCs
    <2>4. \A s \in Run : At(s, "recorded")' => At(s, "recorded")
      BY <2>1 DEF At
    <2>5. AnswersMatchStage'
      BY <1>0, <2>1, <2>3, <2>4 DEF AnswersMatchStage, Role
    <2> QED BY <1>0, <2>1, <2>2, <2>5, QuietKept DEF DepositInv
  <1>7. ASSUME NEW r \in Run, Swap(r) PROVE DepositInv'
    <2> DEFINE pc == IF op[r].alive
                       THEN IF op[r].role = "declaration" THEN "running" ELSE "recorded"
                       ELSE "killed"
               o == [op[r] EXCEPT !.pc = pc]
    <2>1. o \in Op /\ op' = [op EXCEPT ![r] = o] /\ o.pc = pc /\ UNCHANGED file
      BY <1>0, <1>7, SwapForm
    <2>2. pc \notin DepositPCs
      BY DEF DepositPCs
    <2> HIDE DEF o, pc
    <2>3. StatementsAreFresh'
      BY <1>0, <2>1, <2>2, FreshKept DEF DepositPCs
    <2> QED BY <1>0, <1>7, <2>3, SwapAnswers DEF DepositInv
  <1>8. ASSUME NEW r \in Run, SwapLost(r) PROVE DepositInv'
    <2>1. PICK pc \in Unanswered \cup {"head"} :
            LET o == [op[r] EXCEPT !.pc = pc, !.tries = @ + 1]
            IN /\ o \in Op /\ o.pc = pc /\ o.role = op[r].role /\ op[r].pc = "cas"
               /\ op' = [op EXCEPT ![r] = o] /\ UNCHANGED <<chain, entry, file>>
      BY <1>0, <1>8, SwapLostForm
    <2> DEFINE o == [op[r] EXCEPT !.pc = pc, !.tries = @ + 1]
    <2>2. /\ o \in Op /\ op' = [op EXCEPT ![r] = o] /\ o.pc = pc /\ o.role = op[r].role
          /\ op[r].pc = "cas" /\ UNCHANGED <<chain, entry, file>>
      BY <2>1
    <2> HIDE DEF o
    <2>3. StatementsAreFresh'
      BY <1>0, <2>2, FreshKept DEF Unanswered
    <2> QED BY <1>a, <1>b, <2>2, <2>3 DEF DepositPCs, Unanswered
  <1>9. ASSUME NEW r \in Run, Kill(r) PROVE DepositInv'
    <2>1. PICK pc \in {"killed"} \cup (IF r \in InFlight THEN {op[r].pc} ELSE {}) :
            LET o == [op[r] EXCEPT !.pc = pc, !.alive = FALSE]
            IN /\ o \in Op /\ o.pc = pc /\ o.st = op[r].st /\ op' = [op EXCEPT ![r] = o]
               /\ o.role = op[r].role /\ o.head = op[r].head
               /\ UNCHANGED <<chain, entry, file>>
      BY <1>0, <1>9, KillForm
    <2> DEFINE o == [op[r] EXCEPT !.pc = pc, !.alive = FALSE]
    <2>2. /\ o \in Op /\ op' = [op EXCEPT ![r] = o] /\ UNCHANGED <<chain, entry, file>>
          /\ o.st = op[r].st /\ o.role = op[r].role /\ o.head = op[r].head
          /\ o.pc = "killed" \/ (o.pc = op[r].pc /\ op[r].pc \in DepositPCs)
      BY <2>1 DEF InFlight
    <2> HIDE DEF o
    <2>3. StatementsAreFresh'
      BY <1>0, <2>2, FreshKept DEF StatementsAreFresh, At, Own
    <2> QED BY <1>a, <1>b, <2>2, <2>3 DEF DepositPCs
  <1>10. CASE UNCHANGED vars
    BY <1>0, <1>10, QuietKept
    DEF DepositInv, vars, AnswersMatchStage, StatementsAreFresh, BeforeAnswer, InFlight, At, Own
  <1> QED
    BY <1>1, <1>2, <1>3, <1>4, <1>5, <1>6, <1>7, <1>8, <1>9, <1>10 DEF Next, Depositing

\* The invariant of the deposits holds in every regime.
THEOREM DepositInvariant == Spec => []DepositInv
  BY DepositInit, DepositStep, PTL DEF Spec

\* With any races, retries and deaths, an entry that was answered stays in the
\* ledger and is answered to one deposit only.
THEOREM AnsweredEntriesStand == Spec => []AnswersStand
  <1>1. DepositInv => AnswersStand
    BY DEF DepositInv
  <1> QED BY <1>1, DepositInvariant, PTL

\* In every regime a run's stream follows its own declaration in the chain.
THEOREM DeclarationAlwaysFirst == Spec => []DeclarationFirst
  <1>1. DepositInv => DeclarationFirst
    BY DEF DepositInv
  <1> QED BY <1>1, DepositInvariant, PTL

\* In every regime an entry with its depositor's own statement names the entry
\* it was attached to.
THEOREM EntriesNamePredecessors == Spec => []NamesItsPredecessor
  <1>1. DepositInv => NamesItsPredecessor
    BY DEF DepositInv
  <1> QED BY <1>1, DepositInvariant, PTL

-----------------------------------------------------------------------------
(* Deposits one at a time.                                                 *)
LEMMA ExclusiveInit == Init => ExclusiveInv
  <1> SUFFICES ASSUME Init PROVE ExclusiveInv
    OBVIOUS
  <1>1. InFlight = {} /\ chain = <<>> /\ \A r \in Run : op[r].pc = "start"
    BY DEF Init, LedgerInit, InFlight, DepositPCs
  <1> QED BY <1>1 DEF ExclusiveInv, ExclusiveProgress, ChainIsClean, AnchorsOwnDigest, NeverRefused

\* A step of the one depositor that appends nothing.
LEMMA ExclusiveKept ==
  ASSUME TypeOK, Exclusive, ExclusiveInv, NEW r \in Run, NEW o \in Op, op' = [op EXCEPT ![r] = o],
         UNCHANGED <<chain, entry>>,
         InFlight \subseteq {r} \/ (o.pc \notin DepositPCs /\ r \notin InFlight /\ file' = file),
         \A role \in Role :
           (o.pc \in DepositPCs /\ o.role = role)
           \/ o.pc = (IF role = "declaration" THEN "start" ELSE "running")
           => BeforeAnswer(r, role),
         o.pc \in DepositPCs => /\ o.pc # "head" => o.head = chain
                                /\ o.pc = "write" => o.linked /\ file' = Garbled
                                /\ o.pc = "hash" => file' = StatementOf(r, o.role, chain)
                                /\ o.pc \in {"rm", "cas"} => o.st = StatementOf(r, o.role, chain),
         o.pc \notin {"refused", "unrecorded"}
  PROVE  ExclusiveInv'
  <1>1. op' \in [Run -> Op] /\ op'[r] = o /\ \A s \in Run : s # r => op'[s] = op[s]
    BY OneMoves
  <1>2. ExclusiveProgress /\ ChainIsClean /\ AnchorsOwnDigest /\ NeverRefused
    BY DEF ExclusiveInv
  <1>3. ExclusiveProgress'
    <2>1. CASE InFlight \subseteq {r}
      <3>1. InFlight' \subseteq {r}
        BY <1>1, <2>1 DEF InFlight
      <3>2. \A s \in InFlight' : s = r /\ o.pc \in DepositPCs /\ InFlight' = {r}
        BY <1>1, <3>1 DEF InFlight
      <3>3. StatementOf(r, o.role, chain)' = StatementOf(r, o.role, chain)
        BY DEF StatementOf
      <3>4. ASSUME NEW s \in InFlight'
            PROVE  /\ InFlight' = {s}
                   /\ op'[s].pc # "head" => op'[s].head = chain'
                   /\ At(s, "write")' => op'[s].linked /\ file' = Garbled
                   /\ At(s, "hash")' => file' = StatementOf(s, op'[s].role, chain')
                   /\ op'[s].pc \in {"rm", "cas"} => op'[s].st = StatementOf(s, op'[s].role, chain')
        <4>1. s = r /\ o.pc \in DepositPCs /\ InFlight' = {r} /\ op'[s] = o /\ chain' = chain
          BY <1>1, <3>2, <3>4
        <4>2. At(s, "write")' => op'[s].linked /\ file' = Garbled
          BY <4>1, Zenon DEF At
        <4>3. /\ op'[s].pc # "head" => op'[s].head = chain'
              /\ At(s, "hash")' => file' = StatementOf(s, op'[s].role, chain')
              /\ op'[s].pc \in {"rm", "cas"} => op'[s].st = StatementOf(s, op'[s].role, chain')
          BY <4>1 DEF At
        <4> QED BY <4>1, <4>2, <4>3
      <3> QED BY <3>4 DEF ExclusiveProgress
    <2>2. CASE o.pc \notin DepositPCs /\ r \notin InFlight /\ file' = file
      <3>1. InFlight' = InFlight
        BY <1>1, <2>2 DEF InFlight
      <3>2. \A s \in InFlight : s \in Run /\ s # r
        BY <2>2 DEF InFlight
      <3> QED BY <1>1, <1>2, <2>2, <3>1, <3>2 DEF ExclusiveProgress, At, StatementOf
    <2> QED BY <2>1, <2>2
  <1>4. \A s \in Run, role \in Role : BeforeAnswer(s, role)' => BeforeAnswer(s, role)
    BY <1>1 DEF BeforeAnswer, InFlight, At
  <1>5. ChainIsClean'
    BY <1>2, <1>4 DEF ChainIsClean, Statement, Role
  <1>6. AnchorsOwnDigest'
    BY <1>2 DEF AnchorsOwnDigest
  <1>7. NeverRefused'
    BY <1>1, <1>2 DEF NeverRefused
  <1> QED BY <1>3, <1>5, <1>6, <1>7 DEF ExclusiveInv

\* The same for a step inside a deposit, to the next of its program points.
LEMMA ExclusiveMoved ==
  ASSUME TypeOK, Exclusive, ExclusiveInv, NEW r \in Run, NEW o \in Op, op' = [op EXCEPT ![r] = o],
         UNCHANGED <<chain, entry>>,
         op[r].pc \in DepositPCs, o.pc \in DepositPCs, o.role = op[r].role,
         o.pc # "head" => o.head = chain,
         o.pc = "write" => o.linked = TRUE /\ file' = Garbled,
         o.pc = "hash" => file' = StatementOf(r, o.role, chain),
         o.pc \in {"rm", "cas"} => o.st = StatementOf(r, o.role, chain)
  PROVE  ExclusiveInv'
  <1>1. r \in InFlight
    BY DEF InFlight
  <1>2. InFlight \subseteq {r}
    BY <1>1 DEF ExclusiveInv, ExclusiveProgress
  <1>3. \A role \in Role :
          (o.pc \in DepositPCs /\ o.role = role)
          \/ o.pc = (IF role = "declaration" THEN "start" ELSE "running")
          => BeforeAnswer(r, role)
    BY <1>1 DEF BeforeAnswer, DepositPCs
  <1>4. o.pc \in DepositPCs => /\ o.pc # "head" => o.head = chain
                               /\ o.pc = "write" => o.linked /\ file' = Garbled
                               /\ o.pc = "hash" => file' = StatementOf(r, o.role, chain)
                               /\ o.pc \in {"rm", "cas"} => o.st = StatementOf(r, o.role, chain)
    BY Zenon
  <1>5. o.pc \notin {"refused", "unrecorded"}
    BY DEF DepositPCs
  <1> QED BY <1>2, <1>3, <1>4, <1>5, ExclusiveKept

\* What the one depositor is about to append is its own statement for the
\* head of the chain, and the ledger has none for its run and role.
LEMMA ExclusiveSwap ==
  ASSUME DepositInv, Exclusive, ExclusiveInv, NEW r \in Run, Swap(r)
  PROVE  /\ InFlight = {r} /\ op[r].role \in Role /\ BeforeAnswer(r, op[r].role)
         /\ op[r].st = StatementOf(r, op[r].role, chain) /\ op[r].st \in Statement
         /\ MayDeposit(r, op[r].role)
         /\ op[r].role = "declaration" => \A i \in DOMAIN chain : chain[i].run # r
  <1>1. TypeOK /\ op[r].pc = "cas" /\ op[r].role \in Role /\ chain = op[r].head
    BY Lookup, SwapForm DEF DepositInv
  <1>2. r \in InFlight /\ BeforeAnswer(r, op[r].role)
    BY <1>1 DEF InFlight, DepositPCs, BeforeAnswer
  <1>3. InFlight = {r} /\ op[r].st = StatementOf(r, op[r].role, chain)
    BY <1>1, <1>2 DEF ExclusiveInv, ExclusiveProgress
  <1>4. op[r].st \in Statement
    BY <1>1, <1>3, MineTyped
  <1>5. ChainIsClean /\ AnswersMatchStage
    BY DEF ExclusiveInv, DepositInv
  <1>6. \A i \in DOMAIN chain : ~(chain[i].run = r /\ chain[i].role = op[r].role)
    BY <1>1, <1>2, <1>5 DEF ChainIsClean, Role
  <1>7. op[r].role = "declaration" => \A i \in DOMAIN chain : chain[i].run # r
    BY <1>2, <1>5 DEF ChainIsClean
  <1>8. entry[r][op[r].role] = NoEntry /\ (op[r].role = "stream" => entry[r]["declaration"] # NoEntry)
    BY <1>1, <1>2, <1>5 DEF AnswersMatchStage, Role
  <1> QED BY <1>1, <1>2, <1>3, <1>4, <1>6, <1>7, <1>8 DEF MayDeposit

LEMMA ExclusiveSwapKept ==
  ASSUME DepositInv, Exclusive, ExclusiveInv, NEW r \in Run, Swap(r)
  PROVE  ExclusiveInv'
  <1> DEFINE role == op[r].role
             n == Len(chain) + 1
             pc == IF op[r].alive
                     THEN IF op[r].role = "declaration" THEN "running" ELSE "recorded"
                     ELSE "killed"
             o == [op[r] EXCEPT !.pc = pc]
  <1>0. TypeOK /\ chain \in Seq(Content)
    BY DEF DepositInv, TypeOK
  <1>1. /\ chain' = Append(chain, op[r].st) /\ op[r].pc = "cas"
        /\ o \in Op /\ op' = [op EXCEPT ![r] = o] /\ o.pc = pc
    BY <1>0, SwapForm
  <1>2. /\ InFlight = {r} /\ role \in Role /\ BeforeAnswer(r, role)
        /\ op[r].st = StatementOf(r, role, chain) /\ op[r].st \in Statement
        /\ \A i \in DOMAIN chain : ~(chain[i].run = r /\ chain[i].role = role)
        /\ role = "declaration" => \A i \in DOMAIN chain : chain[i].run # r
    BY ExclusiveSwap DEF MayDeposit
  <1>3. /\ DOMAIN chain' = DOMAIN chain \cup {n} /\ chain'[n] = op[r].st /\ n \notin DOMAIN chain
        /\ \A i \in DOMAIN chain : chain'[i] = chain[i]
    BY <1>0, <1>1, <1>2 DEF Content
  <1>4. op[r].st.run = r /\ op[r].st.role = role
    BY <1>2 DEF StatementOf
  <1>5. op' \in [Run -> Op] /\ op'[r] = o /\ \A s \in Run : s # r => op'[s] = op[s]
    BY <1>0, <1>1, OneMoves
  <1>6. /\ op[r].alive => entry' = [entry EXCEPT ![r][role] = n]
        /\ ~op[r].alive => entry' = entry
    BY <1>0, SwapForm
  <1>7. pc \in {"running", "recorded", "killed"} /\ (role = "stream" => pc # "running")
    BY <1>0, Lookup DEF Op
  <1> HIDE DEF o, pc, n, role
  <1>8. ExclusiveProgress'
    <2>1. InFlight' = {}
      BY <1>1, <1>2, <1>5, <1>7 DEF InFlight, DepositPCs
    <2> QED BY <2>1 DEF ExclusiveProgress
  <1>9. NeverRefused'
    BY <1>1, <1>5, <1>7 DEF ExclusiveInv, NeverRefused
  <1>10. ChainIsClean'
    <2>0. ChainIsClean
      BY DEF ExclusiveInv
    <2>1. \A i \in DOMAIN chain' : chain'[i] \in Statement
      BY <1>2, <1>3, <2>0 DEF ChainIsClean
    <2>2. \A i, j \in DOMAIN chain' :
            chain'[i].run = chain'[j].run /\ chain'[i].role = chain'[j].role => i = j
      BY <1>2, <1>3, <1>4, <2>0 DEF ChainIsClean
    <2>3. /\ \A s \in Run, x \in Role : s # r /\ BeforeAnswer(s, x)' => BeforeAnswer(s, x)
          /\ ~BeforeAnswer(r, "declaration")'
          /\ role = "stream" => ~BeforeAnswer(r, "stream")'
      BY <1>1, <1>5, <1>7 DEF BeforeAnswer, InFlight, At, DepositPCs
    <2>4. ASSUME NEW i \in DOMAIN chain', NEW s \in Run, s = chain'[i].run
          PROVE  /\ ~BeforeAnswer(s, "declaration")'
                 /\ chain'[i].role = "stream" => ~BeforeAnswer(s, "stream")'
      <3>2. CASE i = n
        BY <1>3, <1>4, <2>3, <2>4, <3>2
      <3>3. CASE i \in DOMAIN chain /\ chain[i].run # r
        BY <1>3, <2>0, <2>3, <2>4, <3>3 DEF ChainIsClean, Role
      <3>4. CASE i \in DOMAIN chain /\ chain[i].run = r
        <4>1. role = "stream"
          BY <1>2, <3>4 DEF Role
        <4> QED BY <1>3, <2>3, <2>4, <3>4, <4>1
      <3> QED BY <1>3, <2>4, <3>2, <3>3, <3>4
    <2>5. \A i \in DOMAIN chain' : chain'[i].run \in Run
      BY <2>1 DEF Statement
    <2> QED BY <2>1, <2>2, <2>4, <2>5 DEF ChainIsClean, BeforeAnswer, At, InFlight
  <1>11. AnchorsOwnDigest'
    <2>1. entry \in [Run -> [Role -> Nat \cup {NoEntry}]]
      BY <1>0 DEF TypeOK
    <2>2. \A s \in Run, x \in Role :
            \/ entry'[s][x] = entry[s][x]
            \/ s = r /\ x = role /\ entry'[s][x] = n
      BY <1>2, <1>6, <2>1
    <2>3. \A s \in Run, x \in Role : entry[s][x] \in DOMAIN chain' => entry[s][x] \in DOMAIN chain
      <3>1. \A s \in Run, x \in Role : entry[s][x] # NoEntry => entry[s][x] \in DOMAIN chain
        BY DEF DepositInv, AnswersStand
      <3>2. NoEntry \notin DOMAIN chain'
        BY <1>0, <1>3 DEF n
      <3> QED BY <3>1, <3>2
    <2> QED BY <1>2, <1>3, <1>4, <2>2, <2>3 DEF ExclusiveInv, AnchorsOwnDigest
  <1> QED BY <1>8, <1>9, <1>10, <1>11 DEF ExclusiveInv

LEMMA ExclusiveStep ==
  ASSUME Exclusive
  PROVE  DepositInv /\ ExclusiveInv /\ [Next]_vars => ExclusiveInv'
  <1> SUFFICES ASSUME DepositInv, ExclusiveInv, [Next]_vars PROVE ExclusiveInv'
    OBVIOUS
  <1>0. TypeOK /\ ExclusiveProgress /\ \A r \in Run : op[r] \in Op
    BY DEF DepositInv, ExclusiveInv, TypeOK
  <1>a. \A r \in Run : op[r].pc \in DepositPCs =>
          /\ r \in InFlight /\ InFlight = {r} /\ BeforeAnswer(r, op[r].role)
          /\ op[r].pc # "head" => op[r].head = chain
    BY <1>0 DEF BeforeAnswer, InFlight, ExclusiveProgress
  <1>1. ASSUME NEW r \in Run, NEW role \in Role, Begin(r, role) PROVE ExclusiveInv'
    <2> DEFINE o == [op[r] EXCEPT !.pc = "head", !.role = role, !.tries = 0]
    <2>1. /\ o \in Op /\ op' = [op EXCEPT ![r] = o] /\ UNCHANGED <<chain, entry, file>>
          /\ o.pc = "head" /\ o.role = role /\ (Exclusive => InFlight = {})
          /\ (op[r].pc = "start" /\ role = "declaration") \/ (op[r].pc = "running" /\ role = "stream")
      BY <1>0, <1>1, BeginForm, ZenonT(60)
    <2> HIDE DEF o
    <2>2. BeforeAnswer(r, role)
      BY <2>1 DEF BeforeAnswer, At
    <2> QED BY <1>0, <2>1, <2>2, ExclusiveKept
  <1>2. ASSUME NEW r \in Run, ReadHead(r) PROVE ExclusiveInv'
    <2> DEFINE o == [op[r] EXCEPT !.pc = "open", !.head = chain]
    <2>1. /\ o \in Op /\ op' = [op EXCEPT ![r] = o] /\ UNCHANGED <<chain, entry, file>>
          /\ o.pc = "open" /\ o.role = op[r].role /\ op[r].pc = "head" /\ o.head = chain
      BY <1>0, <1>2, ReadHeadForm
    <2> HIDE DEF o
    <2> QED BY <1>0, <2>1, ExclusiveMoved DEF DepositPCs
  <1>3. ASSUME NEW r \in Run, OpenStatement(r) PROVE ExclusiveInv'
    <2> DEFINE o == [op[r] EXCEPT !.pc = "write", !.linked = TRUE]
    <2>1. /\ o \in Op /\ op' = [op EXCEPT ![r] = o] /\ UNCHANGED <<chain, entry>>
          /\ file' = Garbled /\ o.linked = TRUE /\ o.head = op[r].head
          /\ o.pc = "write" /\ o.role = op[r].role /\ op[r].pc = "open"
      BY <1>0, <1>3, OpenForm
    <2> HIDE DEF o
    <2>2. op[r].head = chain
      BY <1>a, <2>1 DEF DepositPCs
    <2> QED BY <1>0, <2>1, <2>2, ExclusiveMoved DEF DepositPCs
  <1>4. ASSUME NEW r \in Run, WriteStatement(r) PROVE ExclusiveInv'
    <2> DEFINE o == [op[r] EXCEPT !.pc = "hash", !.linked = FALSE]
               mine == StatementOf(r, op[r].role, op[r].head)
    <2>1. /\ o \in Op /\ op' = [op EXCEPT ![r] = o] /\ UNCHANGED <<chain, entry>>
          /\ (file' = mine \/ (file' = Garbled /\ file \in Statement) \/ (file' = file /\ ~op[r].linked))
          /\ o.pc = "hash" /\ o.role = op[r].role /\ o.head = op[r].head /\ op[r].pc = "write"
      BY <1>0, <1>4, WriteForm
    <2>2. r \in InFlight /\ op[r].head = chain
      BY <1>a, <2>1 DEF DepositPCs
    <2>3. op[r].linked /\ file = Garbled
      BY <1>0, <2>1, <2>2 DEF ExclusiveProgress, At
    <2>4. mine = StatementOf(r, o.role, chain)
      BY <2>1, <2>2
    <2> HIDE DEF o, mine
    <2>5. file' = StatementOf(r, o.role, chain)
      BY <2>1, <2>3, <2>4
    <2> QED BY <1>0, <2>1, <2>2, <2>5, ExclusiveMoved DEF DepositPCs
  <1>5. ASSUME NEW r \in Run, HashStatement(r) PROVE ExclusiveInv'
    <2>1. op[r].pc = "hash" /\ r \in InFlight
      BY <1>5 DEF HashStatement, At, InFlight, DepositPCs
    <2>2. file = StatementOf(r, op[r].role, chain) /\ op[r].head = chain
      BY <1>0, <1>a, <2>1 DEF ExclusiveProgress, At, DepositPCs
    <2>3. file # Absent
      BY <1>0, <2>2, MineTyped
    <2> DEFINE o == [op[r] EXCEPT !.pc = "rm", !.st = file]
    <2>4. /\ o \in Op /\ op' = [op EXCEPT ![r] = o] /\ UNCHANGED <<chain, entry, file>>
          /\ o.pc = "rm" /\ o.role = op[r].role /\ o.head = op[r].head /\ o.st = file
      BY <1>0, <1>5, <2>3, HashForm
    <2> HIDE DEF o
    <2>5. o.head = chain /\ o.st = StatementOf(r, o.role, chain)
      BY <2>2, <2>4
    <2> QED BY <1>0, <2>1, <2>4, <2>5, ExclusiveMoved DEF DepositPCs
  <1>6. ASSUME NEW r \in Run, RemoveStatement(r) PROVE ExclusiveInv'
    <2>1. /\ UNCHANGED <<chain, entry>> /\ op[r].pc = "rm" /\ op'[r].pc = "cas"
          /\ \A s \in Run : /\ op'[s].role = op[s].role /\ op'[s].head = op[s].head
                            /\ op'[s].st = op[s].st /\ (s # r => op'[s].pc = op[s].pc)
      BY <1>0, <1>6, RemoveForm
    <2>2. InFlight = {r} /\ op[r].head = chain /\ op[r].st = StatementOf(r, op[r].role, chain)
      BY <1>0, <1>a, <2>1 DEF ExclusiveProgress, DepositPCs
    <2>3. InFlight' = InFlight
      BY <2>1 DEF InFlight, DepositPCs
    <2>4. \A s \in Run, role \in Role : BeforeAnswer(s, role)' => BeforeAnswer(s, role)
      BY <2>1 DEF BeforeAnswer, InFlight, At, DepositPCs
    <2>5. ExclusiveProgress'
      BY <2>1, <2>2, <2>3 DEF ExclusiveProgress, At, StatementOf
    <2>6. ChainIsClean'
      BY <2>1, <2>4 DEF ExclusiveInv, ChainIsClean, Statement, Role
    <2>7. AnchorsOwnDigest' /\ NeverRefused'
      BY <2>1 DEF ExclusiveInv, AnchorsOwnDigest, NeverRefused
    <2> QED BY <2>5, <2>6, <2>7 DEF ExclusiveInv
  <1>7. ASSUME NEW r \in Run, Swap(r) PROVE ExclusiveInv'
    BY <1>7, ExclusiveSwapKept
  <1>8. ASSUME NEW r \in Run, SwapLost(r) PROVE FALSE
    <2>1. op[r].pc = "cas" /\ (chain # op[r].head \/ \E s \in Run \ {r} : op[s].pc = "cas")
      BY <1>8 DEF SwapLost, At
    <2>2. InFlight = {r} /\ op[r].head = chain
      BY <1>a, <2>1 DEF DepositPCs
    <2>3. PICK s \in Run \ {r} : op[s].pc = "cas"
      BY <2>1, <2>2
    <2>4. s \in InFlight
      BY <2>3 DEF InFlight, DepositPCs
    <2> QED BY <2>2, <2>3, <2>4
  <1>9. ASSUME NEW r \in Run, Kill(r) PROVE ExclusiveInv'
    <2>1. PICK pc \in {"killed"} \cup (IF r \in InFlight THEN {op[r].pc} ELSE {}) :
            LET o == [op[r] EXCEPT !.pc = pc, !.alive = FALSE]
            IN /\ o \in Op /\ o.pc = pc /\ o.st = op[r].st /\ op' = [op EXCEPT ![r] = o]
               /\ o.role = op[r].role /\ o.head = op[r].head /\ o.linked = op[r].linked
               /\ UNCHANGED <<chain, entry, file>>
      BY <1>0, <1>9, KillForm
    <2> DEFINE o == [op[r] EXCEPT !.pc = pc, !.alive = FALSE]
    <2>2. /\ o \in Op /\ op' = [op EXCEPT ![r] = o] /\ UNCHANGED <<chain, entry, file>>
          /\ o.st = op[r].st /\ o.role = op[r].role /\ o.head = op[r].head /\ o.linked = op[r].linked
          /\ o.pc = "killed" \/ (o.pc = op[r].pc /\ op[r].pc \in DepositPCs)
      BY <2>1 DEF InFlight
    <2> HIDE DEF o
    <2>3. CASE r \in InFlight
      <3>1. op[r].pc \in DepositPCs /\ InFlight = {r}
        BY <1>a, <2>3 DEF InFlight
      <3>2. CASE o.pc = "killed"
        <4>1. InFlight \subseteq {r} /\ o.pc \notin DepositPCs /\ o.pc \notin {"start", "running", "refused", "unrecorded"}
          BY <3>1, <3>2 DEF DepositPCs
        <4> QED BY <1>0, <2>2, <4>1, ExclusiveKept
      <3>3. CASE o.pc = op[r].pc
        <4>1. o.pc # "head" => o.head = chain
          BY <1>a, <2>2, <3>1, <3>3
        <4>2. At(r, "write") => op[r].linked = TRUE /\ file = Garbled
          <5>1. op[r].linked \in BOOLEAN
            BY <1>0, Lookup
          <5>2. At(r, "write") => op[r].linked /\ file = Garbled
            BY <1>0, <2>3 DEF ExclusiveProgress
          <5> QED BY <5>1, <5>2
        <4>3. o.pc = "write" => o.linked = TRUE /\ file' = Garbled
          BY <2>2, <3>3, <4>2 DEF At
        <4>4. o.pc = "hash" => file' = StatementOf(r, o.role, chain)
          BY <1>0, <2>2, <2>3, <3>3 DEF ExclusiveProgress, At
        <4>5. o.pc \in {"rm", "cas"} => o.st = StatementOf(r, o.role, chain)
          BY <1>0, <2>2, <2>3, <3>3 DEF ExclusiveProgress
        <4> QED BY <1>0, <2>2, <3>1, <3>3, <4>1, <4>3, <4>4, <4>5, ExclusiveMoved
      <3> QED BY <2>2, <3>2, <3>3
    <2>4. CASE r \notin InFlight
      <3>1. o.pc = "killed"
        BY <2>2, <2>4 DEF InFlight
      <3> QED BY <1>0, <2>2, <2>4, <3>1, ExclusiveKept DEF DepositPCs
    <2> QED BY <2>3, <2>4
  <1>10. CASE UNCHANGED vars
    BY <1>10
    DEF vars, ExclusiveInv, ExclusiveProgress, ChainIsClean, AnchorsOwnDigest, NeverRefused,
        BeforeAnswer, InFlight, At
  <1> QED
    BY <1>1, <1>2, <1>3, <1>4, <1>5, <1>6, <1>7, <1>8, <1>9, <1>10 DEF Next, Depositing

LEMMA ExclusiveInvariant ==
  ASSUME Exclusive
  PROVE  Spec => [](DepositInv /\ ExclusiveInv)
  BY DepositInit, DepositStep, ExclusiveInit, ExclusiveStep, PTL DEF Spec

\* With deposits one at a time, and any of their launchers killed on the way,
\* every run that got its two entries has a record its verifier accepts, and no
\* deposit is refused.
THEOREM ExclusiveRecordsVerify ==
  ASSUME Exclusive
  PROVE  Spec => [](RecordsVerify /\ NeverRefused)
  <1>1. DepositInv /\ ExclusiveInv => RecordsVerify /\ NeverRefused
    <2> SUFFICES ASSUME DepositInv, ExclusiveInv PROVE RecordsVerify /\ NeverRefused
      OBVIOUS
    <2>0. /\ NeverRefused /\ ChainIsClean /\ AnchorsOwnDigest /\ chain \in Seq(Content)
          /\ AnswersStand /\ AnswersMatchStage /\ DeclarationFirst
      BY DEF ExclusiveInv, DepositInv, TypeOK
    <2>1. ASSUME NEW r \in Run, At(r, "recorded") PROVE Verifies(r)
      <3> DEFINE d == entry[r]["declaration"]
                 s == entry[r]["stream"]
      <3>1. d # NoEntry /\ s # NoEntry
        BY <2>0, <2>1 DEF AnswersMatchStage
      <3>2. d \in DOMAIN chain /\ s \in DOMAIN chain
        BY <2>0, <3>1 DEF AnswersStand, Role
      <3>3. /\ chain[d] \in Statement /\ chain[d].run = r /\ chain[d].role = "declaration"
            /\ chain[s] \in Statement /\ chain[s].run = r /\ chain[s].role = "stream"
        BY <2>0, <3>2 DEF AnchorsOwnDigest, Role
      <3>4. d < s /\ d \in Nat /\ s \in Nat
        BY <2>0, <3>1, <3>2 DEF DeclarationFirst
      <3>5. \A i \in DOMAIN chain : chain[i].run = r => i \in {d, s}
        <4>1. \A i \in DOMAIN chain : chain[i].role \in {"declaration", "stream"}
          BY <2>0 DEF ChainIsClean, Statement, Role
        <4> QED BY <2>0, <3>2, <3>3, <4>1 DEF ChainIsClean
      <3>6. d <= s
        BY <3>4
      <3> HIDE DEF d, s
      <3> QED BY <3>2, <3>3, <3>5, <3>6 DEF Verifies, d, s
    <2> QED BY <2>0, <2>1 DEF RecordsVerify
  <1> QED BY <1>1, ExclusiveInvariant, PTL

\* With deposits one at a time, conformance_anchor.sh implements the atomic
\* ledger: each of its steps is a deposit, heard or unheard, or changes nothing
\* the ledger's readers see.
THEOREM ExclusiveLedger ==
  ASSUME Exclusive
  PROVE  Spec => LedgerSpec
  <1>1. DepositInv /\ ExclusiveInv /\ [Next]_vars => [LedgerNext]_ledgerVars
    <2> SUFFICES ASSUME DepositInv, ExclusiveInv, [Next]_vars
                 PROVE  LedgerNext \/ UNCHANGED ledgerVars
      OBVIOUS
    <2>1. ASSUME NEW r \in Run, Swap(r) PROVE LedgerNext
      <3>1. /\ op[r].role \in Role /\ MayDeposit(r, op[r].role)
            /\ op[r].st = StatementOf(r, op[r].role, chain)
        BY <2>1, ExclusiveSwap
      <3>2. /\ chain' = Append(chain, op[r].st)
            /\ (op[r].alive => entry' = [entry EXCEPT ![r][op[r].role] = Len(chain) + 1])
            /\ (~op[r].alive => entry' = entry)
        BY <2>1, SwapForm DEF DepositInv
      <3>3. Deposit(r, op[r].role) \/ DepositUnheard(r, op[r].role)
        BY <3>1, <3>2 DEF Deposit, DepositUnheard
      <3> QED BY <3>1, <3>3 DEF LedgerNext
    <2>2. ASSUME NEW r \in Run, ~Swap(r), Depositing(r) \/ Kill(r) \/ \E role \in Role : Begin(r, role)
          PROVE  UNCHANGED ledgerVars
      BY <2>2 DEF Depositing, Begin, ReadHead, OpenStatement, WriteStatement, HashStatement,
                  RemoveStatement, SwapLost, Kill, ledgerVars
    <2>3. CASE UNCHANGED vars
      BY <2>3 DEF vars, ledgerVars
    <2> QED BY <2>1, <2>2, <2>3 DEF Next
  <1>2. Init => LedgerInit
    BY DEF Init
  <1> QED BY <1>1, <1>2, ExclusiveInvariant, PTL DEF Spec, LedgerSpec
=============================================================================
