---------------------------- MODULE RollupProofs ----------------------------
(***************************************************************************)
(* The committed chain, the archive beside it and the report on them, for  *)
(* any number of receipts, rollups, kills and cuts.  An append never looks *)
(* at what it appends to, so what is proved of a file is what holds if its *)
(* lines parse: a line that was cut stays, and keeps the file from parsing *)
(* for good.                                                               *)
(***************************************************************************)
EXTENDS Dashboard, DataInduction

\* A file whose texts are all in S.
FileOver(S) == [there : BOOLEAN, lines : Seq(Seq(S)), tail : Seq(S)]
IsFile(file) == \E S : file \in FileOver(S)

AllParse(line) == \A i \in DOMAIN line : Parses(line[i])
Linked(line) ==
  \A i \in DOMAIN line :
    /\ line[i][1].seq = i
    /\ line[i][1].prev = IF i = 1 THEN Genesis ELSE line[i - 1]
LinksIfParses(file) == AllParse(Lines(file)) => Linked(Lines(file))

Within(short, long) ==
  Len(short) <= Len(long) /\ \A i \in 1 .. Len(short) : long[i] = short[i]

HasText(file, t) ==
  \E i \in DOMAIN Lines(file) : \E j \in DOMAIN Lines(file)[i] : Lines(file)[i][j] = t

\* What an append leaves of a file, whether it was cut short or not.
Grown(new, old) ==
  /\ AllParse(Lines(new)) => AllParse(Lines(old)) /\ Within(Lines(old), Lines(new))
  /\ \A t : HasText(old, t) => HasText(new, t)

\* The texts are what an append to the file writes.
Fits(file, texts) ==
  \A i \in DOMAIN texts :
    /\ texts[i].seq = Len(Lines(file)) + i
    /\ texts[i].prev = IF i > 1 THEN <<texts[i - 1]>>
                       ELSE IF Lines(file) = <<>> THEN Genesis
                       ELSE Lines(file)[Len(Lines(file))]

\* The line that the k-th of the texts becomes.
Nth(file, texts, k) == (IF k = 1 THEN file.tail ELSE <<>>) \o <<texts[k]>>

\* A file with one more text at its end, without a newline.
Torn(file, t) == [file EXCEPT !.tail = @ \o <<t>>]

-----------------------------------------------------------------------------
\* What Lines makes of a file, and of one that was written to.
LEMMA LinesOfFile ==
  ASSUME NEW S, NEW file \in FileOver(S)
  PROVE  /\ Lines(file) \in Seq(Seq(S))
         /\ file.tail = <<>> => Lines(file) = file.lines
         /\ file.tail # <<>> => /\ Len(Lines(file)) = Len(file.lines) + 1
                                /\ \A i \in 1 .. Len(file.lines) : Lines(file)[i] = file.lines[i]
                                /\ Lines(file)[Len(file.lines) + 1] = file.tail
  <1>1. file.lines \in Seq(Seq(S)) /\ file.tail \in Seq(S)
    BY DEF FileOver
  <1> QED BY <1>1 DEF Lines

LEMMA LinesOfWrite ==
  ASSUME NEW S, NEW file \in FileOver(S), NEW texts \in Seq(S)
  PROVE  /\ Write(file, texts) \in FileOver(S)
         /\ texts = <<>> => /\ Lines(Write(file, texts)) = Lines(file)
                            /\ Write(file, texts).lines = file.lines
                            /\ Write(file, texts).tail = file.tail
         /\ texts # <<>> =>
              /\ Write(file, texts).tail = <<>>
              /\ Len(Lines(Write(file, texts))) = Len(file.lines) + Len(texts)
              /\ \A i \in 1 .. Len(file.lines) : Lines(Write(file, texts))[i] = file.lines[i]
              /\ \A k \in 1 .. Len(texts) :
                   Lines(Write(file, texts))[Len(file.lines) + k] = Nth(file, texts, k)
  <1>1. file.lines \in Seq(Seq(S)) /\ file.tail \in Seq(S)
    BY DEF FileOver
  <1>2. PICK added :
          added = [i \in DOMAIN texts |-> Nth(file, texts, i)]
    OBVIOUS
  <1>3. \A i \in DOMAIN texts : Nth(file, texts, i) \in Seq(S)
    <2>1. \A i \in DOMAIN texts : texts[i] \in S /\ <<texts[i]>> \in Seq(S)
      OBVIOUS
    <2> QED BY <1>1, <2>1 DEF Nth
  <1>4. added \in Seq(Seq(S)) /\ added \in [1 .. Len(texts) -> Seq(S)]
    <2>1. DOMAIN texts = 1 .. Len(texts) /\ Len(texts) \in Nat
      OBVIOUS
    <2>2. added \in [1 .. Len(texts) -> Seq(S)]
      BY <1>2, <1>3, <2>1
    <2> QED BY <2>1, <2>2, FunctionIsSeq
  <1>5. \A k \in 1 .. Len(texts) : added[k] = Nth(file, texts, k)
    BY <1>2
  <1>6. PICK all : all = file.lines \o added
    OBVIOUS
  <1>7. /\ all \in Seq(Seq(S)) /\ Len(all) = Len(file.lines) + Len(texts)
        /\ \A i \in 1 .. Len(file.lines) : all[i] = file.lines[i]
        /\ \A k \in 1 .. Len(texts) : all[Len(file.lines) + k] = added[k]
    <2>0. added \in Seq(Seq(S))
      BY <1>4
    <2>1. /\ file.lines \o added \in Seq(Seq(S))
          /\ Len(file.lines \o added) = Len(file.lines) + Len(added)
      BY <1>1, <2>0
    <2>2. \A i \in 1 .. Len(file.lines) : (file.lines \o added)[i] = file.lines[i]
      BY <1>1, <2>0
    <2>3. \A k \in 1 .. Len(added) : (file.lines \o added)[Len(file.lines) + k] = added[k]
      BY <1>1, <2>0
    <2>4. Len(added) = Len(texts)
      BY <1>4, FunctionIsSeq
    <2> QED BY <2>1, <2>2, <2>3, <2>4, <1>6
  <1>8. Write(file, texts) = [there |-> TRUE, lines |-> all,
                              tail |-> IF texts = <<>> THEN file.tail ELSE <<>>]
    BY <1>2, <1>6 DEF Write, Nth
  <1>9. Write(file, texts) \in FileOver(S)
    BY <1>1, <1>7, <1>8 DEF FileOver
  <1>10. ASSUME texts = <<>>
         PROVE  /\ Lines(Write(file, texts)) = Lines(file)
                /\ Write(file, texts).lines = file.lines
                /\ Write(file, texts).tail = file.tail
    <2>1. added = <<>>
      BY <1>4, <1>10, EmptySeq, FunctionIsSeq
    <2>2. all = file.lines
      BY <2>1, <1>1, <1>6, ConcatEmptySeq
    <2> QED BY <2>2, <1>8, <1>10 DEF Lines
  <1>11. texts # <<>> => Lines(Write(file, texts)) = all /\ Write(file, texts).tail = <<>>
    BY <1>8 DEF Lines
  <1> QED BY <1>5, <1>7, <1>9, <1>10, <1>11

\* The same, of a file that was written to and has a name.
LEMMA LinesOfWritten ==
  ASSUME NEW S, NEW file \in FileOver(S), NEW part \in Seq(S), part # <<>>,
         NEW new, new = Write(file, part)
  PROVE  /\ new \in FileOver(S) /\ new.tail = <<>>
         /\ Len(Lines(new)) = Len(file.lines) + Len(part)
         /\ \A i \in 1 .. Len(file.lines) : Lines(new)[i] = file.lines[i]
         /\ \A j \in 1 .. Len(part) :
              Lines(new)[Len(file.lines) + j]
                = Nth(file, part, j)
  <1>1. new \in FileOver(S)
    BY LinesOfWrite
  <1>2. new.tail = <<>>
    BY LinesOfWrite
  <1>3. Len(Lines(new)) = Len(file.lines) + Len(part)
    BY LinesOfWrite
  <1>4. \A i \in 1 .. Len(file.lines) : Lines(new)[i] = file.lines[i]
    BY LinesOfWrite
  <1>5. ASSUME NEW j \in 1 .. Len(part)
        PROVE  Lines(new)[Len(file.lines) + j] = Nth(file, part, j)
    BY LinesOfWrite
  <1> QED BY <1>1, <1>2, <1>3, <1>4, <1>5

\* A line made of a rest and a text parses only if there was no rest.
LEMMA JoinedParses ==
  ASSUME NEW S, NEW rest \in Seq(S), NEW t \in S, Parses(rest \o <<t>>)
  PROVE  rest = <<>> /\ t # Cut /\ rest \o <<t>> = <<t>>
  <1>1. <<t>> \in Seq(S) /\ Len(rest \o <<t>>) = Len(rest) + 1
    OBVIOUS
  <1>2. Len(rest) = 0
    BY <1>1 DEF Parses
  <1>3. rest = <<>>
    BY <1>2
  <1> QED BY <1>3 DEF Parses

\* A file whose next line begins with what was left of the last one.
LEMMA JoinGrows ==
  ASSUME NEW S, NEW file \in FileOver(S), NEW new, NEW text \in S,
         Lines(new) \in Seq(Seq(S)), Len(file.lines) < Len(Lines(new)),
         \A i \in 1 .. Len(file.lines) : Lines(new)[i] = file.lines[i],
         Lines(new)[Len(file.lines) + 1] = file.tail \o <<text>>
  PROVE  /\ Grown(new, file)
         /\ AllParse(Lines(new)) => file.tail = <<>> /\ text # Cut
  <1>1. Lines(file) \in Seq(Seq(S)) /\ file.lines \in Seq(Seq(S)) /\ file.tail \in Seq(S)
    BY LinesOfFile DEF FileOver
  <1>2. PICK n \in Nat : n = Len(file.lines)
    BY <1>1
  <1>3. n + 1 \in DOMAIN Lines(new) /\ 1 .. n \subseteq DOMAIN Lines(new)
    <2>1. DOMAIN Lines(new) = 1 .. Len(Lines(new)) /\ Len(Lines(new)) \in Nat
      OBVIOUS
    <2> QED BY <2>1, <1>2
  <1>4. ASSUME AllParse(Lines(new))
        PROVE  /\ AllParse(Lines(file)) /\ Within(Lines(file), Lines(new))
               /\ file.tail = <<>> /\ text # Cut
    <2>1. Parses(file.tail \o <<text>>)
      BY <1>2, <1>3, <1>4 DEF AllParse
    <2>2. file.tail = <<>> /\ text # Cut
      BY <2>1, <1>1, JoinedParses
    <2>3. Lines(file) = file.lines
      BY <2>2, LinesOfFile
    <2>4. Len(Lines(file)) = n /\ DOMAIN Lines(file) = 1 .. n
      BY <2>3, <1>1, <1>2
    <2>5. n <= Len(Lines(new)) /\ \A i \in 1 .. n : Lines(new)[i] = Lines(file)[i]
      BY <1>2, <2>3
    <2> QED BY <2>2, <2>4, <2>5, <1>3, <1>4 DEF AllParse, Within
  <1>5. ASSUME NEW t, HasText(file, t) PROVE HasText(new, t)
    <2>1. PICK i \in DOMAIN Lines(file) : \E j \in DOMAIN Lines(file)[i] : Lines(file)[i][j] = t
      BY <1>5 DEF HasText
    <2>2. PICK j : j \in DOMAIN Lines(file)[i] /\ Lines(file)[i][j] = t
      BY <2>1, Zenon
    <2>3. \/ i \in 1 .. n /\ Lines(file)[i] = file.lines[i]
          \/ i = n + 1 /\ Lines(file)[i] = file.tail
      <3>1. i \in 1 .. Len(Lines(file))
        <4>1. DOMAIN Lines(file) = 1 .. Len(Lines(file))
          BY <1>1, LenProperties
        <4> QED BY <4>1
      <3>2. CASE file.tail = <<>>
        BY <3>1, <3>2, <1>2, LinesOfFile
      <3>3. CASE file.tail # <<>>
        <4>1. /\ Len(Lines(file)) = n + 1
              /\ \A k \in 1 .. n : Lines(file)[k] = file.lines[k]
              /\ Lines(file)[n + 1] = file.tail
          BY <3>3, <1>2, LinesOfFile
        <4>2. i \in 1 .. n \/ i = n + 1
          BY <3>1, <4>1, <1>2
        <4> QED BY <4>1, <4>2
      <3> QED BY <3>2, <3>3
    <2>4. CASE i \in 1 .. n /\ Lines(file)[i] = file.lines[i]
      <3>1. i \in DOMAIN Lines(new) /\ Lines(new)[i] = Lines(file)[i]
        BY <2>4, <1>2, <1>3
      <3> QED BY <3>1, <2>2 DEF HasText
    <2>5. CASE i = n + 1 /\ Lines(file)[i] = file.tail
      <3>1. j \in 1 .. Len(file.tail) /\ file.tail[j] = t
        <4>1. j \in DOMAIN file.tail /\ file.tail[j] = t
          BY <2>2, <2>5
        <4>2. DOMAIN file.tail = 1 .. Len(file.tail)
          BY <1>1
        <4> QED BY <4>1, <4>2
      <3>2. /\ j \in DOMAIN (file.tail \o <<text>>)
            /\ (file.tail \o <<text>>)[j] = file.tail[j]
        BY <3>1, <1>1
      <3>3. j \in DOMAIN Lines(new)[n + 1] /\ Lines(new)[n + 1][j] = t
        BY <3>1, <3>2, <1>2
      <3> QED BY <3>3, <1>3 DEF HasText
    <2> QED BY <2>3, <2>4, <2>5
  <1> QED BY <1>4, <1>5 DEF Grown

LEMMA WriteGrows ==
  ASSUME NEW S, NEW file \in FileOver(S), NEW texts \in Seq(S)
  PROVE  /\ Grown(Write(file, texts), file)
         /\ AllParse(Lines(Write(file, texts))) => texts = <<>> \/ file.tail = <<>>
  <1>1. PICK new : new = Write(file, texts)
    OBVIOUS
  <1>2. new \in FileOver(S) /\ Lines(new) \in Seq(Seq(S)) /\ Lines(file) \in Seq(Seq(S))
    BY <1>1, LinesOfFile, LinesOfWrite
  <1>3. CASE texts = <<>>
    <2>1. Lines(new) = Lines(file)
      BY <1>1, <1>3, LinesOfWrite
    <2>2. Within(Lines(file), Lines(file))
      BY <1>2 DEF Within
    <2>3. Grown(new, file)
      BY <2>1, <2>2 DEF Grown, HasText
    <2> QED BY <2>3, <1>1, <1>3
  <1>4. CASE texts # <<>>
    <2>1. 1 \in 1 .. Len(texts) /\ texts[1] \in S /\ Len(texts) \in Nat /\ Len(texts) >= 1
      BY <1>4
    <2>2. Len(file.lines) \in Nat
      BY DEF FileOver
    <2>3. /\ Len(Lines(new)) = Len(file.lines) + Len(texts)
          /\ \A i \in 1 .. Len(file.lines) : Lines(new)[i] = file.lines[i]
          /\ Lines(new)[Len(file.lines) + 1] = Nth(file, texts, 1)
      <3>1. /\ Len(Lines(new)) = Len(file.lines) + Len(texts)
            /\ \A i \in 1 .. Len(file.lines) : Lines(new)[i] = file.lines[i]
        BY <1>1, <1>4, LinesOfWritten
      <3>2. Lines(new)[Len(file.lines) + 1] = Nth(file, texts, 1)
        BY <1>1, <1>4, <2>1, LinesOfWritten
      <3> QED BY <3>1, <3>2
    <2>5. Nth(file, texts, 1) = file.tail \o <<texts[1]>>
      BY DEF Nth
    <2>4. Len(file.lines) < Len(Lines(new))
      BY <2>1, <2>2, <2>3
    <2>6. PICK text \in S : text = texts[1]
      BY <2>1
    <2>7. Lines(new)[Len(file.lines) + 1] = file.tail \o <<text>>
      BY <2>3, <2>5, <2>6
    <2>8. Grown(new, file) /\ (AllParse(Lines(new)) => file.tail = <<>> /\ text # Cut)
      BY <1>2, <2>3, <2>4, <2>7, JoinGrows
    <2> QED BY <1>1, <2>8, Zenon
  <1> QED BY <1>3, <1>4

LEMMA LinesOfTorn ==
  ASSUME NEW S, NEW file \in FileOver(S), NEW t \in S
  PROVE  /\ Torn(file, t) \in FileOver(S)
         /\ Len(Lines(Torn(file, t))) = Len(file.lines) + 1
         /\ \A i \in 1 .. Len(file.lines) : Lines(Torn(file, t))[i] = file.lines[i]
         /\ Lines(Torn(file, t))[Len(file.lines) + 1] = file.tail \o <<t>>
  <1>1. file.lines \in Seq(Seq(S)) /\ file.tail \in Seq(S) /\ <<t>> \in Seq(S)
    BY DEF FileOver
  <1>2. PICK tail : tail = file.tail \o <<t>>
    OBVIOUS
  <1>3. tail \in Seq(S) /\ tail # <<>>
    <2>1. Len(file.tail \o <<t>>) = Len(file.tail) + 1 /\ Len(file.tail) \in Nat
      BY <1>1
    <2> QED BY <2>1, <1>1, <1>2
  <1>4. Torn(file, t) = [there |-> file.there, lines |-> file.lines, tail |-> tail]
    <2>1. file = [there |-> file.there, lines |-> file.lines, tail |-> file.tail]
      BY DEF FileOver
    <2>2. Torn(file, t) = [file EXCEPT !.tail = tail]
      BY <1>2 DEF Torn
    <2> QED BY <2>1, <2>2
  <1>5. PICK new : new = Torn(file, t)
    OBVIOUS
  <1>6. new \in FileOver(S) /\ new.lines = file.lines /\ new.tail = tail
    BY <1>1, <1>3, <1>4, <1>5 DEF FileOver
  <1>7. /\ Len(Lines(new)) = Len(new.lines) + 1
        /\ \A i \in 1 .. Len(new.lines) : Lines(new)[i] = new.lines[i]
        /\ Lines(new)[Len(new.lines) + 1] = new.tail
    BY <1>3, <1>6, LinesOfFile
  <1> QED BY <1>2, <1>5, <1>6, <1>7

LEMMA TornGrows ==
  ASSUME NEW S, NEW file \in FileOver(S), NEW t \in S
  PROVE  /\ Grown(Torn(file, t), file)
         /\ AllParse(Lines(Torn(file, t))) => t # Cut
  <1>1. PICK new : new = Torn(file, t)
    OBVIOUS
  <1>2. /\ Lines(new) \in Seq(Seq(S))
        /\ Len(Lines(new)) = Len(file.lines) + 1
        /\ \A i \in 1 .. Len(file.lines) : Lines(new)[i] = file.lines[i]
        /\ Lines(new)[Len(file.lines) + 1] = file.tail \o <<t>>
    BY <1>1, LinesOfTorn, LinesOfFile
  <1>3. Len(file.lines) < Len(Lines(new))
    <2>1. Len(file.lines) \in Nat
      BY DEF FileOver
    <2> QED BY <2>1, <1>2
  <1> QED BY <1>1, <1>2, <1>3, JoinGrows

-----------------------------------------------------------------------------
\* The links: they hold in what is written if they hold in what is there.
LEMMA WriteLinks ==
  ASSUME NEW S, NEW file \in FileOver(S), NEW texts \in Seq(S),
         LinksIfParses(file), Fits(file, texts)
  PROVE  LinksIfParses(Write(file, texts))
  <1>1. PICK new : new = Write(file, texts)
    OBVIOUS
  <1>2. CASE texts = <<>>
    <2>1. Lines(new) = Lines(file)
      BY <1>1, <1>2, LinesOfWrite
    <2> QED BY <2>1, <1>1 DEF LinksIfParses
  <1>3. CASE texts # <<>>
    <2>1. SUFFICES ASSUME AllParse(Lines(new)) PROVE Linked(Lines(new))
      BY <1>1 DEF LinksIfParses
    <2>2. Linked(Lines(file)) /\ file.tail = <<>> /\ Lines(file) = file.lines
      BY <1>1, <1>3, <2>1, WriteGrows, LinesOfFile DEF Grown, LinksIfParses
    <2>3. PICK n \in Nat, m \in Nat : n = Len(file.lines) /\ m = Len(texts)
      BY DEF FileOver
    <2>4. /\ DOMAIN Lines(file) = 1 .. n
          /\ Lines(file) = <<>> <=> n = 0
      <3>1. file.lines \in Seq(Seq(S))
        BY DEF FileOver
      <3> QED BY <3>1, <2>2, <2>3, SeqTypes
    <2>5. /\ DOMAIN Lines(new) = 1 .. n + m
          /\ \A i \in 1 .. n : Lines(new)[i] = Lines(file)[i]
          /\ \A k \in 1 .. m : Lines(new)[n + k] = <<texts[k]>>
      <3>1. /\ Len(Lines(new)) = n + m
            /\ \A i \in 1 .. n : Lines(new)[i] = file.lines[i]
            /\ \A k \in 1 .. m : Lines(new)[n + k] = <<>> \o <<texts[k]>>
        <4>1. /\ Len(Lines(new)) = Len(file.lines) + Len(texts)
              /\ \A i \in 1 .. Len(file.lines) : Lines(new)[i] = file.lines[i]
              /\ \A k \in 1 .. Len(texts) : Lines(new)[Len(file.lines) + k]
                                             = Nth(file, texts, k)
          BY <1>1, <1>3, LinesOfWrite
        <4> QED BY <4>1, <2>2, <2>3 DEF Nth
      <3>2. Lines(new) \in Seq(Seq(S))
        BY <1>1, LinesOfWrite, LinesOfFile
      <3>3. \A k \in 1 .. m : <<>> \o <<texts[k]>> = <<texts[k]>>
        BY <2>3
      <3> QED BY <3>1, <3>2, <3>3, <2>2, LenProperties
    <2>6. \A k \in 1 .. m : k \in DOMAIN texts
      BY <2>3
    <2>7. ASSUME NEW i \in 1 .. n
          PROVE  /\ Lines(new)[i][1].seq = i
                 /\ Lines(new)[i][1].prev = IF i = 1 THEN Genesis ELSE Lines(new)[i - 1]
      <3>1. i # 1 => i - 1 \in 1 .. n
        OBVIOUS
      <3> QED BY <3>1, <2>2, <2>4, <2>5 DEF Linked
    <2>8. ASSUME NEW k \in 1 .. m
          PROVE  /\ Lines(new)[n + k][1].seq = n + k
                 /\ Lines(new)[n + k][1].prev = IF n + k = 1 THEN Genesis ELSE Lines(new)[n + k - 1]
      <3>1. Lines(new)[n + k][1] = texts[k]
        BY <2>5
      <3>2. /\ texts[k].seq = n + k
            /\ texts[k].prev = IF k > 1 THEN <<texts[k - 1]>>
                               ELSE IF Lines(file) = <<>> THEN Genesis ELSE Lines(file)[n]
        BY <2>2, <2>3, <2>6 DEF Fits
      <3>3. CASE k > 1
        <4>1. k - 1 \in 1 .. m /\ n + (k - 1) = n + k - 1 /\ n + k # 1
          BY <3>3
        <4> QED BY <4>1, <3>1, <3>2, <3>3, <2>5
      <3>4. CASE ~(k > 1)
        <4>1. k = 1 /\ n + k - 1 = n /\ (n + k = 1 <=> n = 0)
          BY <3>4
        <4>2. n # 0 => n \in 1 .. n
          OBVIOUS
        <4> QED BY <4>1, <4>2, <3>1, <3>2, <3>4, <2>4, <2>5
      <3> QED BY <3>3, <3>4
    <2>9. \A i \in 1 .. n + m : i \in 1 .. n \/ \E k \in 1 .. m : i = n + k
      <3> TAKE i \in 1 .. n + m
      <3>1. i \notin 1 .. n => i - n \in 1 .. m /\ i = n + (i - n)
        OBVIOUS
      <3> QED BY <3>1
    <2> DEFINE Good(i) == /\ Lines(new)[i][1].seq = i
                          /\ Lines(new)[i][1].prev = IF i = 1 THEN Genesis ELSE Lines(new)[i - 1]
    <2>10. /\ \A i \in 1 .. n : Good(i)
           /\ \A k \in 1 .. m : Good(n + k)
      BY <2>7, <2>8
    <2>11. \A i \in 1 .. n + m : Good(i)
      <3> HIDE DEF Good
      <3> QED BY <2>9, <2>10
    <2> QED BY <2>5, <2>11 DEF Linked
  <1> QED BY <1>2, <1>3

\* The beginning of what is written fits too.
LEMMA PartFits ==
  ASSUME NEW S, NEW file, NEW texts \in Seq(S), Fits(file, texts), NEW k \in 0 .. Len(texts)
  PROVE  /\ SubSeq(texts, 1, k) \in Seq(S) /\ Len(SubSeq(texts, 1, k)) = k
         /\ \A i \in 1 .. k : SubSeq(texts, 1, k)[i] = texts[i]
         /\ Fits(file, SubSeq(texts, 1, k))
  <1>1. PICK part : part = SubSeq(texts, 1, k)
    OBVIOUS
  <1>2. /\ part \in Seq(S) /\ Len(part) = k /\ DOMAIN part = 1 .. k
        /\ \A i \in 1 .. k : part[i] = texts[i] /\ i \in DOMAIN texts
    <2>1. Len(texts) \in Nat /\ k \in Nat /\ k <= Len(texts)
      OBVIOUS
    <2>2. \A i \in 1 .. k : i \in DOMAIN texts /\ texts[i] \in S
      BY <2>1
    <2>3. /\ SubSeq(texts, 1, k) \in Seq(S)
          /\ Len(SubSeq(texts, 1, k)) = IF 1 <= k THEN k - 1 + 1 ELSE 0
          /\ \A i \in 1 .. k - 1 + 1 : SubSeq(texts, 1, k)[i] = texts[1 + i - 1]
      BY <2>1, <2>2, SubSeqProperties
    <2>4. Len(part) = k
      BY <2>1, <2>3, <1>1
    <2>5. \A i \in 1 .. k : i \in 1 .. k - 1 + 1 /\ 1 + i - 1 = i
      BY <2>1
    <2> QED BY <2>2, <2>3, <2>4, <2>5, <1>1, LenProperties
  <1>3. \A i \in 1 .. k : i > 1 => i - 1 \in 1 .. k
    OBVIOUS
  <1>4. Fits(file, part)
    BY <1>2, <1>3 DEF Fits
  <1> QED BY <1>1, <1>2, <1>4

\* A whole text without its newline: the lines are those of the write.
LEMMA TornIsWritten ==
  ASSUME NEW S, NEW file \in FileOver(S), NEW texts \in Seq(S), Fits(file, texts)
  PROVE  \A k \in DOMAIN texts :
           Lines(Torn(Write(file, SubSeq(texts, 1, k - 1)), texts[k]))
             = Lines(Write(file, SubSeq(texts, 1, k)))
  <1>a. SUFFICES ASSUME NEW k, k \in DOMAIN texts
                 PROVE  Lines(Torn(Write(file, SubSeq(texts, 1, k - 1)), texts[k]))
                          = Lines(Write(file, SubSeq(texts, 1, k)))
    OBVIOUS
  <1>0. k \in 1 .. Len(texts) /\ k - 1 \in 0 .. Len(texts) /\ k \in 0 .. Len(texts) /\ texts[k] \in S
    BY <1>a
  <1>1. PICK n \in Nat : n = Len(file.lines)
    BY DEF FileOver
  <1>2. PICK whole : whole = Write(file, SubSeq(texts, 1, k))
    OBVIOUS
  <1>3. PICK less : less = Write(file, SubSeq(texts, 1, k - 1))
    OBVIOUS
  <1>4. /\ whole \in FileOver(S)
        /\ Len(Lines(whole)) = n + k
        /\ \A i \in 1 .. n : Lines(whole)[i] = file.lines[i]
        /\ \A j \in 1 .. k : Lines(whole)[n + j]
                               = Nth(file, texts, j)
    <2>1. PICK part : part = SubSeq(texts, 1, k)
      OBVIOUS
    <2>2. part \in Seq(S) /\ Len(part) = k /\ \A j \in 1 .. k : part[j] = texts[j]
      BY <2>1, <1>0, PartFits
    <2>3. part # <<>>
      BY <2>2, <1>0
    <2>4. part \in Seq(S)
      BY <2>2
    <2>5. /\ whole \in FileOver(S)
          /\ Len(Lines(whole)) = Len(file.lines) + Len(part)
          /\ \A i \in 1 .. Len(file.lines) : Lines(whole)[i] = file.lines[i]
          /\ \A j \in 1 .. Len(part) : Lines(whole)[Len(file.lines) + j]
                                        = Nth(file, part, j)
      <3>1. whole = Write(file, part)
        BY <2>1, <1>2
      <3>2. /\ whole \in FileOver(S)
            /\ Len(Lines(whole)) = Len(file.lines) + Len(part)
            /\ \A i \in 1 .. Len(file.lines) : Lines(whole)[i] = file.lines[i]
        BY <3>1, <2>3, <2>4, LinesOfWritten
      <3>3. \A j \in 1 .. Len(part) :
              Lines(whole)[Len(file.lines) + j] = Nth(file, part, j)
        BY <3>1, <2>3, <2>4, LinesOfWritten
      <3> QED BY <3>2, <3>3
    <2>6. \A j \in 1 .. k : Nth(file, part, j) = Nth(file, texts, j)
      BY <2>2 DEF Nth
    <2> QED BY <2>2, <2>5, <2>6, <1>1
  <1>5. /\ less \in FileOver(S)
        /\ Len(less.lines) = n + k - 1
        /\ \A i \in 1 .. n + k - 1 : less.lines[i] = Lines(whole)[i]
        /\ less.tail = IF k = 1 THEN file.tail ELSE <<>>
    <2>1. PICK part : part = SubSeq(texts, 1, k - 1)
      OBVIOUS
    <2>2. part \in Seq(S) /\ Len(part) = k - 1 /\ \A j \in 1 .. k - 1 : part[j] = texts[j]
      BY <2>1, <1>0, PartFits
    <2>0. less = Write(file, part)
      BY <2>1, <1>3
    <2>3. CASE k = 1
      <3>1. part = <<>>
        BY <2>2, <2>3, EmptySeq
      <3>2. less \in FileOver(S) /\ less.lines = file.lines /\ less.tail = file.tail
        <4>1. part \in Seq(S)
          BY <2>2
        <4> QED BY <4>1, <3>1, <2>0, LinesOfWrite
      <3>3. n + k - 1 = n
        BY <2>3
      <3> QED BY <3>2, <3>3, <2>3, <1>1, <1>4
    <2>4. CASE k # 1
      <3>1. part # <<>>
        BY <2>2, <2>4, <1>0
      <3>2. /\ less \in FileOver(S) /\ less.tail = <<>>
            /\ Len(Lines(less)) = n + (k - 1)
            /\ \A i \in 1 .. n : Lines(less)[i] = file.lines[i]
            /\ \A j \in 1 .. k - 1 : Lines(less)[n + j]
                                       = Nth(file, texts, j)
        <4>1. part \in Seq(S)
          BY <2>2
        <4>2. /\ less \in FileOver(S) /\ less.tail = <<>>
              /\ Len(Lines(less)) = Len(file.lines) + Len(part)
              /\ \A i \in 1 .. Len(file.lines) : Lines(less)[i] = file.lines[i]
              /\ \A j \in 1 .. Len(part) : Lines(less)[Len(file.lines) + j]
                                            = Nth(file, part, j)
          <5>1. /\ less \in FileOver(S) /\ less.tail = <<>>
                /\ Len(Lines(less)) = Len(file.lines) + Len(part)
                /\ \A i \in 1 .. Len(file.lines) : Lines(less)[i] = file.lines[i]
            BY <4>1, <3>1, <2>0, LinesOfWritten
          <5>2. \A j \in 1 .. Len(part) :
                  Lines(less)[Len(file.lines) + j] = Nth(file, part, j)
            BY <4>1, <3>1, <2>0, LinesOfWritten
          <5> QED BY <5>1, <5>2
        <4>3. \A j \in 1 .. k - 1 : Nth(file, part, j) = Nth(file, texts, j)
          BY <2>2 DEF Nth
        <4> QED BY <2>2, <4>2, <4>3, <1>1
      <3>3. Lines(less) = less.lines
        BY <3>2, LinesOfFile
      <3>4. ASSUME NEW i \in 1 .. n + k - 1 PROVE Lines(less)[i] = Lines(whole)[i]
        <4>1. CASE i \in 1 .. n
          BY <4>1, <3>2, <1>4
        <4>2. CASE i \notin 1 .. n
          <5>1. i - n \in 1 .. k - 1 /\ i - n \in 1 .. k /\ n + (i - n) = i
            BY <4>2, <1>0
          <5>2. Lines(less)[n + (i - n)] = Lines(whole)[n + (i - n)]
            BY <5>1, <3>2, <1>4
          <5> QED BY <5>1, <5>2
        <4> QED BY <4>1, <4>2
      <3>5. n + (k - 1) = n + k - 1
        BY <1>0
      <3> QED BY <3>2, <3>3, <3>4, <3>5, <2>4
    <2> QED BY <2>3, <2>4
  <1>6. PICK torn : torn = Torn(less, texts[k])
    OBVIOUS
  <1>7. /\ torn \in FileOver(S)
        /\ Len(Lines(torn)) = n + k - 1 + 1
        /\ \A i \in 1 .. n + k - 1 : Lines(torn)[i] = Lines(whole)[i]
        /\ Lines(torn)[n + k - 1 + 1] = less.tail \o <<texts[k]>>
    <2>1. less \in FileOver(S) /\ texts[k] \in S
      BY <1>0, <1>5
    <2>2. /\ torn \in FileOver(S)
          /\ Len(Lines(torn)) = Len(less.lines) + 1
          /\ \A i \in 1 .. Len(less.lines) : Lines(torn)[i] = less.lines[i]
          /\ Lines(torn)[Len(less.lines) + 1] = less.tail \o <<texts[k]>>
      BY <2>1, <1>6, LinesOfTorn
    <2> QED BY <2>2, <1>5
  <1>8. n + k - 1 + 1 = n + k /\ k \in 1 .. k
        /\ \A i \in 1 .. n + k : i \in 1 .. n + k - 1 \/ i = n + k
    BY <1>0
  <1>9. Lines(torn)[n + k] = Lines(whole)[n + k]
    <2>1. less.tail \o <<texts[k]>> = Nth(file, texts, k)
      BY <1>5 DEF Nth
    <2> QED BY <2>1, <1>4, <1>7, <1>8
  <1>10. /\ Lines(torn) \in Seq(Seq(S)) /\ Lines(whole) \in Seq(Seq(S))
         /\ Len(Lines(torn)) = Len(Lines(whole))
         /\ \A i \in 1 .. Len(Lines(torn)) : Lines(torn)[i] = Lines(whole)[i]
    BY <1>4, <1>7, <1>8, <1>9, LinesOfFile
  <1>11. Lines(torn) = Lines(whole)
    BY <1>10, SeqEqual
  <1> QED BY <1>2, <1>3, <1>6, <1>11

-----------------------------------------------------------------------------
\* What an append makes of any file, by any texts.
IsTexts(texts) == \E T : texts \in Seq(T)

LEMMA SeqWider ==
  ASSUME NEW S, NEW T, S \subseteq T
  PROVE  Seq(S) \subseteq Seq(T)
  <1>1. SUFFICES ASSUME NEW s \in Seq(S) PROVE s \in Seq(T)
    OBVIOUS
  <1>2. s \in [1 .. Len(s) -> S] /\ Len(s) \in Nat
    BY LenProperties
  <1>3. s \in [1 .. Len(s) -> T]
    BY <1>2
  <1> QED BY <1>2, <1>3, FunctionIsSeq

LEMMA CommonTexts ==
  ASSUME NEW file, IsFile(file), NEW texts, IsTexts(texts)
  PROVE  \E U : file \in FileOver(U) /\ texts \in Seq(U) /\ Cut \in U
  <1>1. PICK S : file \in FileOver(S)
    BY DEF IsFile
  <1>2. PICK T : texts \in Seq(T)
    BY DEF IsTexts
  <1> DEFINE U == S \cup T \cup {Cut}
  <1>3. S \subseteq U /\ T \subseteq U /\ Cut \in U
    OBVIOUS
  <1> HIDE DEF U
  <1>4. Seq(S) \subseteq Seq(U) /\ Seq(T) \subseteq Seq(U)
    BY <1>3, SeqWider
  <1>5. Seq(Seq(S)) \subseteq Seq(Seq(U))
    BY <1>4, SeqWider
  <1>6. file \in FileOver(U)
    BY <1>1, <1>4, <1>5 DEF FileOver
  <1> QED BY <1>2, <1>3, <1>4, <1>6

LEMMA WithinTwice ==
  ASSUME NEW a, NEW b, NEW c, IsFile(a), IsFile(b), IsFile(c),
         Within(Lines(a), Lines(b)), Within(Lines(b), Lines(c))
  PROVE  Within(Lines(a), Lines(c))
  <1>1. PICK x, y, z : x = Lines(a) /\ y = Lines(b) /\ z = Lines(c)
    OBVIOUS
  <1>2. Len(x) \in Nat /\ Len(y) \in Nat /\ Len(z) \in Nat
    BY <1>1, LinesOfFile, LenProperties DEF IsFile
  <1>3. \A i \in 1 .. Len(x) : i \in 1 .. Len(y)
    BY <1>1, <1>2 DEF Within
  <1>4. Len(x) <= Len(z)
    BY <1>1, <1>2 DEF Within
  <1>5. \A i \in 1 .. Len(x) : z[i] = x[i]
    BY <1>1, <1>3 DEF Within
  <1> QED BY <1>1, <1>4, <1>5 DEF Within

LEMMA GrownTwice ==
  ASSUME NEW a, NEW b, NEW c, IsFile(a), IsFile(b), IsFile(c), Grown(b, a), Grown(c, b)
  PROVE  Grown(c, a)
  BY WithinTwice DEF Grown

\* An append that was not cut short.
LEMMA Appended ==
  ASSUME NEW file, IsFile(file), NEW texts, IsTexts(texts), NEW new, new = Write(file, texts)
  PROVE  /\ IsFile(new) /\ Grown(new, file)
         /\ LinksIfParses(file) /\ Fits(file, texts) => LinksIfParses(new)
         /\ \A k \in DOMAIN texts : HasText(new, texts[k])
  <1>1. PICK U : file \in FileOver(U) /\ texts \in Seq(U) /\ Cut \in U
    BY CommonTexts
  <1>2. new \in FileOver(U) /\ Grown(new, file)
    BY <1>1, WriteGrows, LinesOfWrite
  <1>3. LinksIfParses(file) /\ Fits(file, texts) => LinksIfParses(new)
    BY <1>1, WriteLinks
  <1>4. ASSUME NEW k \in DOMAIN texts PROVE HasText(new, texts[k])
    <2>1. k \in 1 .. Len(texts) /\ texts[k] \in U /\ texts # <<>> /\ Len(texts) \in Nat
      BY <1>1
    <2>2. PICK n \in Nat : n = Len(file.lines)
      BY <1>1 DEF FileOver
    <2>3. Len(Lines(new)) = n + Len(texts) /\ Lines(new)[n + k] = Nth(file, texts, k)
      <3>1. Len(Lines(new)) = Len(file.lines) + Len(texts)
        BY <1>1, <2>1, LinesOfWritten
      <3>2. Lines(new)[Len(file.lines) + k] = Nth(file, texts, k)
        BY <1>1, <2>1, LinesOfWritten
      <3> QED BY <3>1, <3>2, <2>2
    <2>4. Lines(new) \in Seq(Seq(U))
      BY <1>2, LinesOfFile
    <2>5. n + k \in DOMAIN Lines(new)
      <3>1. n + k \in 1 .. n + Len(texts)
        BY <2>1, <2>2
      <3> QED BY <2>3, <2>4, <3>1, LenProperties
    <2>6. \E j \in DOMAIN Nth(file, texts, k) : Nth(file, texts, k)[j] = texts[k]
      <3>1. PICK rest : rest = IF k = 1 THEN file.tail ELSE <<>>
        OBVIOUS
      <3>2. rest \in Seq(U) /\ <<texts[k]>> \in Seq(U)
        BY <1>1, <2>1, <3>1 DEF FileOver
      <3>3. /\ Len(rest \o <<texts[k]>>) = Len(rest) + 1 /\ Len(rest) \in Nat
            /\ (rest \o <<texts[k]>>)[Len(rest) + 1] = texts[k]
            /\ DOMAIN (rest \o <<texts[k]>>) = 1 .. Len(rest \o <<texts[k]>>)
        BY <3>2
      <3>4. Len(rest) + 1 \in DOMAIN (rest \o <<texts[k]>>)
        BY <3>3
      <3> QED BY <3>1, <3>3, <3>4 DEF Nth
    <2> QED BY <2>3, <2>5, <2>6 DEF HasText
  <1> QED BY <1>2, <1>3, <1>4 DEF IsFile

\* An append that was.
LEMMA CutAppend ==
  ASSUME NEW file, IsFile(file), NEW texts, IsTexts(texts), NEW new \in CutShort(file, texts)
  PROVE  /\ IsFile(new) /\ Grown(new, file)
         /\ LinksIfParses(file) /\ Fits(file, texts) => LinksIfParses(new)
  <1>1. PICK U : file \in FileOver(U) /\ texts \in Seq(U) /\ Cut \in U
    BY CommonTexts
  <1> DEFINE Kept(k) == Write(file, SubSeq(texts, 1, k))
             Result(x) == /\ IsFile(x) /\ Grown(x, file)
                          /\ LinksIfParses(file) /\ Fits(file, texts) => LinksIfParses(x)
  <1>2. \/ new = file
        \/ \E k \in 0 .. Len(texts) : new = Kept(k)
        \/ \E k \in DOMAIN texts : \E t \in {Cut, texts[k]} : new = Torn(Kept(k - 1), t)
    BY DEF CutShort, Torn
  <1>3. Result(file)
    <2>1. Lines(file) \in Seq(Seq(U))
      BY <1>1, LinesOfFile
    <2>2. Within(Lines(file), Lines(file))
      BY <2>1 DEF Within
    <2> QED BY <2>2 DEF Grown
  <1>4. ASSUME NEW k \in 0 .. Len(texts) PROVE Kept(k) \in FileOver(U) /\ Result(Kept(k))
    <2>1. PICK part : part = SubSeq(texts, 1, k)
      OBVIOUS
    <2>2. part \in Seq(U)
      <3>1. \A i \in 1 .. k : i \in DOMAIN texts /\ texts[i] \in U
        BY <1>1
      <3> QED BY <1>1, <2>1, <3>1, SubSeqProperties
    <2>3. Fits(file, texts) => Fits(file, part)
      BY <1>1, <2>1, PartFits
    <2>4. Write(file, part) \in FileOver(U) /\ Result(Write(file, part))
      <3>1. PICK kept : kept = Write(file, part)
        OBVIOUS
      <3>2. kept \in FileOver(U)
        BY <1>1, <2>2, <3>1, LinesOfWrite
      <3>3. Result(kept)
        BY <2>2, <2>3, <3>1, Appended DEF IsTexts
      <3> QED BY <3>1, <3>2, <3>3
    <2> QED BY <2>1, <2>4
  <1>5. ASSUME NEW k, k \in DOMAIN texts, NEW t \in {Cut, texts[k]}
        PROVE  Result(Torn(Kept(k - 1), t))
    <2>1. /\ k - 1 \in 0 .. Len(texts) /\ k \in 0 .. Len(texts) /\ t \in U
      BY <1>1, <1>5
    <2>2. PICK less : less = Kept(k - 1)
      OBVIOUS
    <2>3. less \in FileOver(U) /\ Result(less)
      BY <1>4, <2>1, <2>2
    <2>4. PICK torn : torn = Torn(less, t)
      OBVIOUS
    <2>5. torn \in FileOver(U) /\ Grown(torn, less) /\ (AllParse(Lines(torn)) => t # Cut)
      BY <2>1, <2>3, <2>4, LinesOfTorn, TornGrows
    <2>6. IsFile(torn) /\ Grown(torn, file)
      BY <2>3, <2>5, GrownTwice DEF IsFile
    <2>7. ASSUME LinksIfParses(file), Fits(file, texts), t # Cut PROVE LinksIfParses(torn)
      <3>1. t = texts[k]
        BY <2>7
      <3>2. Lines(torn) = Lines(Kept(k))
        BY <1>1, <1>5, <2>2, <2>4, <2>7, <3>1, TornIsWritten
      <3>3. LinksIfParses(Kept(k))
        BY <1>4, <2>1, <2>7
      <3> QED BY <3>2, <3>3 DEF LinksIfParses
    <2>8. t = Cut => LinksIfParses(torn)
      BY <2>5 DEF LinksIfParses
    <2> QED BY <2>2, <2>4, <2>6, <2>7, <2>8
  <1> HIDE DEF Kept, Result
  <1>6. Result(new)
    BY <1>2, <1>3, <1>4, <1>5
  <1> QED BY <1>6 DEF Result

-----------------------------------------------------------------------------
\* A file as appends that are never cut short leave it: each line one text,
\* and no receipt named twice.
NameSet(line) == {line[i][1].name : i \in DOMAIN line}
DistinctNames(line) == \A i, j \in DOMAIN line : line[i][1].name = line[j][1].name => i = j
Clean(file) == file.tail = <<>> /\ AllParse(file.lines) /\ DistinctNames(file.lines)

LEMMA CleanAppend ==
  ASSUME NEW file, IsFile(file), file.tail = <<>>, NEW texts, IsTexts(texts),
         NEW new, new = Write(file, texts)
  PROVE  /\ Lines(file) = file.lines /\ Lines(new) = new.lines /\ new.tail = <<>>
         /\ Len(new.lines) = Len(file.lines) + Len(texts)
         /\ DOMAIN new.lines = 1 .. Len(new.lines)
         /\ \A i \in 1 .. Len(file.lines) : new.lines[i] = file.lines[i]
         /\ \A k \in 1 .. Len(texts) : new.lines[Len(file.lines) + k] = <<texts[k]>>
  <1>1. PICK U : file \in FileOver(U) /\ texts \in Seq(U) /\ Cut \in U
    BY CommonTexts
  <1>2. new \in FileOver(U) /\ new.lines \in Seq(Seq(U)) /\ Lines(file) = file.lines
    <2>1. new \in FileOver(U)
      BY <1>1, LinesOfWrite
    <2>2. Lines(file) = file.lines
      BY <1>1, LinesOfFile
    <2> QED BY <2>1, <2>2 DEF FileOver
  <1>3. CASE texts = <<>>
    <2>1. new.tail = <<>> /\ new.lines = file.lines
      <3>1. texts = <<>> => Write(file, texts).lines = file.lines
        BY <1>1, LinesOfWrite
      <3>2. texts = <<>> => Write(file, texts).tail = file.tail
        BY <1>1, LinesOfWrite
      <3> QED BY <1>3, <3>1, <3>2
    <2>2. Lines(new) = new.lines
      BY <2>1, <1>2, LinesOfFile
    <2>3. Len(texts) = 0 /\ Len(file.lines) \in Nat
      BY <1>1, <1>3 DEF FileOver
    <2>4. Len(file.lines) = Len(file.lines) + Len(texts) /\ 1 .. Len(texts) = {}
      BY <2>3
    <2>5. DOMAIN new.lines = 1 .. Len(new.lines)
      BY <1>2, LenProperties
    <2> QED BY <2>1, <2>2, <2>4, <2>5, <1>2
  <1>4. CASE texts # <<>>
    <2>1. new.tail = <<>>
      BY <1>1, <1>4, LinesOfWritten
    <2>2. Lines(new) = new.lines
      BY <2>1, <1>2, LinesOfFile
    <2>3. Len(Lines(new)) = Len(file.lines) + Len(texts)
      BY <1>1, <1>4, LinesOfWritten
    <2>4. \A i \in 1 .. Len(file.lines) : Lines(new)[i] = file.lines[i]
      BY <1>1, <1>4, LinesOfWritten
    <2>5. ASSUME NEW k \in 1 .. Len(texts)
          PROVE  Lines(new)[Len(file.lines) + k] = <<texts[k]>>
      <3>1. Lines(new)[Len(file.lines) + k] = Nth(file, texts, k)
        BY <1>1, <1>4, LinesOfWritten
      <3>2. Nth(file, texts, k) = <<texts[k]>>
        <4>1. <<texts[k]>> \in Seq(U)
          BY <1>1
        <4>2. Nth(file, texts, k) = <<>> \o <<texts[k]>>
          BY DEF Nth
        <4> QED BY <4>1, <4>2, ConcatEmptySeq
      <3> QED BY <3>1, <3>2
    <2>6. DOMAIN new.lines = 1 .. Len(new.lines)
      BY <1>2, LenProperties
    <2> QED BY <2>1, <2>2, <2>3, <2>4, <2>5, <2>6, <1>2
  <1> QED BY <1>3, <1>4

-----------------------------------------------------------------------------
\* The entries that the appends write.  The equation of ChainTexts has a
\* solution: each entry needs only the one before it.
Entry(old, names, bytes, i, before) ==
  [seq |-> Len(old) + i, name |-> names[i], sha |-> bytes[names[i]],
   prev |-> IF i > 1 THEN <<before>>
            ELSE IF old = <<>> THEN Genesis ELSE old[Len(old)]]

Entries(f, old, names, bytes, n) ==
  f = [i \in 1 .. n |-> Entry(old, names, bytes, i, f[i - 1])]

LEMMA EntryFields ==
  ASSUME NEW old, NEW names, NEW bytes, NEW i, NEW before, NEW e,
         e = Entry(old, names, bytes, i, before)
  PROVE  /\ e.seq = Len(old) + i /\ e.name = names[i] /\ e.sha = bytes[names[i]]
         /\ e.prev = IF i > 1 THEN <<before>>
                     ELSE IF old = <<>> THEN Genesis ELSE old[Len(old)]
  BY DEF Entry

LEMMA EntriesExist ==
  ASSUME NEW old, NEW names, NEW bytes, NEW n \in Nat
  PROVE  \E f : Entries(f, old, names, bytes, n)
  <1> DEFINE Solves(f, k) == f = [i \in 1 .. k |-> Entry(old, names, bytes, i, f[i - 1])]
             T == {k \in Nat : \E f : Solves(f, k)}
  <1>1. 0 \in T
    <2>1. 1 .. 0 = {}
      OBVIOUS
    <2>2. Solves([i \in 1 .. 0 |-> 0], 0)
      BY <2>1
    <2> QED BY <2>2
  <1>2. ASSUME NEW k \in T PROVE k + 1 \in T
    <2>1. PICK f : Solves(f, k)
      OBVIOUS
    <2> DEFINE g == [i \in 1 .. k + 1 |-> Entry(old, names, bytes, i, f[i - 1])]
    <2>2. ASSUME NEW i \in 1 .. k + 1
          PROVE  Entry(old, names, bytes, i, f[i - 1]) = Entry(old, names, bytes, i, g[i - 1])
      <3>1. CASE i > 1
        <4>1. i - 1 \in 1 .. k /\ i - 1 \in 1 .. k + 1
          BY <3>1
        <4>2. f[i - 1] = Entry(old, names, bytes, i - 1, f[i - 1 - 1])
          BY <2>1, <4>1
        <4>3. g[i - 1] = Entry(old, names, bytes, i - 1, f[i - 1 - 1])
          BY <4>1
        <4> QED BY <4>2, <4>3
      <3>2. CASE ~(i > 1)
        BY <3>2 DEF Entry
      <3> QED BY <3>1, <3>2
    <2>3. Solves(g, k + 1)
      <3>1. PICK h : h = g
        OBVIOUS
      <3>2. \A i \in 1 .. k + 1 : Entry(old, names, bytes, i, f[i - 1]) = Entry(old, names, bytes, i, h[i - 1])
        BY <2>2, <3>1
      <3>3. h = [i \in 1 .. k + 1 |-> Entry(old, names, bytes, i, f[i - 1])]
        BY <3>1
      <3>4. Solves(h, k + 1)
        BY <3>2, <3>3
      <3> QED BY <3>1, <3>4
    <2>4. k + 1 \in Nat
      OBVIOUS
    <2>5. \E h : Solves(h, k + 1)
      <3> HIDE DEF Solves
      <3> QED BY <2>3
    <2> QED BY <2>4, <2>5
  <1> HIDE DEF Solves
  <1>3. T = Nat
    BY <1>1, <1>2, SetInduction
  <1>4. \E f : Solves(f, n)
    BY <1>3
  <1> QED BY <1>4 DEF Solves, Entries

LEMMA ChainTextsAre ==
  ASSUME NEW file, IsFile(file), NEW names \in Seq(Receipt), NEW bytes,
         NEW texts, texts = ChainTexts(file, names, bytes)
  PROVE  /\ IsTexts(texts) /\ Len(texts) = Len(names) /\ DOMAIN texts = DOMAIN names
         /\ \A i \in DOMAIN names : texts[i].name = names[i] /\ texts[i].sha = bytes[names[i]]
         /\ \A i \in DOMAIN names : texts[i] # Cut
         /\ Fits(file, texts)
  <1>1. PICK old : old = Lines(file)
    OBVIOUS
  <1>2. PICK n \in Nat : n = Len(names) /\ DOMAIN names = 1 .. n
    BY LenProperties
  <1>3. Len(old) \in Nat
    BY <1>1, LinesOfFile, LenProperties DEF IsFile
  <1>4. texts = [i \in 1 .. n |-> Entry(old, names, bytes, i, texts[i - 1])]
    <2>1. \E f : Entries(f, old, names, bytes, n)
      BY EntriesExist
    <2>2. texts = CHOOSE f : Entries(f, old, names, bytes, n)
      BY <1>1, <1>2 DEF ChainTexts, Entries, Entry
    <2>3. Entries(texts, old, names, bytes, n)
      BY <2>1, <2>2
    <2> QED BY <2>3 DEF Entries
  <1>5. \A i \in 1 .. n : texts[i] = Entry(old, names, bytes, i, texts[i - 1])
    BY <1>4
  <1>6. ASSUME NEW i \in 1 .. n
        PROVE  /\ texts[i].seq = Len(old) + i
               /\ texts[i].name = names[i] /\ texts[i].sha = bytes[names[i]]
               /\ texts[i].prev = IF i > 1 THEN <<texts[i - 1]>>
                                  ELSE IF old = <<>> THEN Genesis ELSE old[Len(old)]
               /\ texts[i] # Cut
    <2>1. /\ texts[i].seq = Len(old) + i
          /\ texts[i].name = names[i] /\ texts[i].sha = bytes[names[i]]
          /\ texts[i].prev = IF i > 1 THEN <<texts[i - 1]>>
                             ELSE IF old = <<>> THEN Genesis ELSE old[Len(old)]
      BY <1>5, EntryFields
    <2>2. Cut.seq = 0 /\ Len(old) + i # 0
      BY <1>3 DEF Cut
    <2> QED BY <2>1, <2>2
  <1>7. IsTexts(texts) /\ Len(texts) = n /\ DOMAIN texts = 1 .. n
    <2> DEFINE T == {texts[i] : i \in 1 .. n}
    <2>1. texts \in [1 .. n -> T]
      BY <1>4
    <2> HIDE DEF T
    <2>2. texts \in Seq(T) /\ Len(texts) = n /\ DOMAIN texts = 1 .. n
      BY <2>1, FunctionIsSeq
    <2> QED BY <2>2 DEF IsTexts
  <1>8. Fits(file, texts)
    BY <1>1, <1>6, <1>7 DEF Fits
  <1> QED BY <1>2, <1>6, <1>7, <1>8

LEMMA IndexTextsAre ==
  ASSUME NEW file, IsFile(file), NEW names \in Seq(Receipt), NEW bytes,
         NEW texts, texts = IndexTexts(file, names, bytes)
  PROVE  /\ IsTexts(texts) /\ Len(texts) = Len(names) /\ DOMAIN texts = DOMAIN names
         /\ \A i \in DOMAIN names : texts[i].seq = Len(Lines(file)) + i
         /\ \A i \in DOMAIN names : texts[i].name = names[i] /\ texts[i].sha = bytes[names[i]]
         /\ \A i \in DOMAIN names : texts[i] # Cut
  <1>1. PICK old : old = Len(Lines(file))
    OBVIOUS
  <1>2. PICK n \in Nat : n = Len(names) /\ DOMAIN names = 1 .. n
    BY LenProperties
  <1>3. old \in Nat
    BY <1>1, LinesOfFile, LenProperties DEF IsFile
  <1>4. texts = [i \in 1 .. n |-> [seq |-> old + i, name |-> names[i], sha |-> bytes[names[i]]]]
    BY <1>1, <1>2 DEF IndexTexts
  <1>5. ASSUME NEW i \in 1 .. n
        PROVE  /\ texts[i].seq = old + i
               /\ texts[i].name = names[i] /\ texts[i].sha = bytes[names[i]]
               /\ texts[i] # Cut
    <2>1. texts[i].seq = old + i /\ texts[i].name = names[i] /\ texts[i].sha = bytes[names[i]]
      BY <1>4
    <2>2. Cut.seq = 0 /\ old + i # 0
      BY <1>3 DEF Cut
    <2> QED BY <2>1, <2>2
  <1>6. IsTexts(texts) /\ Len(texts) = n /\ DOMAIN texts = 1 .. n
    <2> DEFINE T == {texts[i] : i \in 1 .. n}
    <2>1. texts \in [1 .. n -> T]
      BY <1>4
    <2> HIDE DEF T
    <2>2. texts \in Seq(T) /\ Len(texts) = n /\ DOMAIN texts = 1 .. n
      BY <2>1, FunctionIsSeq
    <2> QED BY <2>2 DEF IsTexts
  <1> QED BY <1>1, <1>2, <1>5, <1>6

\* A set of receipts in order.
LEMMA SortedIs ==
  ASSUME NEW S \in SUBSET Receipt, NEW s, s = Sorted(S)
  PROVE  /\ s \in Seq(Receipt) /\ Range(s) = S
         /\ \A i, j \in DOMAIN s : s[i] = s[j] => i = j
  <1>1. S \in SUBSET Nat /\ IsFiniteSet(S)
    BY RollupAssumption, FS_Subset DEF RollupAssumption
  <1>2. PICK n \in Nat : n = Cardinality(S)
    BY <1>1, FS_CardinalityType
  <1>3. s \in [1 .. n -> S] /\ Increasing(s)
    <2>1. \E t \in [1 .. n -> S] : Increasing(t)
      BY <1>1, <1>2, InOrder
    <2>2. s = CHOOSE t \in [1 .. n -> S] : Increasing(t)
      BY <1>2 DEF Sorted, Increasing
    <2> QED BY <2>1, <2>2
  <1>4. s \in Seq(Receipt) /\ DOMAIN s = 1 .. n
    <2>1. s \in [1 .. n -> Receipt]
      BY <1>3
    <2> QED BY <2>1, FunctionIsSeq
  <1>5. ASSUME NEW i \in 1 .. n, NEW j \in 1 .. n, s[i] = s[j] PROVE i = j
    <2>1. s[i] \in Nat /\ s[j] \in Nat
      BY <1>1, <1>3
    <2>2. ~(i < j) /\ ~(j < i)
      BY <2>1, <1>3, <1>4, <1>5 DEF Increasing
    <2> QED BY <2>2
  <1>6. s \in Surjection(1 .. n, S)
    <2>1. s \in Injection(1 .. n, S)
      BY <1>3, <1>4, <1>5 DEF Injection, IsInjective
    <2>2. Cardinality(1 .. n) = Cardinality(S)
      BY <1>2, FS_Interval
    <2> QED BY <1>1, <2>1, <2>2, FS_Injection
  <1> QED BY <1>3, <1>4, <1>5, <1>6 DEF Surjection, Range

-----------------------------------------------------------------------------
\* What a backfill copies: the beginning of the chain, and all of it where
\* every line names an archived receipt with its hash.
LEMMA BackfillTextsAre ==
  ASSUME IsFile(chain), NEW texts, texts = BackfillTexts
  PROVE  /\ IsTexts(texts) /\ Len(texts) \in 0 .. Len(Lines(chain))
         /\ DOMAIN texts = 1 .. Len(texts)
         /\ \A i \in 1 .. Len(texts) :
              /\ texts[i].seq = Lines(chain)[i][1].seq
              /\ texts[i].name = Lines(chain)[i][1].name
              /\ texts[i].sha = Lines(chain)[i][1].sha
         /\ (\A i \in DOMAIN Lines(chain) : Copied(Lines(chain)[i]))
              => Len(texts) = Len(Lines(chain))
  <1>1. PICK line : line = Lines(chain)
    OBVIOUS
  <1>2. PICK len \in Nat : len = Len(line) /\ DOMAIN line = 1 .. len
    BY <1>1, LinesOfFile, LenProperties DEF IsFile
  <1> DEFINE Ends(k) == /\ \A i \in 1 .. k : Copied(line[i])
                        /\ k < len => ~Copied(line[k + 1])
  <1>3. \E k \in 0 .. len : Ends(k)
    <2> DEFINE Stop == {k \in 0 .. len : k = len \/ ~Copied(line[k + 1])}
    <2>1. Stop \in SUBSET Nat /\ len \in Stop
      OBVIOUS
    <2>2. PICK k \in Stop : \A j \in Stop : k <= j
      <3> HIDE DEF Stop
      <3> QED BY <2>1, LeastOf
    <2>3. k \in 0 .. len /\ (k < len => ~Copied(line[k + 1]))
      OBVIOUS
    <2>4. ASSUME NEW i \in 1 .. k PROVE Copied(line[i])
      <3>1. i - 1 \in 0 .. len /\ i - 1 # len /\ ~(k <= i - 1) /\ i - 1 + 1 = i
        BY <2>3
      <3>2. i - 1 \notin Stop
        <4> HIDE DEF Stop
        <4> QED BY <2>2, <3>1
      <3> QED BY <3>1, <3>2
    <2> QED BY <2>3, <2>4
  <1>4. PICK n \in 0 .. len : Ends(n) /\ n = CHOOSE k \in 0 .. len : Ends(k)
    <2> HIDE DEF Ends
    <2> QED BY <1>3
  <1>5. texts = [i \in 1 .. n |-> [seq |-> line[i][1].seq, name |-> line[i][1].name,
                                   sha |-> line[i][1].sha]]
    BY <1>1, <1>2, <1>4 DEF BackfillTexts
  <1>6. \A i \in 1 .. n : /\ texts[i].seq = line[i][1].seq
                          /\ texts[i].name = line[i][1].name
                          /\ texts[i].sha = line[i][1].sha
    BY <1>5
  <1>7. IsTexts(texts) /\ Len(texts) = n /\ DOMAIN texts = 1 .. n
    <2> DEFINE T == {texts[i] : i \in 1 .. n}
    <2>1. texts \in [1 .. n -> T]
      BY <1>5
    <2> HIDE DEF T
    <2>2. n \in Nat
      OBVIOUS
    <2>3. texts \in Seq(T) /\ Len(texts) = n /\ DOMAIN texts = 1 .. n
      BY <2>1, <2>2, FunctionIsSeq
    <2> QED BY <2>3 DEF IsTexts
  <1>8. ASSUME \A i \in DOMAIN line : Copied(line[i]) PROVE n = len
    <2>1. SUFFICES ASSUME n < len PROVE FALSE
      BY <1>2
    <2>2. n + 1 \in DOMAIN line
      BY <2>1, <1>2
    <2> QED BY <2>1, <2>2, <1>4, <1>8
  <1> QED BY <1>1, <1>2, <1>6, <1>7, <1>8

\* A backfill to the end of a chain that verifies agrees with it.
LEMMA BackfillAgrees ==
  ASSUME IsFile(chain), Verifies(chain), NEW old, IsFile(old), Lines(old) = <<>>,
         Len(BackfillTexts) = Len(Lines(chain)), NEW new, new = Write(old, BackfillTexts)
  PROVE  /\ IsFile(new) /\ new.tail = <<>> /\ Lines(new) = new.lines
         /\ Gate(new, chain) /\ AllParse(new.lines)
         /\ DOMAIN new.lines = DOMAIN Lines(chain)
         /\ \A i \in DOMAIN new.lines : new.lines[i][1].name = Lines(chain)[i][1].name
  <1>1. PICK line : line = Lines(chain)
    OBVIOUS
  <1>2. PICK len \in Nat : len = Len(line) /\ DOMAIN line = 1 .. len
    BY <1>1, LinesOfFile, LenProperties DEF IsFile
  <1>3. PICK texts : texts = BackfillTexts
    OBVIOUS
  <1>4. /\ IsTexts(texts) /\ Len(texts) = len
        /\ \A i \in 1 .. len : /\ texts[i].seq = line[i][1].seq
                               /\ texts[i].name = line[i][1].name
                               /\ texts[i].sha = line[i][1].sha
    BY <1>1, <1>2, <1>3, BackfillTextsAre
  <1>5. old.tail = <<>> /\ Len(old.lines) = 0
    <2>1. PICK S : old \in FileOver(S)
      BY DEF IsFile
    <2>2. old.lines \in Seq(Seq(S))
      BY <2>1 DEF FileOver
    <2>3. Len(old.lines) \in Nat
      BY <2>2
    <2>4. Len(Lines(old)) = 0
      OBVIOUS
    <2>5. old.tail = <<>>
      <3>1. old.tail # <<>> => Len(Lines(old)) = Len(old.lines) + 1
        BY <2>1, LinesOfFile
      <3> QED BY <3>1, <2>3, <2>4
    <2>6. old.lines = <<>>
      BY <2>1, <2>5, LinesOfFile
    <2> QED BY <2>5, <2>6
  <1>6. PICK written : written = Write(old, texts)
    OBVIOUS
  <1>7. /\ Lines(written) = written.lines /\ written.tail = <<>>
        /\ Len(written.lines) = 0 + Len(texts)
        /\ DOMAIN written.lines = 1 .. Len(written.lines)
        /\ \A k \in 1 .. Len(texts) : written.lines[0 + k] = <<texts[k]>>
    <2>1. IsFile(old) /\ old.tail = <<>> /\ IsTexts(texts)
      BY <1>4, <1>5
    <2>2. Len(old.lines) = 0
      BY <1>5
    <2> QED BY <2>1, <2>2, <1>6, CleanAppend
  <1>8. IsFile(written)
    BY <1>4, <1>6, Appended
  <1>9. /\ DOMAIN written.lines = 1 .. len /\ Len(written.lines) = len
        /\ \A k \in 1 .. len : written.lines[k] = <<texts[k]>>
    <2>1. \A k \in 1 .. len : 0 + k = k
      OBVIOUS
    <2> QED BY <2>1, <1>4, <1>7
  <1>10. ASSUME NEW k \in 1 .. len
         PROVE  /\ written.lines[k][1] = texts[k] /\ Parses(written.lines[k]) /\ Parses(line[k])
    <2>1. line[k][1].seq = k /\ Parses(line[k])
      BY <1>1, <1>2 DEF Verifies
    <2>2. texts[k].seq # 0 /\ Cut.seq = 0
      BY <2>1, <1>4 DEF Cut
    <2>3. texts[k] # Cut
      BY <2>2
    <2>4. Len(<<texts[k]>>) = 1 /\ <<texts[k]>>[1] = texts[k]
      OBVIOUS
    <2>5. Parses(<<texts[k]>>)
      BY <2>3, <2>4 DEF Parses
    <2>6. written.lines[k] = <<texts[k]>>
      BY <1>9
    <2> QED BY <2>1, <2>4, <2>5, <2>6
  <1>11. Gate(written, chain)
    BY <1>1, <1>2, <1>4, <1>7, <1>9, <1>10 DEF Gate
  <1>12. new = written
    BY <1>3, <1>6
  <1> QED BY <1>1, <1>2, <1>4, <1>7, <1>8, <1>9, <1>10, <1>11, <1>12 DEF AllParse

-----------------------------------------------------------------------------
\* The inductive invariant.  Types; what is listed or archived is there, and is
\* not being written unless it was when it was listed.
RollState == [pc : {"idle", "chain", "index", "move", "gate", "commit", "stopped", "killed"},
              list : Seq(Receipt), todo : Seq(Receipt), base : Nat, ibase : Nat,
              late : SUBSET Receipt]
ReceiptState == [place : {"nowhere", "loose", "archive"}, whole : BOOLEAN,
                 open : BOOLEAN, tracked : BOOLEAN]

RollType ==
  /\ receipt \in [Receipt -> ReceiptState]
  /\ IsFile(chain) /\ IsFile(index) /\ IsFile(head.chain)
  /\ roll \in RollState
  /\ acts \in Nat /\ mishap \in BOOLEAN

Settled(f) == receipt[f].place # "nowhere" /\ (f \in roll.late \/ ~receipt[f].open)
Listed == \A f \in Range(roll.list) \cup Range(roll.todo) \cup Archive : Settled(f)

LEMMA NoFileIs == IsFile(NoFile) /\ Lines(NoFile) = <<>> /\ NoFile.tail = <<>> /\ NoFile.lines = <<>>
  <1>1. NoFile \in FileOver({})
    BY DEF NoFile, FileOver
  <1> QED BY <1>1 DEF IsFile, NoFile, Lines

\* What a rollup writes to a file, or would have written.
LEMMA ChainStep ==
  ASSUME RollType, RollNext
  PROVE  /\ IsFile(chain') /\ Grown(chain', chain)
         /\ LinksIfParses(chain) => LinksIfParses(chain')
  <1>1. PICK texts : texts = ChainTexts(chain, roll.todo, Bytes)
    OBVIOUS
  <1>2. IsFile(chain) /\ roll.todo \in Seq(Receipt)
    BY DEF RollType, RollState
  <1>3. IsTexts(texts) /\ Fits(chain, texts)
    BY <1>1, <1>2, ChainTextsAre
  <1>4. \/ chain' = chain
        \/ chain' = Write(chain, texts)
        \/ chain' \in CutShort(chain, texts)
    BY <1>1 DEF RollNext, Writers, OpenReceipt, CloseReceipt, KillWriter, Track, Snapshot,
                Resume, ChainAppend, IndexAppend, Move, Check, CommitRollup, KillRollup, Backfill
  <1>5. CASE chain' = chain
    <2>1. Lines(chain) = Lines(chain')
      BY <1>5
    <2>2. Len(Lines(chain)) \in Nat
      BY <1>2, LinesOfFile, LenProperties DEF IsFile
    <2>3. Grown(chain, chain)
      BY <2>2 DEF Grown, Within
    <2> QED BY <1>2, <1>5, <2>3
  <1>6. CASE chain' = Write(chain, texts)
    BY <1>2, <1>3, <1>6, Appended
  <1>7. CASE chain' \in CutShort(chain, texts)
    BY <1>2, <1>3, <1>7, CutAppend
  <1> QED BY <1>4, <1>5, <1>6, <1>7

LEMMA IndexStep ==
  ASSUME RollType, RollNext
  PROVE  IsFile(index')
  <1>1. PICK texts : texts = IndexTexts(index, roll.todo, Bytes)
    OBVIOUS
  <1>2. PICK copied : copied = BackfillTexts
    OBVIOUS
  <1>3. IsFile(chain) /\ IsFile(index) /\ roll.todo \in Seq(Receipt) /\ IsFile(NoFile)
    BY NoFileIs DEF RollType, RollState
  <1>4. IsTexts(texts) /\ IsTexts(copied)
    BY <1>1, <1>2, <1>3, IndexTextsAre, BackfillTextsAre
  <1>5. \/ index' = index
        \/ index' = Write(index, texts)
        \/ index' \in CutShort(index, texts)
        \/ \E old \in {index, NoFile} :
             index' = Write(old, copied) \/ index' \in CutShort(old, copied)
    BY <1>1, <1>2 DEF RollNext, Writers, OpenReceipt, CloseReceipt, KillWriter, Track, Snapshot,
                Resume, ChainAppend, IndexAppend, Move, Check, CommitRollup, KillRollup, Backfill
  <1>6. CASE index' = Write(index, texts)
    BY <1>3, <1>4, <1>6, Appended
  <1>7. CASE index' \in CutShort(index, texts)
    BY <1>3, <1>4, <1>7, CutAppend
  <1>8. CASE \E old \in {index, NoFile} :
               index' = Write(old, copied) \/ index' \in CutShort(old, copied)
    <2>1. PICK old \in {index, NoFile} :
            index' = Write(old, copied) \/ index' \in CutShort(old, copied)
      BY <1>8
    <2>2. IsFile(old)
      BY <1>3
    <2>3. index' = Write(old, copied) => IsFile(index')
      BY <2>2, <1>4, Appended
    <2>4. index' \in CutShort(old, copied) => IsFile(index')
      BY <2>2, <1>4, CutAppend
    <2> QED BY <2>1, <2>3, <2>4
  <1> QED BY <1>3, <1>5, <1>6, <1>7, <1>8

LEMMA RollTypeInit == RollInit => RollType /\ Listed
  <1>1. SUFFICES ASSUME RollInit PROVE RollType /\ Listed
    OBVIOUS
  <1>2. <<>> \in Seq(Receipt) /\ DOMAIN <<>> = {}
    OBVIOUS
  <1>3. RollType
    BY <1>1, <1>2, NoFileIs DEF RollInit, RollType, RollState, ReceiptState, Idle
  <1>4. Range(roll.list) = {} /\ Range(roll.todo) = {}
    BY <1>1, <1>2 DEF RollInit, Idle, Range
  <1>5. Archive = {}
    BY <1>1 DEF RollInit, Archive
  <1> QED BY <1>3, <1>4, <1>5 DEF Listed

LEMMA RollTypeStep ==
  ASSUME RollType, RollNext
  PROVE  RollType'
  <1>0. /\ receipt \in [Receipt -> ReceiptState] /\ IsFile(chain) /\ IsFile(index)
        /\ IsFile(head.chain) /\ roll \in RollState /\ acts \in Nat /\ mishap \in BOOLEAN
    BY DEF RollType
  <1>1. IsFile(chain') /\ IsFile(index')
    BY ChainStep, IndexStep
  <1>2. IsFile(head'.chain)
    <2>1. head' = head \/ head' = [chain |-> chain, archive |-> Archive]
      BY DEF RollNext, Writers, OpenReceipt, CloseReceipt, KillWriter, Track, Snapshot,
           Resume, ChainAppend, IndexAppend, Move, Check, CommitRollup, KillRollup, Backfill
    <2> QED BY <2>1, <1>0
  <1>3. acts' \in Nat
    <2>1. acts' = acts \/ acts' = acts + 1
      BY DEF RollNext, Writers, OpenReceipt, CloseReceipt, KillWriter, Track, Snapshot,
                Resume, ChainAppend, IndexAppend, Move, Check, CommitRollup, KillRollup, Backfill
    <2> QED BY <2>1, <1>0
  <1>6. mishap' \in BOOLEAN
    BY <1>0 DEF RollNext, Writers, OpenReceipt, CloseReceipt, KillWriter, Track, Snapshot,
                Resume, ChainAppend, IndexAppend, Move, Check, CommitRollup, KillRollup, Backfill
  <1>4. receipt' \in [Receipt -> ReceiptState]
    <2>1. ASSUME NEW f \in Receipt, OpenReceipt(f) \/ CloseReceipt(f) \/ KillWriter(f) \/ Track(f)
          PROVE  receipt' \in [Receipt -> ReceiptState]
      <3>1. receipt[f] \in ReceiptState
        BY <1>0
      <3>2. PICK r \in ReceiptState : receipt' = [receipt EXCEPT ![f] = r]
        <4>1. receipt' = [receipt EXCEPT ![f] = receipt'[f]] /\ receipt'[f] \in ReceiptState
          <5>1. CASE OpenReceipt(f)
            BY <5>1, <3>1, <1>0 DEF OpenReceipt, ReceiptState
          <5>2. CASE CloseReceipt(f)
            BY <5>2, <3>1, <1>0 DEF CloseReceipt, ReceiptState
          <5>3. CASE KillWriter(f)
            BY <5>3, <3>1, <1>0 DEF KillWriter, ReceiptState
          <5>4. CASE Track(f)
            BY <5>4, <3>1, <1>0 DEF Track, ReceiptState
          <5> QED BY <2>1, <5>1, <5>2, <5>3, <5>4
        <4> QED BY <4>1
      <3> QED BY <3>2, <1>0
    <2>2. ASSUME Move PROVE receipt' \in [Receipt -> ReceiptState]
      <3>1. Head(roll.todo) \in Receipt
        BY <2>2, <1>0 DEF Move, RollState
      <3> QED BY <2>2, <3>1, <1>0 DEF Move, ReceiptState
    <2> QED BY <1>0, <2>1, <2>2 DEF RollNext, Writers, Snapshot,
           Resume, ChainAppend, IndexAppend, Check, CommitRollup, KillRollup, Backfill
  <1>5. roll' \in RollState
    <2>1. /\ Over("stopped") \in RollState /\ Over("idle") \in RollState
      <3>1. <<>> \in Seq(Receipt)
        OBVIOUS
      <3> QED BY <3>1, <1>0 DEF Over, Idle, RollState
    <2>2. ASSUME Snapshot PROVE roll' \in RollState
      <3>1. Loose \in SUBSET Receipt
        BY DEF Loose
      <3>2. Sorted(Loose) \in Seq(Receipt)
        BY <3>1, SortedIs
      <3>3. Len(chain.lines) \in Nat /\ Len(index.lines) \in Nat
        BY <1>0 DEF IsFile, FileOver
      <3>4. roll.late \cup {f \in Loose : receipt[f].open} \in SUBSET Receipt
        BY <3>1, <1>0 DEF RollState
      <3> QED BY <2>2, <3>2, <3>3, <3>4, <1>0 DEF Snapshot, RollState
    <2>3. ASSUME Resume PROVE roll' \in RollState
      <3>1. PICK rest : rest = Sorted({roll.list[i] : i \in DOMAIN roll.list} \ Archive)
        OBVIOUS
      <3>2. {roll.list[i] : i \in DOMAIN roll.list} \ Archive \in SUBSET Receipt
        BY <1>0 DEF RollState
      <3>3. rest \in Seq(Receipt)
        BY <3>1, <3>2, SortedIs
      <3>4. roll' = [roll EXCEPT !.pc = IF rest = <<>> THEN "gate" ELSE "chain", !.todo = rest]
        BY <2>3, <3>1 DEF Resume
      <3> QED BY <3>3, <3>4, <1>0 DEF RollState
    <2>4. ASSUME Move PROVE roll' \in RollState
      <3>1. Tail(roll.todo) \in Seq(Receipt)
        BY <2>4, <1>0 DEF Move, RollState
      <3> QED BY <2>1, <2>4, <3>1, <1>0 DEF Move, RollState, Stopped
    <2>5. ASSUME ChainAppend \/ IndexAppend \/ Check \/ CommitRollup \/ KillRollup
          PROVE  roll' \in RollState
      BY <2>1, <2>5, <1>0 DEF ChainAppend, IndexAppend, Check, CommitRollup, KillRollup, RollState, Stopped
    <2> QED BY <1>0, <2>2, <2>3, <2>4, <2>5 DEF RollNext, Writers, OpenReceipt, CloseReceipt,
                                         KillWriter, Track, Backfill
  <1> QED BY <1>1, <1>2, <1>3, <1>4, <1>5, <1>6 DEF RollType

-----------------------------------------------------------------------------
\* A receipt that is settled stays so, and keeps its bytes.
LEMMA ReceiptStep ==
  ASSUME RollType, RollNext
  PROVE  /\ roll.late \subseteq roll.late'
         /\ Archive \subseteq Archive'
         /\ Archive' \subseteq Archive \cup (IF roll.pc = "move" THEN Range(roll.todo) ELSE {})
         /\ \A f \in Receipt : receipt[f].place # "nowhere" => receipt'[f].place # "nowhere"
         /\ \A f \in Receipt : Settled(f) =>
              Settled(f)' /\ (f \in roll'.late \/ receipt'[f].whole = receipt[f].whole)
  <1>0. receipt \in [Receipt -> ReceiptState] /\ roll \in RollState
    BY DEF RollType
  <1>1. roll.late \subseteq roll'.late
    <2>1. Over("stopped").late = roll.late /\ Over("idle").late = roll.late
      BY DEF Over, Idle
    <2>2. Move => roll'.late = roll.late
      BY <1>0, <2>1 DEF Move, Stopped, RollState
    <2>3. ChainAppend \/ IndexAppend \/ Check \/ CommitRollup \/ KillRollup \/ Resume
             => roll'.late = roll.late
      BY <1>0, <2>1 DEF ChainAppend, IndexAppend, Check, CommitRollup, KillRollup, Resume,
                       Stopped, RollState
    <2>4. Snapshot => roll.late \subseteq roll'.late
      BY DEF Snapshot
    <2>5. Writers \/ Backfill => roll' = roll
      BY DEF Writers, OpenReceipt, CloseReceipt, KillWriter, Track, Backfill
    <2> QED BY <2>2, <2>3, <2>4, <2>5 DEF RollNext
  <1>2. \/ receipt' = receipt
        \/ \E f \in Receipt : OpenReceipt(f) \/ CloseReceipt(f) \/ KillWriter(f) \/ Track(f)
        \/ /\ Move /\ Head(roll.todo) \in Receipt /\ Head(roll.todo) \in Range(roll.todo)
           /\ receipt' = [receipt EXCEPT ![Head(roll.todo)].place = "archive"]
    <2>1. ASSUME Move PROVE Head(roll.todo) \in Receipt /\ Head(roll.todo) \in Range(roll.todo)
      <3>1. roll.todo \in Seq(Receipt) /\ roll.todo # <<>>
        BY <2>1, <1>0 DEF Move, RollState
      <3>2. 1 \in DOMAIN roll.todo /\ roll.todo[1] \in Receipt /\ Head(roll.todo) = roll.todo[1]
        BY <3>1
      <3> QED BY <3>2 DEF Range
    <2>2. Move => receipt' = receipt \/ receipt' = [receipt EXCEPT ![Head(roll.todo)].place = "archive"]
      BY DEF Move
    <2>3. Move \/ Writers \/ receipt' = receipt
      BY DEF RollNext, Snapshot, Resume, ChainAppend, IndexAppend, Check, CommitRollup,
             KillRollup, Backfill
    <2> QED BY <2>1, <2>2, <2>3 DEF Writers
  <1> DEFINE Changes(f) ==
         /\ receipt[f].place = "archive" => receipt'[f].place = "archive"
         /\ receipt'[f].place = "archive" =>
              receipt[f].place = "archive" \/ (roll.pc = "move" /\ f \in Range(roll.todo))
         /\ receipt[f].place # "nowhere" => receipt'[f].place # "nowhere"
         /\ receipt[f].place # "nowhere" /\ ~receipt[f].open =>
              ~receipt'[f].open /\ receipt'[f].whole = receipt[f].whole
  <1>3. ASSUME NEW f \in Receipt PROVE Changes(f)
    <2>1. CASE receipt' = receipt
      BY <2>1
    <2>2. ASSUME NEW g \in Receipt, OpenReceipt(g) PROVE Changes(f)
      BY <2>2, <1>0 DEF OpenReceipt, ReceiptState
    <2>3. ASSUME NEW g \in Receipt, CloseReceipt(g) PROVE Changes(f)
      BY <2>3, <1>0 DEF CloseReceipt, ReceiptState
    <2>4. ASSUME NEW g \in Receipt, KillWriter(g) PROVE Changes(f)
      BY <2>4, <1>0 DEF KillWriter, ReceiptState
    <2>5. ASSUME NEW g \in Receipt, Track(g) PROVE Changes(f)
      BY <2>5, <1>0 DEF Track, ReceiptState
    <2>6. ASSUME Move, Head(roll.todo) \in Receipt, Head(roll.todo) \in Range(roll.todo),
                 receipt' = [receipt EXCEPT ![Head(roll.todo)].place = "archive"]
          PROVE  Changes(f)
      <3>1. roll.pc = "move"
        BY <2>6 DEF Move
      <3> QED BY <2>6, <3>1, <1>0 DEF ReceiptState
    <2> HIDE DEF Changes
    <2> QED BY <1>2, <2>1, <2>2, <2>3, <2>4, <2>5, <2>6
  <1>4. \A f \in Receipt : Settled(f) =>
          Settled(f)' /\ (f \in roll'.late \/ receipt'[f].whole = receipt[f].whole)
    BY <1>1, <1>3 DEF Settled
  <1>5. Archive \subseteq Archive'
    BY <1>3 DEF Archive
  <1>6. Archive' \subseteq Archive \cup (IF roll.pc = "move" THEN Range(roll.todo) ELSE {})
    BY <1>3 DEF Archive
  <1> QED BY <1>1, <1>3, <1>4, <1>5, <1>6

\* What is resumed: what the list has and the archive has not.
LEMMA ResumeIs ==
  ASSUME roll \in RollState, Resume
  PROVE  /\ roll'.list = roll.list /\ Range(roll'.todo) = Range(roll.list) \ Archive
         /\ roll'.pc \in {"gate", "chain"} /\ roll.pc = "killed"
         /\ receipt' = receipt /\ chain' = chain /\ index' = index /\ head' = head
  <1>1. PICK rest : rest = Sorted(Range(roll.list) \ Archive)
    OBVIOUS
  <1>2. roll' = [roll EXCEPT !.pc = IF rest = <<>> THEN "gate" ELSE "chain", !.todo = rest]
    BY <1>1 DEF Resume, Range
  <1>3. Range(rest) = Range(roll.list) \ Archive
    <2>1. Range(roll.list) \ Archive \in SUBSET Receipt
      BY DEF RollState, Range
    <2> QED BY <1>1, <2>1, SortedIs
  <1>4. roll'.list = roll.list /\ roll'.todo = rest /\ roll'.pc \in {"gate", "chain"}
    BY <1>2 DEF RollState
  <1> QED BY <1>3, <1>4 DEF Resume

\* What a step makes of the lists.
LEMMA ListStep ==
  ASSUME RollType, RollNext
  PROVE  /\ \/ Snapshot
            \/ Range(roll'.list) \cup Range(roll'.todo) \subseteq Range(roll.list) \cup Range(roll.todo)
         /\ Snapshot => Range(roll'.list) = Loose /\ Range(roll'.todo) = Loose
  <1>0. roll \in RollState
    BY DEF RollType
  <1>1. ASSUME Snapshot PROVE Range(roll'.list) = Loose /\ Range(roll'.todo) = Loose
    <2>1. Loose \in SUBSET Receipt
      BY DEF Loose
    <2>2. roll'.list = Sorted(Loose) /\ roll'.todo = Sorted(Loose)
      BY <1>1 DEF Snapshot
    <2> QED BY <2>1, <2>2, SortedIs
  <1>2. ASSUME Resume
        PROVE  Range(roll'.list) \cup Range(roll'.todo) \subseteq Range(roll.list) \cup Range(roll.todo)
    BY <1>0, <1>2, ResumeIs
  <1>3. Range(<<>>) = {}
    BY DEF Range
  <1>4. ASSUME Move
        PROVE  Range(roll'.list) \cup Range(roll'.todo) \subseteq Range(roll.list) \cup Range(roll.todo)
    <2>1. roll.todo \in Seq(Receipt) /\ roll.todo # <<>>
      BY <1>0, <1>4 DEF Move, RollState
    <2>2. Range(Tail(roll.todo)) \subseteq Range(roll.todo)
      <3>1. \A i \in DOMAIN Tail(roll.todo) : i + 1 \in DOMAIN roll.todo
                                               /\ Tail(roll.todo)[i] = roll.todo[i + 1]
        BY <2>1
      <3> QED BY <3>1 DEF Range
    <2>3. \/ roll'.list = <<>> /\ roll'.todo = <<>>
          \/ roll'.list = roll.list /\ roll'.todo = Tail(roll.todo)
      BY <1>0, <1>4 DEF Move, Stopped, Over, Idle, RollState
    <2> QED BY <2>2, <2>3, <1>3
  <1>5. \/ Snapshot \/ Resume \/ Move
        \/ roll'.list = <<>> /\ roll'.todo = <<>>
        \/ roll'.list = roll.list /\ roll'.todo = roll.todo
    BY <1>0 DEF RollNext, Writers, OpenReceipt, CloseReceipt, KillWriter, Track, ChainAppend,
                IndexAppend, Check, CommitRollup, KillRollup, Backfill, Stopped, Over, Idle, RollState
  <1> QED BY <1>1, <1>2, <1>3, <1>4, <1>5

LEMMA ListedStep ==
  ASSUME RollType, Listed, RollNext
  PROVE  Listed'
  <1>0. receipt \in [Receipt -> ReceiptState] /\ roll \in RollState
    BY DEF RollType
  <1>1. ASSUME NEW f \in Receipt, Settled(f) PROVE Settled(f)'
    BY <1>1, ReceiptStep
  <1>2. Range(roll.list) \subseteq Receipt /\ Range(roll.todo) \subseteq Receipt /\ Archive \subseteq Receipt
    BY <1>0 DEF RollState, Range, Archive
  <1>3. \A f \in Range(roll.list) \cup Range(roll.todo) \cup Archive : Settled(f)'
    BY <1>1, <1>2 DEF Listed
  <1>4. Archive' \subseteq Archive \cup Range(roll.todo)
    BY ReceiptStep
  <1>5. ASSUME Snapshot, NEW f \in Loose PROVE Settled(f)'
    <2>1. f \in Receipt /\ receipt[f].place = "loose" /\ receipt' = receipt
      BY <1>5 DEF Snapshot, Loose
    <2>2. receipt[f].open => f \in roll'.late
      BY <1>5 DEF Snapshot
    <2> QED BY <2>1, <2>2 DEF Settled
  <1>6. \A f \in Range(roll'.list) \cup Range(roll'.todo) : Settled(f)'
    BY <1>3, <1>5, ListStep
  <1> QED BY <1>3, <1>4, <1>6 DEF Listed

-----------------------------------------------------------------------------
\* An archived receipt, and one that is about to be, has an entry in the chain,
\* if only in a line that does not parse.
HasEntry(file, f) ==
  \E t : HasText(file, t) /\ t # Cut /\ t.name = f
         /\ (f \in roll.late \/ t.sha = receipt[f].whole)
Pending == IF roll.pc \in {"index", "move"} THEN Range(roll.todo) ELSE {}
Chained == \A f \in Archive \cup Pending : HasEntry(chain, f)

LEMMA PendingStep ==
  ASSUME RollType, RollNext
  PROVE  Archive' \cup Pending' \subseteq Archive \cup Pending
            \cup (IF ChainAppend THEN Range(roll.todo) ELSE {})
  <1>0. roll \in RollState
    BY DEF RollType
  <1>1. Archive' \subseteq Archive \cup Pending
    BY ReceiptStep DEF Pending
  <1>2. CASE Move
    <2>1. \/ roll'.pc = "stopped"
          \/ roll'.todo = Tail(roll.todo)
      BY <1>0, <1>2 DEF Move, Stopped, Over, Idle, RollState
    <2>2. Range(Tail(roll.todo)) \subseteq Range(roll.todo)
      <3>1. roll.todo \in Seq(Receipt) /\ roll.todo # <<>>
        BY <1>0, <1>2 DEF Move, RollState
      <3>2. \A i \in DOMAIN Tail(roll.todo) : i + 1 \in DOMAIN roll.todo
                                               /\ Tail(roll.todo)[i] = roll.todo[i + 1]
        BY <3>1
      <3> QED BY <3>2 DEF Range
    <2>3. Pending' \subseteq Pending
      <3>1. roll.pc = "move"
        BY <1>2 DEF Move
      <3> QED BY <2>1, <2>2, <3>1 DEF Pending
    <2> QED BY <1>1, <2>3
  <1>3. CASE ChainAppend
    <2>1. roll'.todo = roll.todo
      BY <1>0, <1>3 DEF ChainAppend, RollState
    <2>2. Pending' \subseteq Range(roll.todo)
      BY <2>1 DEF Pending
    <2> QED BY <1>1, <1>3, <2>2
  <1>4. CASE ~Move /\ ~ChainAppend
    <2>1. \/ roll' = roll
          \/ roll'.pc \in {"chain", "gate", "idle", "stopped", "killed", "commit"}
          \/ roll'.todo = roll.todo /\ roll.pc = "index"
      <3>1. CASE Writers \/ Backfill
        BY <3>1 DEF Writers, OpenReceipt, CloseReceipt, KillWriter, Track, Backfill
      <3>2. CASE Snapshot \/ Resume
        BY <3>2, <1>0, ResumeIs DEF Snapshot
      <3>3. CASE IndexAppend \/ KillRollup
        BY <3>3, <1>0 DEF IndexAppend, KillRollup, RollState
      <3>4. CASE Check \/ CommitRollup
        BY <3>4, <1>0 DEF Check, CommitRollup, Stopped, Over, Idle, RollState
      <3> QED BY <1>4, <3>1, <3>2, <3>3, <3>4 DEF RollNext
    <2>2. Pending' \subseteq Pending
      BY <2>1 DEF Pending
    <2> QED BY <1>1, <2>2
  <1> QED BY <1>2, <1>3, <1>4

LEMMA ChainedStep ==
  ASSUME RollType, Listed, Chained, RollNext
  PROVE  Chained'
  <1>0. /\ receipt \in [Receipt -> ReceiptState] /\ roll \in RollState /\ IsFile(chain)
        /\ roll.todo \in Seq(Receipt)
    BY DEF RollType, RollState
  <1>1. ASSUME NEW f \in Archive \cup Pending PROVE HasEntry(chain, f)'
    <2>1. f \in Receipt /\ Settled(f)
      <3>1. f \in Archive \cup Range(roll.todo)
        BY DEF Pending
      <3>2. f \in Receipt
        BY <3>1, <1>0 DEF Archive, Range
      <3> QED BY <3>1, <3>2 DEF Listed
    <2>2. PICK t : HasText(chain, t) /\ t # Cut /\ t.name = f
                   /\ (f \in roll.late \/ t.sha = receipt[f].whole)
      BY DEF Chained, HasEntry
    <2>3. HasText(chain', t)
      BY <2>2, ChainStep DEF Grown
    <2>4. f \in roll'.late \/ t.sha = receipt'[f].whole
      <3>1. roll.late \subseteq roll'.late
        BY ReceiptStep
      <3>2. f \in roll'.late \/ receipt'[f].whole = receipt[f].whole
        BY <2>1, ReceiptStep
      <3> QED BY <2>2, <3>1, <3>2
    <2> QED BY <2>2, <2>3, <2>4 DEF HasEntry
  <1>2. ASSUME ChainAppend, NEW f \in Range(roll.todo) PROVE HasEntry(chain, f)'
    <2>1. PICK i \in DOMAIN roll.todo : roll.todo[i] = f
      BY DEF Range
    <2>2. f \in Receipt
      BY <1>0, <2>1
    <2>3. PICK texts : texts = ChainTexts(chain, roll.todo, Bytes)
      OBVIOUS
    <2>4. /\ IsTexts(texts) /\ i \in DOMAIN texts
          /\ texts[i].name = f /\ texts[i].sha = Bytes[f] /\ texts[i] # Cut
      BY <1>0, <2>1, <2>3, ChainTextsAre
    <2>5. chain' = Write(chain, texts) /\ receipt' = receipt
      BY <1>2, <2>3 DEF ChainAppend
    <2>6. HasText(chain', texts[i])
      BY <1>0, <2>4, <2>5, Appended
    <2>7. texts[i].sha = receipt'[f].whole
      BY <2>2, <2>4, <2>5 DEF Bytes
    <2> QED BY <2>4, <2>6, <2>7 DEF HasEntry
  <1>3. \A f \in Archive' \cup Pending' : HasEntry(chain, f)'
    BY <1>1, <1>2, PendingStep
  <1> QED BY <1>3 DEF Chained

-----------------------------------------------------------------------------
\* What is committed: it verifies, and the chain of the working tree, for as
\* long as it parses, begins with it.
EntryIn(line, f) == \E i \in DOMAIN line : /\ line[i][1].name = f
                                           /\ f \in roll.late \/ line[i][1].sha = receipt[f].whole
Committed ==
  /\ LinksIfParses(chain)
  /\ roll.pc = "commit" => Gate(index, chain)
  /\ Verifies(head.chain)
  /\ AllParse(Lines(chain)) => Within(Lines(head.chain), Lines(chain))
  /\ head.archive \subseteq Archive
  /\ \A f \in head.archive : EntryIn(Lines(head.chain), f)

LEMMA VerifiesIs == \A file : Verifies(file) <=> AllParse(Lines(file)) /\ Linked(Lines(file))
  BY DEF Verifies, AllParse, Linked

LEMMA GateParses == \A idx, chn : Gate(idx, chn) => AllParse(Lines(chn))
  BY DEF Gate, AllParse

\* A line that parses has no text but its first.
LEMMA EntryParses ==
  ASSUME IsFile(chain), AllParse(Lines(chain)), NEW f, HasEntry(chain, f)
  PROVE  EntryIn(Lines(chain), f)
  <1>1. PICK t : HasText(chain, t) /\ t # Cut /\ t.name = f
                 /\ (f \in roll.late \/ t.sha = receipt[f].whole)
    BY DEF HasEntry
  <1>2. PICK i \in DOMAIN Lines(chain) :
          \E j \in DOMAIN Lines(chain)[i] : Lines(chain)[i][j] = t
    BY <1>1 DEF HasText
  <1>3. PICK j \in DOMAIN Lines(chain)[i] : Lines(chain)[i][j] = t
    BY <1>2
  <1>4. Lines(chain)[i][1] = t
    <2>1. PICK S : Lines(chain) \in Seq(Seq(S))
      BY LinesOfFile DEF IsFile
    <2>2. Lines(chain)[i] \in Seq(S)
      BY <2>1
    <2>3. Len(Lines(chain)[i]) = 1
      BY DEF AllParse, Parses
    <2>4. j \in 1 .. 1
      BY <2>2, <2>3, LenProperties
    <2>5. j = 1
      BY <2>4
    <2> QED BY <2>5, <1>3
  <1> QED BY <1>1, <1>4 DEF EntryIn

LEMMA CommitNow ==
  ASSUME RollType, Chained, Committed, CommitRollup
  PROVE  /\ AllParse(Lines(chain)) /\ Verifies(chain)
         /\ head'.chain = chain /\ head'.archive = Archive
         /\ \A f \in Archive : EntryIn(Lines(chain), f)
  <1>1. Gate(index, chain)
    BY DEF Committed, CommitRollup
  <1>2. AllParse(Lines(chain)) /\ Verifies(chain)
    BY <1>1, GateParses, VerifiesIs DEF Committed, LinksIfParses
  <1>3. head'.chain = chain /\ head'.archive = Archive
    BY DEF CommitRollup
  <1>4. IsFile(chain)
    BY DEF RollType
  <1> QED BY <1>2, <1>3, <1>4, EntryParses DEF Chained

LEMMA CommittedStep ==
  ASSUME RollType, Listed, Chained, Committed, RollNext
  PROVE  Committed'
  <1>0. /\ receipt \in [Receipt -> ReceiptState] /\ roll \in RollState
        /\ IsFile(chain) /\ IsFile(head.chain)
    BY DEF RollType
  <1>1. LinksIfParses(chain')
    BY ChainStep DEF Committed
  <1>2. roll'.pc = "commit" => Gate(index', chain')
    <2>1. roll'.pc = "commit" =>
             index' = index /\ chain' = chain /\ (roll.pc = "commit" \/ Gate(index, chain))
      <3>1. CASE Writers
        BY <3>1 DEF Writers, OpenReceipt, CloseReceipt, KillWriter, Track
      <3>2. CASE Snapshot \/ Resume \/ ChainAppend \/ IndexAppend \/ KillRollup
        BY <3>2, <1>0, ResumeIs DEF Snapshot, ChainAppend, IndexAppend, KillRollup, RollState
      <3>3. CASE Move \/ CommitRollup
        BY <3>3, <1>0 DEF Move, CommitRollup, Stopped, Over, Idle, RollState
      <3>4. CASE Check
        <4>1. index' = index /\ chain' = chain /\ (Checks => Gate(index, chain))
          BY <3>4 DEF Check, Checks
        <4>2. ~Checks => roll'.pc = "stopped"
          BY <3>4 DEF Check, Stopped, Over, Idle
        <4> QED BY <4>1, <4>2
      <3>5. CASE Backfill
        BY <3>5 DEF Backfill, AtRest
      <3> QED BY <3>1, <3>2, <3>3, <3>4, <3>5 DEF RollNext
    <2> QED BY <2>1 DEF Committed
  <1>3. head' = head \/ CommitRollup
    BY DEF RollNext, Writers, OpenReceipt, CloseReceipt, KillWriter, Track, Snapshot,
           Resume, ChainAppend, IndexAppend, Move, Check, KillRollup, Backfill
  <1>4. Len(Lines(chain)) \in Nat
    BY <1>0, LinesOfFile, LenProperties DEF IsFile
  <1>5. CASE head' = head
    <2>1. ASSUME AllParse(Lines(chain')) PROVE Within(Lines(head.chain), Lines(chain'))
      <3>1. AllParse(Lines(chain)) /\ Within(Lines(chain), Lines(chain'))
        BY <2>1, ChainStep DEF Grown
      <3>2. Within(Lines(head.chain), Lines(chain))
        BY <3>1 DEF Committed
      <3> QED BY <1>0, <3>1, <3>2, ChainStep, WithinTwice
    <2>2. head.archive \subseteq Archive'
      BY ReceiptStep DEF Committed
    <2>3. ASSUME NEW f \in head.archive PROVE EntryIn(Lines(head.chain), f)'
      <3>1. f \in Archive /\ EntryIn(Lines(head.chain), f)
        BY DEF Committed
      <3>2. f \in Receipt /\ Settled(f)
        BY <3>1 DEF Archive, Listed
      <3>3. roll.late \subseteq roll'.late
        BY ReceiptStep
      <3>4. f \in roll'.late \/ receipt'[f].whole = receipt[f].whole
        BY <3>2, ReceiptStep
      <3> QED BY <1>5, <3>1, <3>3, <3>4 DEF EntryIn
    <2> QED BY <1>1, <1>2, <1>5, <2>1, <2>2, <2>3 DEF Committed
  <1>6. CASE CommitRollup
    <2>1. chain' = chain /\ receipt' = receipt /\ roll'.late = roll.late
      BY <1>6, <1>0 DEF CommitRollup, Over, Idle
    <2>2. /\ Verifies(chain) /\ head'.chain = chain /\ head'.archive = Archive
          /\ \A f \in Archive : EntryIn(Lines(chain), f)
      BY <1>6, CommitNow
    <2>3. Within(Lines(chain), Lines(chain))
      BY <1>4 DEF Within
    <2>4. Archive' = Archive
      BY <2>1 DEF Archive
    <2>5. \A f \in Archive : EntryIn(Lines(head.chain), f)'
      BY <2>1, <2>2 DEF EntryIn
    <2> QED BY <1>1, <1>2, <2>1, <2>2, <2>3, <2>4, <2>5 DEF Committed
  <1> QED BY <1>3, <1>5, <1>6

-----------------------------------------------------------------------------
\* As long as nothing was cut short: an append of receipts that are not named
\* yet leaves a clean file clean.
LEMMA CleanJoin ==
  ASSUME NEW file, IsFile(file), Clean(file), NEW texts, IsTexts(texts),
         NEW names \in Seq(Receipt), DOMAIN texts = DOMAIN names,
         \A k \in DOMAIN names : texts[k] # Cut /\ texts[k].name = names[k],
         \A i, j \in DOMAIN names : names[i] = names[j] => i = j,
         NameSet(file.lines) \cap Range(names) = {},
         NEW new, new = Write(file, texts)
  PROVE  Clean(new) /\ NameSet(new.lines) = NameSet(file.lines) \cup Range(names)
  <1>1. PICK old, line : old = file.lines /\ line = new.lines
    OBVIOUS
  <1>2. PICK n \in Nat, m \in Nat : n = Len(old) /\ m = Len(texts)
    BY <1>1, LenProperties DEF IsFile, FileOver, IsTexts
  <1>3. DOMAIN old = 1 .. n /\ DOMAIN names = 1 .. m
    BY <1>1, <1>2, LenProperties DEF IsFile, FileOver, IsTexts
  <1>4. /\ new.tail = <<>> /\ DOMAIN line = 1 .. n + m
        /\ \A i \in 1 .. n : line[i] = old[i]
        /\ \A k \in 1 .. m : line[n + k] = <<texts[k]>>
    <2>0. file.tail = <<>>
      BY DEF Clean
    <2>1. new.tail = <<>>
      BY <2>0, CleanAppend
    <2>5. Len(new.lines) = Len(file.lines) + Len(texts)
      BY <2>0, CleanAppend
    <2>2. DOMAIN new.lines = 1 .. Len(new.lines)
      BY <2>0, CleanAppend
    <2>3. \A i \in 1 .. Len(file.lines) : new.lines[i] = file.lines[i]
      BY <2>0, CleanAppend
    <2>4. \A k \in 1 .. Len(texts) : new.lines[Len(file.lines) + k] = <<texts[k]>>
      BY <2>0, CleanAppend
    <2> QED BY <2>1, <2>2, <2>3, <2>4, <2>5, <1>1, <1>2
  <1>5. ASSUME NEW k \in 1 .. m
        PROVE  /\ n + k \in DOMAIN line /\ line[n + k][1].name = names[k] /\ Parses(line[n + k])
    <2>1. Len(<<texts[k]>>) = 1 /\ <<texts[k]>>[1] = texts[k]
      OBVIOUS
    <2>2. texts[k] # Cut /\ texts[k].name = names[k]
      BY <1>3
    <2>3. Parses(<<texts[k]>>) /\ <<texts[k]>>[1].name = names[k]
      BY <2>1, <2>2 DEF Parses
    <2>4. line[n + k] = <<texts[k]>> /\ n + k \in 1 .. n + m
      BY <1>4
    <2> QED BY <2>3, <2>4, <1>4
  <1>6. \A i \in 1 .. n : i \in DOMAIN line /\ line[i] = old[i] /\ Parses(old[i])
    BY <1>1, <1>3, <1>4 DEF Clean, AllParse
  <1>7. \A i \in 1 .. n + m : i \in 1 .. n \/ \E k \in 1 .. m : i = n + k
    <2> TAKE i \in 1 .. n + m
    <2>1. i \notin 1 .. n => i - n \in 1 .. m /\ i = n + (i - n)
      OBVIOUS
    <2> QED BY <2>1
  <1>8. AllParse(line)
    <2> SUFFICES ASSUME NEW i \in 1 .. n + m PROVE Parses(line[i])
      BY <1>4 DEF AllParse
    <2>1. i \in 1 .. n => Parses(line[i])
      BY <1>6
    <2>2. (\E k \in 1 .. m : i = n + k) => Parses(line[i])
      BY <1>5
    <2> QED BY <2>1, <2>2, <1>7
  <1>9. NameSet(line) = NameSet(old) \cup Range(names)
    <2>1. ASSUME NEW i \in 1 .. n + m PROVE line[i][1].name \in NameSet(old) \cup Range(names)
      <3>1. i \in 1 .. n => line[i][1].name \in NameSet(old)
        BY <1>3, <1>6 DEF NameSet
      <3>2. ASSUME NEW k \in 1 .. m, i = n + k PROVE line[i][1].name \in Range(names)
        BY <3>2, <1>3, <1>5 DEF Range
      <3> QED BY <3>1, <3>2, <1>7
    <2>2. ASSUME NEW i \in 1 .. n PROVE old[i][1].name \in NameSet(line)
      BY <1>6 DEF NameSet
    <2>3. ASSUME NEW k \in 1 .. m PROVE names[k] \in NameSet(line)
      BY <1>5 DEF NameSet
    <2>4. NameSet(line) \subseteq NameSet(old) \cup Range(names)
      BY <2>1, <1>4 DEF NameSet
    <2>5. NameSet(old) \subseteq NameSet(line)
      BY <2>2, <1>3 DEF NameSet
    <2>6. Range(names) \subseteq NameSet(line)
      BY <2>3, <1>3 DEF Range
    <2> QED BY <2>4, <2>5, <2>6
  <1>10. DistinctNames(line)
    <2> DEFINE NameAt(i) == line[i][1].name
    <2>1. \A i, j \in 1 .. n : NameAt(i) = NameAt(j) => i = j
      <3>1. \A i, j \in 1 .. n : old[i][1].name = old[j][1].name => i = j
        BY <1>1, <1>3 DEF Clean, DistinctNames
      <3>2. \A i \in 1 .. n : line[i] = old[i]
        BY <1>6
      <3> QED BY <3>1, <3>2
    <2>2. \A k, l \in 1 .. m : NameAt(n + k) = NameAt(n + l) => k = l
      BY <1>3, <1>5
    <2>3. ASSUME NEW i \in 1 .. n, NEW k \in 1 .. m PROVE NameAt(i) # NameAt(n + k)
      <3>1. NameAt(i) \in NameSet(old)
        BY <1>3, <1>6 DEF NameSet
      <3>2. NameAt(n + k) \in Range(names)
        BY <1>3, <1>5 DEF Range
      <3> QED BY <3>1, <3>2, <1>1
    <2> HIDE DEF NameAt
    <2>4. ASSUME NEW i \in 1 .. n + m, NEW j \in 1 .. n + m, NameAt(i) = NameAt(j) PROVE i = j
      <3>1. CASE i \in 1 .. n /\ j \in 1 .. n
        BY <3>1, <2>1, <2>4
      <3>2. ASSUME NEW k \in 1 .. m, NEW l \in 1 .. m, i = n + k, j = n + l PROVE i = j
        BY <3>2, <2>2, <2>4
      <3>3. ASSUME i \in 1 .. n, NEW l \in 1 .. m, j = n + l PROVE FALSE
        BY <3>3, <2>3, <2>4
      <3>4. ASSUME j \in 1 .. n, NEW k \in 1 .. m, i = n + k PROVE FALSE
        BY <3>4, <2>3, <2>4
      <3> QED BY <3>1, <3>2, <3>3, <3>4, <1>7
    <2> USE DEF NameAt
    <2>5. \A i, j \in 1 .. n + m : line[i][1].name = line[j][1].name => i = j
      BY <2>4
    <2> QED BY <2>5, <1>4 DEF DistinctNames
  <1> QED BY <1>1, <1>4, <1>8, <1>9, <1>10 DEF Clean

\* Two clean files that agree line by line name the same.
LEMMA GateNames ==
  ASSUME NEW a, NEW b, IsFile(a), IsFile(b), a.tail = <<>>, b.tail = <<>>, Gate(a, b)
  PROVE  NameSet(a.lines) = NameSet(b.lines)
  <1>1. Lines(a) = a.lines /\ Lines(b) = b.lines
    BY LinesOfFile DEF IsFile
  <1>2. DOMAIN a.lines = DOMAIN b.lines
    BY <1>1, LenProperties DEF Gate, IsFile, FileOver
  <1>3. \A i \in DOMAIN a.lines : a.lines[i][1].name = b.lines[i][1].name
    BY <1>1 DEF Gate
  <1> QED BY <1>2, <1>3 DEF NameSet

-----------------------------------------------------------------------------
\* The four agree between the commands of a rollup that was never disturbed.
Quiet ==
  ~mishap =>
    /\ roll.pc \notin {"stopped", "killed"}
    /\ Clean(chain) /\ Clean(index)
    /\ roll.pc \in {"idle", "chain", "commit"} => Gate(index, chain)
    /\ roll.pc = "index" => NameSet(index.lines) \subseteq Archive
    /\ NameSet(chain.lines) = Archive \cup Pending
    /\ roll.pc \in {"idle", "chain"} => head.chain = chain
    /\ roll.pc \in {"chain", "index", "move"} =>
         /\ Range(roll.todo) \subseteq Loose
         /\ \A i, j \in DOMAIN roll.todo : roll.todo[i] = roll.todo[j] => i = j

LEMMA QuietWriters ==
  ASSUME RollType, Quiet, Writers
  PROVE  Quiet'
  <1>0. receipt \in [Receipt -> ReceiptState]
    BY DEF RollType
  <1>1. PICK f \in Receipt : OpenReceipt(f) \/ CloseReceipt(f) \/ KillWriter(f) \/ Track(f)
    BY DEF Writers
  <1>2. /\ chain' = chain /\ index' = index /\ head' = head /\ roll' = roll /\ mishap' = mishap
    BY <1>1 DEF OpenReceipt, CloseReceipt, KillWriter, Track
  <1>3. \A g \in Receipt : \/ receipt'[g].place = receipt[g].place
                           \/ receipt[g].place = "nowhere" /\ receipt'[g].place = "loose"
    <2>1. CASE OpenReceipt(f)
      BY <1>0, <2>1 DEF OpenReceipt, ReceiptState
    <2>2. CASE CloseReceipt(f)
      BY <1>0, <2>2 DEF CloseReceipt, ReceiptState
    <2>3. CASE KillWriter(f)
      BY <1>0, <2>3 DEF KillWriter, ReceiptState
    <2>4. CASE Track(f)
      BY <1>0, <2>4 DEF Track, ReceiptState
    <2> QED BY <1>1, <2>1, <2>2, <2>3, <2>4
  <1>4. Archive' = Archive /\ Loose \subseteq Loose' /\ Pending' = Pending
    BY <1>2, <1>3 DEF Archive, Loose, Pending
  <1> QED BY <1>2, <1>4 DEF Quiet

LEMMA QuietChainAppend ==
  ASSUME RollType, Quiet, ~mishap, ChainAppend
  PROVE  Quiet'
  <1>0. /\ roll \in RollState /\ IsFile(chain) /\ IsFile(index) /\ roll.todo \in Seq(Receipt)
        /\ roll.pc = "chain"
    BY DEF RollType, RollState, ChainAppend
  <1>1. PICK texts : texts = ChainTexts(chain, roll.todo, Bytes)
    OBVIOUS
  <1>2. chain' = Write(chain, texts)
    BY <1>1 DEF ChainAppend
  <1>3. /\ IsTexts(texts) /\ DOMAIN texts = DOMAIN roll.todo
        /\ \A k \in DOMAIN roll.todo : texts[k] # Cut /\ texts[k].name = roll.todo[k]
    BY <1>0, <1>1, ChainTextsAre
  <1>4. /\ Clean(chain) /\ Clean(index) /\ Gate(index, chain) /\ NameSet(chain.lines) = Archive
        /\ Range(roll.todo) \subseteq Loose
        /\ \A i, j \in DOMAIN roll.todo : roll.todo[i] = roll.todo[j] => i = j
    BY <1>0 DEF Quiet, Pending
  <1>5. NameSet(chain.lines) \cap Range(roll.todo) = {}
    BY <1>4 DEF Loose, Archive
  <1>6. Clean(chain') /\ NameSet(chain'.lines) = Archive \cup Range(roll.todo)
    <2>1. PICK names : names = roll.todo
      OBVIOUS
    <2>2. PICK new : new = Write(chain, texts)
      OBVIOUS
    <2>3. names \in Seq(Receipt)
      BY <1>0, <2>1
    <2>4. Clean(new) /\ NameSet(new.lines) = NameSet(chain.lines) \cup Range(names)
      BY <1>0, <1>3, <1>4, <1>5, <2>1, <2>2, <2>3, CleanJoin
    <2> QED BY <2>1, <2>2, <2>4, <1>2, <1>4
  <1>7. NameSet(index.lines) = Archive
    BY <1>0, <1>4, GateNames DEF Clean
  <1>8. /\ roll'.pc = "index" /\ roll'.todo = roll.todo /\ index' = index
        /\ Archive' = Archive /\ Loose' = Loose
    BY <1>0 DEF ChainAppend, RollState, Archive, Loose
  <1>9. Pending' = Range(roll.todo)
    BY <1>8 DEF Pending
  <1> QED BY <1>4, <1>6, <1>7, <1>8, <1>9 DEF Quiet

LEMMA QuietIndexAppend ==
  ASSUME RollType, Quiet, ~mishap, IndexAppend
  PROVE  Quiet'
  <1>0. /\ roll \in RollState /\ IsFile(index) /\ roll.todo \in Seq(Receipt) /\ roll.pc = "index"
    BY DEF RollType, RollState, IndexAppend
  <1>1. PICK texts : texts = IndexTexts(index, roll.todo, Bytes)
    OBVIOUS
  <1>2. index' = Write(index, texts)
    BY <1>1 DEF IndexAppend
  <1>3. /\ IsTexts(texts) /\ DOMAIN texts = DOMAIN roll.todo
        /\ \A k \in DOMAIN roll.todo : texts[k] # Cut /\ texts[k].name = roll.todo[k]
    BY <1>0, <1>1, IndexTextsAre
  <1>4. /\ Clean(chain) /\ Clean(index) /\ NameSet(index.lines) \subseteq Archive
        /\ NameSet(chain.lines) = Archive \cup Range(roll.todo)
        /\ Range(roll.todo) \subseteq Loose
        /\ \A i, j \in DOMAIN roll.todo : roll.todo[i] = roll.todo[j] => i = j
    BY <1>0 DEF Quiet, Pending
  <1>5. NameSet(index.lines) \cap Range(roll.todo) = {}
    BY <1>4 DEF Loose, Archive
  <1>6. Clean(index')
    <2>1. PICK names : names = roll.todo
      OBVIOUS
    <2>2. PICK new : new = Write(index, texts)
      OBVIOUS
    <2>3. names \in Seq(Receipt)
      BY <1>0, <2>1
    <2>4. Clean(new)
      BY <1>0, <1>3, <1>4, <1>5, <2>1, <2>2, <2>3, CleanJoin
    <2> QED BY <2>2, <2>4, <1>2
  <1>8. /\ roll'.pc = "move" /\ roll'.todo = roll.todo /\ chain' = chain
        /\ Archive' = Archive /\ Loose' = Loose
    BY <1>0 DEF IndexAppend, RollState, Archive, Loose
  <1>9. Pending' = Range(roll.todo)
    BY <1>8 DEF Pending
  <1> QED BY <1>4, <1>6, <1>8, <1>9 DEF Quiet

LEMMA QuietMove ==
  ASSUME RollType, Quiet, ~mishap, ~mishap', Move
  PROVE  Quiet'
  <1>0. /\ roll \in RollState /\ receipt \in [Receipt -> ReceiptState]
        /\ roll.todo \in Seq(Receipt) /\ roll.todo # <<>> /\ roll.pc = "move"
    BY DEF RollType, RollState, Move
  <1>1. PICK todo : todo = roll.todo
    OBVIOUS
  <1>2. PICK f \in Receipt, rest \in Seq(Receipt) :
          /\ f = Head(todo) /\ rest = Tail(todo)
          /\ Range(todo) = {f} \cup Range(rest)
          /\ \A i \in DOMAIN rest : i + 1 \in DOMAIN todo /\ rest[i] = todo[i + 1]
          /\ 1 \in DOMAIN todo /\ todo[1] = f
    <2>1. todo \in Seq(Receipt) /\ todo # <<>>
      BY <1>0, <1>1
    <2>2. PICK f \in Receipt, rest \in Seq(Receipt) : f = Head(todo) /\ rest = Tail(todo)
      <3>1. Head(todo) \in Receipt /\ Tail(todo) \in Seq(Receipt)
        BY <2>1
      <3> QED BY <3>1
    <2>3. 1 \in DOMAIN todo /\ todo[1] = f
      BY <2>1, <2>2
    <2>4. \A i \in DOMAIN rest : i + 1 \in DOMAIN todo /\ rest[i] = todo[i + 1]
      BY <2>1, <2>2
    <2>5. \A i \in DOMAIN todo : i = 1 \/ (i - 1 \in DOMAIN rest /\ todo[i] = rest[i - 1])
      <3>1. \A i \in DOMAIN todo : i = 1 \/ (i - 1 \in DOMAIN Tail(todo) /\ todo[i] = Tail(todo)[i - 1])
        BY <2>1
      <3> QED BY <3>1, <2>2
    <2>6. Range(todo) \subseteq {f} \cup Range(rest)
      BY <2>3, <2>5 DEF Range
    <2>7. {f} \cup Range(rest) \subseteq Range(todo)
      BY <2>3, <2>4 DEF Range
    <2> QED BY <2>2, <2>3, <2>4, <2>6, <2>7
  <1>3. /\ receipt' = [receipt EXCEPT ![f].place = "archive"]
        /\ roll' = [roll EXCEPT !.todo = rest, !.pc = IF rest = <<>> THEN "gate" ELSE @]
    BY <1>1, <1>2 DEF Move
  <1>4. /\ chain' = chain /\ index' = index /\ head' = head
        /\ roll'.todo = rest /\ roll'.pc = IF rest = <<>> THEN "gate" ELSE "move"
    BY <1>0, <1>3 DEF Move, RollState
  <1>5. /\ Clean(chain) /\ Clean(index) /\ NameSet(chain.lines) = Archive \cup Range(todo)
        /\ Range(todo) \subseteq Loose
        /\ \A i, j \in DOMAIN todo : todo[i] = todo[j] => i = j
    BY <1>0, <1>1 DEF Quiet, Pending
  <1>6. Archive' = Archive \cup {f} /\ Loose' = Loose \ {f}
    BY <1>0, <1>3 DEF Archive, Loose, ReceiptState
  <1>7. f \notin Range(rest)
    <2>1. ASSUME NEW i \in DOMAIN rest PROVE rest[i] # f
      <3>1. i + 1 # 1
        BY <1>2, LenProperties
      <3> QED BY <3>1, <1>2, <1>5
    <2> QED BY <2>1 DEF Range
  <1>8. \A i, j \in DOMAIN rest : rest[i] = rest[j] => i = j
    <2> TAKE i, j \in DOMAIN rest
    <2>1. i \in Nat /\ j \in Nat
      BY <1>2, LenProperties
    <2>2. rest[i] = rest[j] => i + 1 = j + 1
      BY <1>2, <1>5
    <2> QED BY <2>1, <2>2
  <1>9. Pending' = Range(rest)
    <2>1. rest = <<>> => Range(rest) = {}
      BY DEF Range
    <2> QED BY <2>1, <1>4 DEF Pending
  <1> QED BY <1>2, <1>4, <1>5, <1>6, <1>7, <1>8, <1>9 DEF Quiet

LEMMA QuietBackfill ==
  ASSUME RollType, Committed, Quiet, ~mishap, ~mishap', Backfill
  PROVE  Quiet'
  <1>0. roll.pc = "idle" /\ IsFile(chain) /\ IsFile(index)
    BY DEF RollType, Quiet, Backfill, AtRest
  <1>1. Clean(chain) /\ Lines(chain) = chain.lines
    BY <1>0, LinesOfFile DEF Quiet, Clean, IsFile
  <1>2. Verifies(chain)
    BY <1>1, VerifiesIs DEF Committed, LinksIfParses, Clean
  <1>3. PICK old : old \in {index, NoFile} /\ MayBackfill(old)
                   /\ index' = Write(old, BackfillTexts)
                   /\ ~(Len(BackfillTexts) < Len(Lines(chain)))
    BY DEF Backfill
  <1>4. IsFile(old) /\ Lines(old) = <<>>
    BY <1>0, <1>3, NoFileIs DEF MayBackfill
  <1>5. Len(BackfillTexts) = Len(Lines(chain))
    <2>1. Len(Lines(chain)) \in Nat
      BY <1>0, LinesOfFile, LenProperties DEF IsFile
    <2>2. PICK texts : texts = BackfillTexts
      OBVIOUS
    <2>3. Len(texts) \in 0 .. Len(Lines(chain))
      BY <1>0, <2>2, BackfillTextsAre
    <2> QED BY <2>1, <2>2, <2>3, <1>3
  <1>6. /\ index'.tail = <<>> /\ Gate(index', chain) /\ AllParse(index'.lines)
        /\ DOMAIN index'.lines = DOMAIN Lines(chain)
        /\ \A i \in DOMAIN index'.lines : index'.lines[i][1].name = Lines(chain)[i][1].name
    <2>1. PICK new : new = Write(old, BackfillTexts)
      OBVIOUS
    <2>2. /\ new.tail = <<>> /\ Gate(new, chain) /\ AllParse(new.lines)
          /\ DOMAIN new.lines = DOMAIN Lines(chain)
          /\ \A i \in DOMAIN new.lines : new.lines[i][1].name = Lines(chain)[i][1].name
      BY <1>0, <1>2, <1>4, <1>5, <2>1, BackfillAgrees
    <2> QED BY <2>1, <2>2, <1>3
  <1>7. Clean(index')
    BY <1>1, <1>6 DEF Clean, DistinctNames
  <1>8. chain' = chain /\ head' = head /\ roll' = roll /\ receipt' = receipt
    BY DEF Backfill
  <1>9. Archive' = Archive /\ Pending' = Pending /\ Loose' = Loose
    BY <1>8 DEF Archive, Pending, Loose
  <1> QED BY <1>0, <1>6, <1>7, <1>8, <1>9 DEF Quiet

LEMMA QuietStep ==
  ASSUME RollType, Committed, Quiet, RollNext
  PROVE  Quiet'
  <1>0. roll \in RollState /\ mishap \in BOOLEAN
    BY DEF RollType
  <1>1. SUFFICES ASSUME ~mishap' PROVE Quiet'
    BY DEF Quiet
  <1>2. ~mishap
    BY <1>0, <1>1 DEF RollNext, Writers, OpenReceipt, CloseReceipt, KillWriter, Track, Snapshot,
                Resume, ChainAppend, IndexAppend, Move, Check, CommitRollup, KillRollup, Backfill
  <1>3. CASE Snapshot
    <2>1. /\ roll'.pc = "chain" /\ chain' = chain /\ index' = index /\ head' = head
          /\ receipt' = receipt /\ roll'.todo = Sorted(Loose)
      BY <1>3 DEF Snapshot
    <2>2. roll.pc = "idle"
      BY <1>2, <1>3 DEF Snapshot, Quiet
    <2>3. Loose \in SUBSET Receipt
      BY DEF Loose
    <2>4. PICK todo : todo = Sorted(Loose)
      OBVIOUS
    <2>5. Range(todo) = Loose /\ \A i, j \in DOMAIN todo : todo[i] = todo[j] => i = j
      BY <2>3, <2>4, SortedIs
    <2>6. Pending = {} /\ Pending' = {} /\ Archive' = Archive /\ Loose' = Loose
      BY <2>1, <2>2 DEF Pending, Archive, Loose
    <2> QED BY <1>2, <2>1, <2>2, <2>4, <2>5, <2>6 DEF Quiet
  <1>4. CASE Check
    <2>1. /\ Checks /\ roll' = [roll EXCEPT !.pc = "commit"] /\ roll.pc = "gate"
          /\ chain' = chain /\ index' = index /\ head' = head /\ receipt' = receipt
      BY <1>1, <1>4 DEF Check
    <2>2. roll'.pc = "commit" /\ roll'.todo = roll.todo
      BY <1>0, <2>1 DEF RollState
    <2>3. Gate(index, chain)
      BY <2>1 DEF Checks
    <2>4. Pending = {} /\ Pending' = {} /\ Archive' = Archive
      BY <2>1, <2>2 DEF Pending, Archive
    <2> QED BY <1>2, <2>1, <2>2, <2>3, <2>4 DEF Quiet
  <1>5. CASE CommitRollup
    <2>1. /\ roll.pc = "commit" /\ chain' = chain /\ index' = index
          /\ receipt' = receipt /\ head'.chain = chain /\ roll'.pc = "idle"
      BY <1>5 DEF CommitRollup, Over, Idle
    <2>2. Pending = {} /\ Pending' = {} /\ Archive' = Archive
      BY <2>1 DEF Pending, Archive
    <2> QED BY <1>2, <2>1, <2>2 DEF Quiet
  <1>6. ~KillRollup
    BY <1>1 DEF KillRollup
  <1>7. ~Resume
    BY <1>2 DEF Resume, Quiet
  <1>8. CASE Writers
    BY <1>8, QuietWriters
  <1>9. CASE ChainAppend
    BY <1>2, <1>9, QuietChainAppend
  <1>10. CASE IndexAppend
    BY <1>2, <1>10, QuietIndexAppend
  <1>11. CASE Move
    BY <1>1, <1>2, <1>11, QuietMove
  <1>12. CASE Backfill
    BY <1>1, <1>2, <1>12, QuietBackfill
  <1> QED BY <1>3, <1>4, <1>5, <1>6, <1>7, <1>8, <1>9, <1>10, <1>11, <1>12 DEF RollNext

-----------------------------------------------------------------------------
\* The report.
ReportOver(R) == [pc : {"off", "list", "merged", "gate", "done"}, rows : Seq(R),
                  loose : SUBSET Receipt, before : SUBSET Receipt,
                  tree : {"none", "VALID", "INVALID"}, anchored : {"none", "VALID", "INVALID"},
                  agreement : {"none", "VALID", "DRIFT"}, mishap : BOOLEAN]
IsReport == \E R : report \in ReportOver(R)

RowsDistinct(rows) ==
  \A i, j \in DOMAIN rows :
    rows[i] # Unreadable /\ rows[j] # Unreadable /\ rows[i].name = rows[j].name => i = j

Merges ==
  report.pc \in {"list", "merged"} =>
    /\ report.before \subseteq Named(report.rows) \cup Archive
                               \cup (IF report.pc = "list" THEN Loose ELSE report.loose)
    /\ ~mishap => RowsDistinct(report.rows)
Alarms ==
  /\ report.pc \in {"gate", "done"} => ("INVALID" \in {report.tree, report.anchored} => mishap)
  /\ report.pc = "done" =>
       ("INVALID" \in {report.tree, report.anchored} \/ report.agreement = "DRIFT" => report.mishap)

RollInv == RollType /\ Listed /\ Chained /\ Committed /\ Quiet
DashInv == RollInv /\ IsReport /\ Merges /\ Alarms

LEMMA RollInvInit == RollInit => RollInv
  <1>1. SUFFICES ASSUME RollInit PROVE RollInv
    OBVIOUS
  <1>2. RollType /\ Listed
    BY <1>1, RollTypeInit
  <1>3. /\ chain = NoFile /\ index = NoFile /\ head.chain = NoFile /\ head.archive = {}
        /\ roll.pc = "idle" /\ Archive = {}
    BY <1>1 DEF RollInit, Idle, Archive
  <1>4. Lines(NoFile) = <<>> /\ DOMAIN <<>> = {} /\ Len(<<>>) = 0 /\ NoFile.lines = <<>>
        /\ NoFile.tail = <<>>
    BY NoFileIs
  <1>5. Pending = {} /\ NameSet(<<>>) = {} /\ AllParse(<<>>) /\ Linked(<<>>) /\ DistinctNames(<<>>)
        /\ Within(<<>>, <<>>)
    BY <1>3, <1>4 DEF Pending, NameSet, AllParse, Linked, DistinctNames, Within
  <1>6. Gate(NoFile, NoFile) /\ Verifies(NoFile)
    BY <1>4 DEF Gate, Verifies
  <1>7. Chained
    BY <1>3, <1>5 DEF Chained
  <1>8. Committed
    BY <1>3, <1>4, <1>5, <1>6 DEF Committed, LinksIfParses
  <1>9. Quiet
    BY <1>3, <1>4, <1>5, <1>6 DEF Quiet, Clean
  <1> QED BY <1>2, <1>7, <1>8, <1>9 DEF RollInv

LEMMA RollInvStep == RollInv /\ RollNext => RollInv'
  BY RollTypeStep, ListedStep, ChainedStep, CommittedStep, QuietStep DEF RollInv

\* What no step but a rollup's own changes.
LEMMA RollInvKept ==
  ASSUME RollInv, acts' \in Nat, receipt' = receipt, chain' = chain, index' = index,
         head' = head, roll' = roll, mishap' = mishap
  PROVE  RollInv'
  <1>1. Archive' = Archive /\ Loose' = Loose /\ Pending' = Pending
    BY DEF Archive, Loose, Pending
  <1>2. RollType'
    BY DEF RollInv, RollType
  <1>3. Listed'
    BY <1>1 DEF RollInv, Listed, Settled
  <1>4. Chained'
    BY <1>1 DEF RollInv, Chained, HasEntry
  <1>5. Committed'
    BY <1>1 DEF RollInv, Committed, EntryIn
  <1>6. Quiet'
    BY <1>1 DEF RollInv, Quiet
  <1> QED BY <1>2, <1>3, <1>4, <1>5, <1>6 DEF RollInv

LEMMA MishapStays == mishap /\ RollNext => mishap'
  BY DEF RollNext, Writers, OpenReceipt, CloseReceipt, KillWriter, Track, Snapshot, Resume,
         ChainAppend, IndexAppend, Move, Check, CommitRollup, KillRollup, Backfill

\* The chain, the index and what is committed, while nothing was disturbed.
LEMMA QuietFacts ==
  ASSUME RollInv, ~mishap
  PROVE  /\ Lines(chain) = chain.lines /\ Lines(index) = index.lines
         /\ AllParse(Lines(chain)) /\ AllParse(Lines(index))
         /\ DistinctNames(Lines(chain)) /\ DistinctNames(Lines(index))
         /\ Verifies(chain)
         /\ AtRest => roll.pc = "idle" /\ Gate(index, chain)
  <1>1. Clean(chain) /\ Clean(index) /\ IsFile(chain) /\ IsFile(index)
    BY DEF RollInv, Quiet, RollType
  <1>2. Lines(chain) = chain.lines /\ Lines(index) = index.lines
    BY <1>1, LinesOfFile DEF Clean, IsFile
  <1>3. Verifies(chain)
    BY <1>1, <1>2, VerifiesIs DEF Clean, RollInv, Committed, LinksIfParses
  <1>4. AtRest => roll.pc = "idle" /\ Gate(index, chain)
    BY DEF AtRest, RollInv, Quiet
  <1> QED BY <1>1, <1>2, <1>3, <1>4 DEF Clean

LEMMA ReportRoll ==
  ASSUME RollInv, IsReport, Merges, Alarms, RollNext, report' = report
  PROVE  IsReport' /\ Merges' /\ Alarms'
  <1>0. receipt \in [Receipt -> ReceiptState] /\ receipt' \in [Receipt -> ReceiptState]
    BY RollTypeStep DEF RollInv, RollType
  <1>1. mishap => mishap'
    BY MishapStays
  <1>2. Archive \cup Loose \subseteq Archive' \cup Loose'
    <2>1. \A f \in Receipt : receipt[f].place # "nowhere" => receipt'[f].place # "nowhere"
      BY ReceiptStep DEF RollInv
    <2> QED BY <2>1, <1>0 DEF Archive, Loose, ReceiptState
  <1>3. Archive \subseteq Archive'
    BY ReceiptStep DEF RollInv
  <1>4. Merges'
    BY <1>1, <1>2, <1>3 DEF Merges, Named, RowsDistinct
  <1>5. Alarms'
    BY <1>1 DEF Alarms
  <1> QED BY <1>4, <1>5 DEF IsReport

LEMMA ReportStep ==
  ASSUME RollInv, IsReport, Merges, Alarms, DashStep
  PROVE  RollInv' /\ IsReport' /\ Merges' /\ Alarms'
  <1>0. PICK R : report \in ReportOver(R)
    BY DEF IsReport
  <1>1. <<>> \in Seq(R) /\ Archive \subseteq Receipt /\ Loose \subseteq Receipt /\ mishap \in BOOLEAN
    BY DEF Archive, Loose, RollInv, RollType
  <1>2. CASE LoadIndex
    <2>1. PICK rows : rows = RowsOf(index)
      OBVIOUS
    <2>2. report' = [Blank EXCEPT !.pc = "list", !.rows = rows,
                                  !.before = Loose \cup (Archive \cap Named(rows))]
      BY <1>2, <2>1 DEF LoadIndex
    <2>3. /\ report'.pc = "list" /\ report'.rows = rows
          /\ report'.before = Loose \cup (Archive \cap Named(rows))
          /\ report'.loose = {} /\ report'.tree = "none" /\ report'.anchored = "none"
          /\ report'.agreement = "none" /\ report'.mishap = FALSE
          /\ report' = [pc |-> "list", rows |-> rows, loose |-> {},
                        before |-> Loose \cup (Archive \cap Named(rows)),
                        tree |-> "none", anchored |-> "none", agreement |-> "none", mishap |-> FALSE]
      BY <2>2 DEF Blank
    <2>4. /\ receipt' = receipt /\ chain' = chain /\ index' = index /\ head' = head
          /\ roll' = roll /\ mishap' = mishap /\ acts' \in Nat
      BY <1>2 DEF LoadIndex, RollInv, RollType
    <2>5. RollInv' /\ Archive' = Archive /\ Loose' = Loose
      BY <2>4, RollInvKept DEF Archive, Loose
    <2>6. PICK n \in Nat : DOMAIN Lines(index) = 1 .. n
      BY LinesOfFile, LenProperties DEF RollInv, RollType, IsFile
    <2>7. \E T : rows \in Seq(T)
      <3> DEFINE T == {rows[i] : i \in 1 .. n}
      <3>1. rows \in [1 .. n -> T]
        BY <2>1, <2>6 DEF RowsOf
      <3> HIDE DEF T
      <3> QED BY <3>1, FunctionIsSeq
    <2>8. IsReport'
      <3>1. PICK T : rows \in Seq(T)
        BY <2>7
      <3>2. report' \in ReportOver(T)
        BY <1>1, <2>3, <3>1 DEF ReportOver
      <3> QED BY <3>2 DEF IsReport
    <2>9. ~mishap => RowsDistinct(rows)
      <3>1. SUFFICES ASSUME ~mishap PROVE RowsDistinct(rows)
        OBVIOUS
      <3>2. AllParse(Lines(index)) /\ DistinctNames(Lines(index))
        BY <3>1, QuietFacts
      <3>3. DOMAIN rows = DOMAIN Lines(index) /\ \A i \in DOMAIN rows : rows[i] = Lines(index)[i][1]
        BY <2>1, <3>2 DEF RowsOf, AllParse
      <3> QED BY <3>2, <3>3 DEF RowsDistinct, DistinctNames
    <2>10. Merges'
      BY <2>3, <2>4, <2>5, <2>9 DEF Merges, Named, RowsDistinct
    <2>11. Alarms'
      BY <2>3 DEF Alarms
    <2> QED BY <2>5, <2>8, <2>10, <2>11
  <1>3. ASSUME UNCHANGED rollVars PROVE RollInv' /\ Archive' = Archive /\ Loose' = Loose
    <2>1. /\ receipt' = receipt /\ chain' = chain /\ index' = index /\ head' = head
          /\ roll' = roll /\ mishap' = mishap /\ acts' \in Nat
      BY <1>3 DEF rollVars, RollInv, RollType
    <2> QED BY <2>1, RollInvKept DEF Archive, Loose
  <1>4. CASE ListLoose
    <2>1. UNCHANGED rollVars /\ report.pc = "list"
      BY <1>4 DEF ListLoose
    <2>2. /\ report' \in ReportOver(R) /\ report'.pc = "merged" /\ report'.loose = Loose
          /\ report'.rows = report.rows /\ report'.before = report.before
      BY <1>0, <1>1, <1>4 DEF ListLoose, ReportOver
    <2>3. Merges'
      <3>1. mishap' = mishap
        BY <2>1 DEF rollVars
      <3>2. Archive' = Archive
        BY <1>3, <2>1
      <3> QED BY <2>1, <2>2, <3>1, <3>2 DEF Merges, Named, RowsDistinct
    <2>4. Alarms'
      BY <2>2 DEF Alarms
    <2> QED BY <1>3, <2>1, <2>2, <2>3, <2>4 DEF IsReport
  <1>5. CASE ChainStatus
    <2>1. UNCHANGED rollVars
      BY <1>5 DEF ChainStatus
    <2>2. PICK tree, anchored :
            /\ tree = Verdict(chain)
            /\ anchored = IF chain.there THEN Verdict(head.chain) ELSE "none"
      OBVIOUS
    <2>3. tree \in {"none", "VALID", "INVALID"} /\ anchored \in {"none", "VALID"}
      <3>1. Verifies(head.chain)
        BY DEF RollInv, Committed
      <3> QED BY <2>2, <3>1 DEF Verdict
    <2>4. tree = "INVALID" => mishap
      BY <2>2, QuietFacts DEF Verdict
    <2>5. /\ report' = [pc |-> "gate", rows |-> <<>>, loose |-> {}, before |-> {}, tree |-> tree,
                        anchored |-> anchored, agreement |-> "none", mishap |-> FALSE]
      BY <1>5, <2>2 DEF ChainStatus, Blank
    <2>6. IsReport'
      <3>1. report' \in ReportOver(R)
        BY <1>1, <2>3, <2>5 DEF ReportOver
      <3> QED BY <3>1 DEF IsReport
    <2>7. Merges'
      BY <2>5 DEF Merges
    <2>8. Alarms'
      <3>1. mishap' = mishap
        BY <2>1 DEF rollVars
      <3> QED BY <2>3, <2>4, <2>5, <3>1 DEF Alarms
    <2> QED BY <1>3, <2>1, <2>6, <2>7, <2>8
  <1>6. CASE CoIndexStatus
    <2>1. UNCHANGED rollVars /\ report.pc = "gate"
      BY <1>6 DEF CoIndexStatus
    <2>2. PICK agreement :
            agreement = IF ~(chain.there /\ index.there) THEN "none"
                        ELSE IF Gate(index, chain) THEN "VALID" ELSE "DRIFT"
      OBVIOUS
    <2>3. /\ report' = [report EXCEPT !.pc = "done", !.agreement = agreement,
                                      !.mishap = mishap \/ ~AtRest]
      BY <1>6, <2>2 DEF CoIndexStatus
    <2>4. agreement \in {"none", "VALID", "DRIFT"}
      BY <2>2
    <2>5. agreement = "DRIFT" => mishap \/ ~AtRest
      BY <2>2, QuietFacts
    <2>6. PICK why \in BOOLEAN : why = (mishap \/ ~AtRest)
      OBVIOUS
    <2>7. /\ report' \in ReportOver(R) /\ report'.pc = "done" /\ report'.agreement = agreement
          /\ report'.mishap = why /\ report'.tree = report.tree
          /\ report'.anchored = report.anchored
      BY <1>0, <2>3, <2>4, <2>6 DEF ReportOver
    <2>8. Merges'
      BY <2>7 DEF Merges
    <2>9. Alarms'
      <3>1. mishap' = mishap
        BY <2>1 DEF rollVars
      <3>2. "INVALID" \in {report.tree, report.anchored} => mishap
        BY <2>1 DEF Alarms
      <3> QED BY <2>5, <2>6, <2>7, <3>1, <3>2 DEF Alarms
    <2> QED BY <1>3, <2>1, <2>7, <2>8, <2>9 DEF IsReport
  <1>7. CASE WriteOut
    <2>1. UNCHANGED rollVars /\ report' = Blank
      BY <1>7 DEF WriteOut
    <2>2. report' \in ReportOver(R)
      BY <1>1, <2>1 DEF ReportOver, Blank
    <2>3. Merges' /\ Alarms'
      BY <2>1 DEF Merges, Alarms, Blank
    <2> QED BY <1>3, <2>1, <2>2, <2>3 DEF IsReport
  <1> QED BY <1>2, <1>4, <1>5, <1>6, <1>7 DEF DashStep

LEMMA DashInvInit == DashInit => DashInv
  <1>1. SUFFICES ASSUME DashInit PROVE DashInv
    OBVIOUS
  <1>2. RollInv /\ report = Blank
    BY <1>1, RollInvInit DEF DashInit
  <1>3. IsReport
    <2>1. <<>> \in Seq({})
      OBVIOUS
    <2>2. report \in ReportOver({})
      BY <1>2, <2>1 DEF ReportOver, Blank
    <2> QED BY <2>2 DEF IsReport
  <1>4. Merges /\ Alarms
    BY <1>2 DEF Merges, Alarms, Blank
  <1> QED BY <1>2, <1>3, <1>4 DEF DashInv

LEMMA DashInvStep == DashInv /\ [DashNext]_dashVars => DashInv'
  <1>1. SUFFICES ASSUME DashInv, [DashNext]_dashVars PROVE DashInv'
    OBVIOUS
  <1>2. RollInv /\ IsReport /\ Merges /\ Alarms
    BY <1>1 DEF DashInv
  <1>3. CASE DashStep
    BY <1>2, <1>3, ReportStep DEF DashInv
  <1>4. CASE RollNext /\ UNCHANGED report
    BY <1>2, <1>4, RollInvStep, ReportRoll DEF DashInv
  <1>5. CASE UNCHANGED dashVars
    <2>1. /\ receipt' = receipt /\ chain' = chain /\ index' = index /\ head' = head
          /\ roll' = roll /\ mishap' = mishap /\ acts' = acts /\ report' = report
      BY <1>5 DEF dashVars, rollVars
    <2>2. RollInv'
      BY <1>2, <2>1, RollInvKept DEF RollInv, RollType
    <2>3. Archive' = Archive /\ Loose' = Loose
      BY <2>1 DEF Archive, Loose
    <2>4. IsReport' /\ Merges' /\ Alarms'
      BY <1>2, <2>1, <2>3 DEF IsReport, Merges, Alarms, Named, RowsDistinct
    <2> QED BY <2>2, <2>4 DEF DashInv
  <1> QED BY <1>1, <1>3, <1>4, <1>5 DEF DashNext

LEMMA DashInvAlways == DashSpec => []DashInv
  BY DashInvInit, DashInvStep, PTL DEF DashSpec

-----------------------------------------------------------------------------
\* The chain at HEAD verifies, whatever was killed, cut or resumed: the append
\* of receipt_chain.py looks at no link and the gate looks at none either, but
\* a line that was cut is never mended, so what passes the gate was never cut.
THEOREM CommittedChainVerifies == DashSpec => []CommittedVerifies
  <1>1. DashInv => CommittedVerifies
    BY DEF DashInv, RollInv, Committed, CommittedVerifies
  <1> QED BY <1>1, DashInvAlways, PTL

\* Every receipt that the commit has in the archive is named by a line of the
\* chain beside it, with the hash of its bytes, unless its writer was in it when
\* the rollup listed it.
THEOREM CommittedAsHashed == DashSpec => []ArchivedAsHashed
  <1>1. DashInv => ArchivedAsHashed
    BY DEF DashInv, RollInv, Committed, EntryIn, ArchivedAsHashed
  <1> QED BY <1>1, DashInvAlways, PTL

\* The receipts that a clean file names, counted.
LEMMA NamedOnce ==
  ASSUME RollInv, ~mishap, NEW f
  PROVE  Cardinality({i \in DOMAIN Names(chain) : Names(chain)[i] = f})
           = IF f \in NameSet(chain.lines) THEN 1 ELSE 0
  <1>1. PICK line : line = chain.lines
    OBVIOUS
  <1>2. Lines(chain) = line /\ AllParse(line) /\ DistinctNames(line)
    BY <1>1, QuietFacts
  <1>3. DOMAIN Names(chain) = DOMAIN line /\ \A i \in DOMAIN line : Names(chain)[i] = line[i][1].name
    BY <1>2 DEF Names, Name, AllParse
  <1> DEFINE at == {i \in DOMAIN line : line[i][1].name = f}
  <1>4. {i \in DOMAIN Names(chain) : Names(chain)[i] = f} = at
    BY <1>3
  <1>5. CASE f \in NameSet(line)
    <2>1. PICK i \in DOMAIN line : line[i][1].name = f
      BY <1>5 DEF NameSet
    <2>2. at = {i}
      BY <2>1, <1>2 DEF DistinctNames
    <2>3. Cardinality({i}) = 1
      BY FS_Singleton
    <2> HIDE DEF at
    <2> QED BY <1>1, <1>4, <1>5, <2>2, <2>3
  <1>6. CASE f \notin NameSet(line)
    <2>1. at = {}
      BY <1>6 DEF NameSet
    <2>2. Cardinality({}) = 0
      BY FS_EmptySet
    <2> HIDE DEF at
    <2> QED BY <1>1, <1>4, <1>6, <2>1, <2>2
  <1> QED BY <1>5, <1>6

\* Between rollups, as long as nothing was cut short or stopped, the chain, the
\* index, the archive and HEAD agree, and no receipt is lost or named twice.
THEOREM QuietStaysConsistent == DashSpec => []QuietIsConsistent
  <1>1. DashInv => QuietIsConsistent
    <2>1. SUFFICES ASSUME DashInv, ~mishap, roll.pc = "idle"
                   PROVE  /\ Gate(index, chain) /\ Verifies(chain) /\ head.chain = chain
                          /\ \A f \in Receipt :
                               Cardinality({i \in DOMAIN Names(chain) : Names(chain)[i] = f})
                                 = IF f \in Archive THEN 1 ELSE 0
      BY DEF QuietIsConsistent
    <2>2. RollInv
      BY <2>1 DEF DashInv
    <2>3. /\ Gate(index, chain) /\ head.chain = chain /\ NameSet(chain.lines) = Archive \cup Pending
      BY <2>1, <2>2 DEF RollInv, Quiet
    <2>4. Verifies(chain)
      BY <2>1, <2>2, QuietFacts
    <2>5. Pending = {}
      BY <2>1 DEF Pending
    <2>6. NameSet(chain.lines) = Archive
      BY <2>3, <2>5
    <2>7. ASSUME NEW f \in Receipt
          PROVE  Cardinality({i \in DOMAIN Names(chain) : Names(chain)[i] = f})
                   = IF f \in Archive THEN 1 ELSE 0
      BY <2>1, <2>2, <2>6, NamedOnce
    <2> QED BY <2>3, <2>4, <2>7
  <1> QED BY <1>1, DashInvAlways, PTL

\* receipts_index.backfill: to its end over a chain that verifies and whose
\* receipts are all archived as hashed, it gives an index that passes the gate.
THEOREM BackfillMends == DashSpec => BackfillRepairs
  <1>1. ASSUME DashInv, [DashNext]_dashVars, acts' > acts, chain.there, Verifies(chain),
               \A i \in DOMAIN Lines(chain) : Copied(Lines(chain)[i]),
               index' = Write(NoFile, BackfillTexts)
        PROVE  Gate(index', chain')
    <2>1. acts \in Nat /\ IsFile(chain)
      BY <1>1 DEF DashInv, RollInv, RollType
    <2>2. chain' = chain
      <3>1. acts' # acts
        BY <1>1, <2>1
      <3>2. acts' = acts \/ chain' = chain
        BY <1>1 DEF DashNext, DashStep, LoadIndex, ListLoose, ChainStatus, CoIndexStatus, WriteOut,
                    dashVars, rollVars, RollNext, Writers, OpenReceipt, CloseReceipt, KillWriter,
                    Track, Snapshot, Resume, ChainAppend, IndexAppend, Move, Check, CommitRollup,
                    KillRollup, Backfill
      <3> QED BY <3>1, <3>2
    <2>3. Len(BackfillTexts) = Len(Lines(chain))
      <3>1. PICK texts : texts = BackfillTexts
        OBVIOUS
      <3> QED BY <1>1, <2>1, <3>1, BackfillTextsAre
    <2>4. Gate(Write(NoFile, BackfillTexts), chain)
      <3>1. PICK new : new = Write(NoFile, BackfillTexts)
        OBVIOUS
      <3>2. Gate(new, chain)
        BY <1>1, <2>1, <2>3, <3>1, NoFileIs, BackfillAgrees
      <3> QED BY <3>1, <3>2
    <2> QED BY <1>1, <2>2, <2>4
  <1>2. DashInv /\ [DashNext]_dashVars =>
          [/\ acts' > acts /\ chain.there /\ Verifies(chain)
           /\ \A i \in DOMAIN Lines(chain) : Copied(Lines(chain)[i])
           /\ index' = Write(NoFile, BackfillTexts)
           => Gate(index', chain')]_rollVars
    BY <1>1
  <1> QED BY <1>2, DashInvAlways, PTL DEF DashSpec, BackfillRepairs

\* A rollup's commit is one step of ReceiptLog: the committed chain only grows,
\* nothing leaves the archive, and nothing is archived that the chain does not
\* name, however many commands it took and however often it was killed.
THEOREM RollupCommitsLog == DashSpec => CommittedLog
  <1>1. DashInit => Log!LogInit
    <2>1. SUFFICES ASSUME DashInit PROVE Names(head.chain) = <<>> /\ head.archive = {}
      BY DEF Log!LogInit
    <2>2. Lines(head.chain) = <<>> /\ head.archive = {} /\ DOMAIN <<>> = {}
      BY <2>1, NoFileIs DEF DashInit, RollInit
    <2>3. Names(head.chain) \in [{} -> {}] /\ <<>> \in [{} -> {}]
      BY <2>2 DEF Names
    <2> QED BY <2>2, <2>3
  <1>2. ASSUME DashInv, [DashNext]_dashVars, head' # head PROVE Log!Commit
    <2>1. RollInv /\ RollType /\ Chained /\ Committed
      BY <1>2 DEF DashInv, RollInv
    <2>2. CommitRollup
      BY <1>2 DEF DashNext, DashStep, LoadIndex, ListLoose, ChainStatus, CoIndexStatus, WriteOut,
                  dashVars, rollVars, RollNext, Writers, OpenReceipt, CloseReceipt, KillWriter,
                  Track, Snapshot, Resume, ChainAppend, IndexAppend, Move, Check, KillRollup, Backfill
    <2>3. /\ AllParse(Lines(chain)) /\ head'.chain = chain /\ head'.archive = Archive
          /\ \A f \in Archive : EntryIn(Lines(chain), f)
      BY <2>1, <2>2, CommitNow
    <2>4. Within(Lines(head.chain), Lines(chain)) /\ head.archive \subseteq Archive
      BY <2>1, <2>3 DEF Committed
    <2>5. PICK old, new : old = Lines(head.chain) /\ new = Lines(chain)
      OBVIOUS
    <2>6. PICK m \in Nat, n \in Nat : /\ DOMAIN old = 1 .. m /\ Len(old) = m
                                      /\ DOMAIN new = 1 .. n /\ Len(new) = n
      BY <2>1, <2>5, LinesOfFile, LenProperties DEF RollType, IsFile
    <2>7. m <= n /\ \A i \in 1 .. m : i \in 1 .. n /\ new[i] = old[i]
      BY <2>4, <2>5, <2>6 DEF Within
    <2>8. PICK log, next : log = Names(head.chain) /\ next = Names(chain)
      OBVIOUS
    <2> DEFINE T == {log[i] : i \in 1 .. m} \cup {next[i] : i \in 1 .. n}
    <2>9. /\ log \in [1 .. m -> T] /\ \A i \in 1 .. m : log[i] = Name(old[i])
          /\ next \in [1 .. n -> T] /\ \A i \in 1 .. n : next[i] = Name(new[i])
      BY <2>5, <2>6, <2>8 DEF Names
    <2> HIDE DEF T
    <2>10. log \in Seq(T) /\ Len(log) = m /\ next \in Seq(T) /\ Len(next) = n
      BY <2>9, FunctionIsSeq
    <2>11. SubSeq(next, 1, m) = log
      <3>1. PICK front : front = SubSeq(next, 1, m)
        OBVIOUS
      <3>2. \A i \in 1 .. m : next[i] \in T
        BY <2>7, <2>9
      <3>3. /\ front \in Seq(T) /\ Len(front) = m
            /\ \A i \in 1 .. m : front[i] = next[i]
        <4>1. /\ SubSeq(next, 1, m) \in Seq(T)
              /\ Len(SubSeq(next, 1, m)) = IF 1 <= m THEN m - 1 + 1 ELSE 0
              /\ \A i \in 1 .. m - 1 + 1 : SubSeq(next, 1, m)[i] = next[1 + i - 1]
          BY <2>10, <3>2, SubSeqProperties
        <4>2. Len(front) = m
          BY <3>1, <4>1
        <4>3. \A i \in 1 .. m : i \in 1 .. m - 1 + 1 /\ 1 + i - 1 = i
          OBVIOUS
        <4> QED BY <3>1, <4>1, <4>2, <4>3
      <3>4. \A i \in 1 .. m : front[i] = log[i]
        BY <2>7, <2>9, <3>3
      <3>5. front = log
        <4>1. front \in [1 .. m -> T]
          BY <3>3, LenProperties
        <4> QED BY <4>1, <3>4, <2>9
      <3> QED BY <3>1, <3>5
    <2>12. Log!Extends(next, log)
      BY <2>7, <2>10, <2>11 DEF Log!Extends
    <2>13. ASSUME NEW f \in Archive PROVE \E i \in DOMAIN next : next[i] = f
      <3>1. PICK i \in DOMAIN new : new[i][1].name = f
        BY <2>3, <2>5 DEF EntryIn
      <3>2. Parses(new[i])
        BY <2>3, <2>5 DEF AllParse
      <3>3. next[i] = f /\ i \in DOMAIN next
        BY <3>1, <3>2, <2>6, <2>9 DEF Name
      <3> QED BY <3>3
    <2>14. Names(head'.chain) = next
      BY <2>3, <2>8 DEF Names, Lines
    <2> QED BY <2>3, <2>4, <2>8, <2>12, <2>13, <2>14 DEF Log!Commit
  <1>3. DashInv /\ [DashNext]_dashVars => [Log!Commit]_(Log!logVars)
    <2>1. ASSUME head' = head PROVE UNCHANGED Log!logVars
      BY <2>1 DEF Log!logVars, Names, Lines
    <2> QED BY <1>2, <2>1
  <1> QED BY <1>1, <1>3, DashInvAlways, PTL DEF DashSpec, CommittedLog, Log!LogSpec

\* merge_runs: a run that the index or the directory had when the report began
\* is shown, unless a rollup has just archived it, and shown twice only where
\* something was cut short or stopped before.
THEOREM UnionStaysJoined == DashSpec => []UnionIsJoined
  <1>1. ASSUME DashInv PROVE UnionIsJoined
    <2>1. SUFFICES ASSUME report.pc = "merged"
                   PROVE  /\ \A f \in report.before : Shown(f) = 0 => f \in Archive
                          /\ \A f \in Receipt : Shown(f) > 1 => IndexRows(f) = Shown(f) /\ mishap
      BY DEF UnionIsJoined
    <2>2. PICK rows : rows = report.rows
      OBVIOUS
    <2>3. PICK n \in Nat : DOMAIN rows = 1 .. n
      BY <1>1, <2>2, LenProperties DEF DashInv, IsReport, ReportOver
    <2>4. /\ report.before \subseteq Named(rows) \cup Archive \cup report.loose
          /\ ~mishap => RowsDistinct(rows)
      BY <1>1, <2>1, <2>2 DEF DashInv, Merges
    <2> DEFINE At(f) == {i \in DOMAIN rows : rows[i] # Unreadable /\ rows[i].name = f}
    <2>5. ASSUME NEW f
          PROVE  /\ IsFiniteSet(At(f)) /\ Cardinality(At(f)) \in Nat
                 /\ Cardinality(At(f)) = 0 <=> At(f) = {}
                 /\ IndexRows(f) = Cardinality(At(f))
                 /\ f \in Named(rows) <=> At(f) # {}
      <3>1. IsFiniteSet(1 .. n)
        BY FS_Interval
      <3>2. At(f) \subseteq 1 .. n
        BY <2>3
      <3>3. IndexRows(f) = Cardinality(At(f))
        BY <2>2 DEF IndexRows
      <3>4. f \in Named(rows) <=> At(f) # {}
        BY DEF Named
      <3> HIDE DEF At
      <3>5. IsFiniteSet(At(f))
        BY <3>1, <3>2, FS_Subset
      <3> QED BY <3>3, <3>4, <3>5, FS_CardinalityType, FS_EmptySet
    <2>6. ASSUME NEW f \in report.before, Shown(f) = 0 PROVE f \in Archive
      <3>1. IndexRows(f) \in Nat /\ TailRow(f) \in {0, 1}
        BY <2>5 DEF TailRow
      <3>2. IndexRows(f) = 0 /\ TailRow(f) = 0
        BY <2>6, <3>1 DEF Shown
      <3>3. f \notin Named(rows)
        BY <3>2, <2>5
      <3>4. f \notin report.loose
        BY <3>2, <3>3, <2>2 DEF TailRow
      <3> QED BY <2>4, <3>3, <3>4
    <2>7. ASSUME NEW f \in Receipt, Shown(f) > 1 PROVE IndexRows(f) = Shown(f) /\ mishap
      <3>1. IndexRows(f) \in Nat /\ TailRow(f) \in {0, 1}
        BY <2>5 DEF TailRow
      <3>2. TailRow(f) = 0
        <4>1. SUFFICES ASSUME TailRow(f) = 1 PROVE FALSE
          BY <3>1
        <4>2. f \notin Named(rows)
          BY <4>1, <2>2 DEF TailRow
        <4>3. IndexRows(f) = 0
          BY <4>2, <2>5
        <4> QED BY <4>1, <4>3, <2>7 DEF Shown
      <3>3. IndexRows(f) = Shown(f) /\ IndexRows(f) > 1
        BY <3>1, <3>2, <2>7 DEF Shown
      <3>4. ASSUME ~mishap PROVE FALSE
        <4>1. PICK i \in At(f) : TRUE
          <5> HIDE DEF At
          <5> QED BY <3>3, <2>5
        <4>2. At(f) = {i}
          BY <2>4, <3>4, <4>1 DEF RowsDistinct
        <4>3. Cardinality({i}) = 1
          BY FS_Singleton
        <4> HIDE DEF At
        <4> QED BY <4>2, <4>3, <3>3, <2>5
      <3> QED BY <1>1, <3>3, <3>4 DEF DashInv, RollInv, RollType
    <2> QED BY <2>6, <2>7
  <1>2. DashInv => UnionIsJoined
    BY <1>1
  <1> QED BY <1>2, DashInvAlways, PTL

\* The chain's cell is red or amber only if something was cut short or stopped,
\* or a rollup was at work.
THEOREM AlarmStaysEarned == DashSpec => []AlarmIsEarned
  <1>1. DashInv => AlarmIsEarned
    BY DEF DashInv, Alarms, AlarmIsEarned, Rail
  <1> QED BY <1>1, DashInvAlways, PTL
=============================================================================
