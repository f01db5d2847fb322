------------------------- MODULE ConformanceProofs --------------------------
(***************************************************************************)
(* What is proved of the readings of a run's stream: of the builder and    *)
(* the verifier, for every stream of any number of calls, cut anywhere;    *)
(* of the watcher, for every such stream of plain text; and of the tree    *)
(* the evidence is published in, for every history of commits.             *)
(*                                                                         *)
(* The argument.  The stream is Sound: a call is named after the calls     *)
(* before it, its parent is an earlier one, and a call has one result.     *)
(* Every part of it is Sound too, the builder's lines and the verifier's.  *)
(* Over a Sound set of calls the two definitions of depth, up the parents  *)
(* and down in rounds, are one, which is the length of a chain of calls.   *)
(* The watcher's tally is that of the lines that end before its offset,    *)
(* and its rest is the beginning of the next: the bytes of the file are    *)
(* those of the stream's lines, position by position.  Of the published    *)
(* tree only types are invariant: a tree that passes has its occurrences   *)
(* embedded in its baseline's, file by file, and evidence without a        *)
(* residue is what doing makes of what undoing gives.                      *)
(***************************************************************************)
EXTENDS Conformance, Publication, DataInduction

-----------------------------------------------------------------------------
\* Events and their kinds.
LEMMA Kinds ==
  ASSUME NEW E \in SUBSET Line
  PROVE  /\ Uses(E) \subseteq UseLine /\ Uses(E) \subseteq E
         /\ \A id : ResultsOf(E, id) \subseteq ResultLine /\ ResultsOf(E, id) \subseteq E
         /\ \A e \in E : /\ e.kind = "use" <=> e \in UseLine
                         /\ e.kind = "result" <=> e \in ResultLine
                         /\ e.kind = "end" <=> e \in EndLine
  <1>1. ASSUME NEW e \in E
        PROVE  /\ e.kind = "use" <=> e \in UseLine
               /\ e.kind = "result" <=> e \in ResultLine
               /\ e.kind = "end" <=> e \in EndLine
    <2>1. CASE e \in UseLine
      BY <2>1 DEF UseLine, ResultLine, EndLine
    <2>2. CASE e \in ResultLine
      BY <2>2 DEF UseLine, ResultLine, EndLine
    <2>3. CASE e \in EndLine
      BY <2>3 DEF UseLine, ResultLine, EndLine
    <2> QED BY <2>1, <2>2, <2>3 DEF Line
  <1> QED BY <1>1 DEF Uses, ResultsOf

LEMMA UseFields ==
  ASSUME NEW u \in UseLine
  PROVE  u.id \in Nat /\ u.id >= 1 /\ u.id <= MaxCalls /\ u.parent \in Nat /\ u.tool \in Tool
  BY StreamAssumption DEF UseLine, Id, Top

-----------------------------------------------------------------------------
(* Calls that can be given depths: told apart by their ids, each made by a   *)
(* delegation before it, and no parent missing.                              *)
Told(uses) == \A u, v \in uses : u.id = v.id => u = v
Later(uses) == \A u \in uses : u.parent # Top => u.parent < u.id
Tree(uses) == uses \in SUBSET UseLine /\ Told(uses) /\ Later(uses) /\ Rooted(uses)

LEMMA SpawnerIs ==
  ASSUME NEW uses, Tree(uses), NEW u \in uses, u.parent # Top
  PROVE  /\ Spawner(uses, u) \in uses /\ Spawner(uses, u).id = u.parent
         /\ Spawner(uses, u).id < u.id
         /\ \A v \in uses : v.id = u.parent => v = Spawner(uses, u)
  <1>1. \E v \in uses : v.id = u.parent
    BY DEF Tree, Rooted
  <1>2. Spawner(uses, u) \in uses /\ Spawner(uses, u).id = u.parent
    BY <1>1 DEF Spawner
  <1>3. u.parent < u.id
    BY DEF Tree, Later
  <1> QED BY <1>2, <1>3 DEF Tree, Told

\* The equation of the builder's recursive function has a solution: one for the
\* calls numbered up to k is extended to those numbered k + 1.
Solves(f, uses, u) ==
  f[u] = IF u.parent = Top THEN 0 ELSE 1 + f[Spawner(uses, u)]
Depths(f, uses) ==
  f = [u \in uses |-> IF u.parent = Top THEN 0 ELSE 1 + f[Spawner(uses, u)]]

LEMMA DepthsExist ==
  ASSUME NEW uses, Tree(uses)
  PROVE  \E f : Depths(f, uses)
  <1> DEFINE Upto(k) == \E f \in [uses -> Nat] : \A u \in uses : u.id <= k => Solves(f, uses, u)
             T == {k \in Nat : Upto(k)}
  <1>1. 0 \in T
    <2> DEFINE f == [u \in uses |-> 0]
    <2>1. f \in [uses -> Nat] /\ \A u \in uses : ~(u.id <= 0)
      BY UseFields DEF Tree
    <2> QED BY <2>1
  <1>2. ASSUME NEW k \in T PROVE k + 1 \in T
    <2>1. k \in Nat /\ k + 1 \in Nat
      OBVIOUS
    <2>2. PICK f \in [uses -> Nat] : \A u \in uses : u.id <= k => Solves(f, uses, u)
      OBVIOUS
    <2> DEFINE At(u) == IF u.parent = Top THEN 0 ELSE 1 + f[Spawner(uses, u)]
               g == [u \in uses |-> IF u.id <= k THEN f[u] ELSE At(u)]
    <2>3. \A u \in uses : At(u) \in Nat
      BY SpawnerIs
    <2>4. g \in [uses -> Nat]
      BY <2>3
    <2>5. ASSUME NEW u \in uses, u.id <= k + 1 PROVE Solves(g, uses, u)
      <3>1. g[u] = At(u)
        BY <2>2 DEF Solves
      <3>2. CASE u.parent = Top
        BY <3>1, <3>2 DEF Solves
      <3>3. CASE u.parent # Top
        <4>1. /\ Spawner(uses, u) \in uses /\ Spawner(uses, u).id < u.id
              /\ Spawner(uses, u).id \in Nat /\ u.id \in Nat
          BY <3>3, SpawnerIs, UseFields DEF Tree
        <4>2. g[Spawner(uses, u)] = f[Spawner(uses, u)]
          BY <4>1, <2>1, <2>5
        <4> QED BY <3>1, <3>3, <4>2 DEF Solves
      <3> QED BY <3>2, <3>3
    <2> HIDE DEF g
    <2> QED BY <2>1, <2>4, <2>5
  <1> HIDE DEF Upto
  <1>3. T = Nat
    BY <1>1, <1>2, SetInduction
  <1>4. Upto(MaxCalls)
    BY <1>3, StreamAssumption
  <1>5. PICK f \in [uses -> Nat] : \A u \in uses : u.id <= MaxCalls => Solves(f, uses, u)
    BY <1>4 DEF Upto
  <1>6. \A u \in uses : Solves(f, uses, u)
    BY <1>5, UseFields DEF Tree
  <1>7. Depths(f, uses)
    BY <1>6 DEF Depths, Solves
  <1> QED BY <1>7

\* A depth is a number below the call's own, and grows with every parent.
LEMMA DepthIs ==
  ASSUME NEW uses, Tree(uses)
  PROVE  /\ DepthByChain(uses) \in [uses -> Nat]
         /\ \A u \in uses : Solves(DepthByChain(uses), uses, u) /\ DepthByChain(uses)[u] < u.id
  <1> DEFINE D == DepthByChain(uses)
  <1>1. D = CHOOSE f : Depths(f, uses)
    BY DEF DepthByChain, Depths
  <1>2. Depths(D, uses)
    BY <1>1, DepthsExist
  <1>3. D = [u \in uses |-> IF u.parent = Top THEN 0 ELSE 1 + D[Spawner(uses, u)]]
    BY <1>2 DEF Depths
  <1> HIDE DEF D
  <1>4. \A u \in uses : Solves(D, uses, u)
    BY <1>3 DEF Solves
  <1> DEFINE Low(u) == D[u] \in Nat /\ D[u] < u.id
             T == {k \in Nat : \A u \in uses : u.id <= k => Low(u)}
  <1>5. 0 \in T
    BY UseFields DEF Tree
  <1>6. ASSUME NEW k \in T PROVE k + 1 \in T
    <2>1. ASSUME NEW u \in uses, u.id <= k + 1 PROVE Low(u)
      <3>1. u.id \in Nat /\ u.id >= 1 /\ k \in Nat
        BY UseFields DEF Tree
      <3>2. CASE u.parent = Top
        BY <3>1, <3>2, <1>4 DEF Solves
      <3>3. CASE u.parent # Top
        <4> DEFINE p == Spawner(uses, u)
        <4>1. p \in uses /\ p.id < u.id /\ p.id \in Nat
          BY <3>3, SpawnerIs, UseFields DEF Tree
        <4>2. p.id <= k
          BY <4>1, <3>1, <2>1
        <4>3. D[p] \in Nat /\ D[p] < p.id
          BY <4>1, <4>2
        <4>4. D[u] = 1 + D[p]
          BY <1>4, <3>3 DEF Solves
        <4> HIDE DEF p
        <4> QED BY <4>1, <4>3, <4>4, <3>1
      <3> QED BY <3>2, <3>3
    <2> QED BY <2>1
  <1>7. T = Nat
    <2> HIDE DEF Low
    <2> QED BY <1>5, <1>6, SetInduction
  <1>8. ASSUME NEW u \in uses PROVE Low(u)
    <2>1. u.id \in T /\ u.id <= u.id
      BY <1>7, UseFields DEF Tree
    <2> QED BY <2>1
  <1>9. D \in [uses -> Nat]
    BY <1>3, <1>8
  <1> QED BY <1>4, <1>8, <1>9 DEF D

-----------------------------------------------------------------------------
(* A depth is the length of a chain of calls from the top.                   *)

LEMMA ChainDepth ==
  ASSUME NEW uses, Tree(uses), NEW n \in Nat, NEW c \in [1 .. n -> uses], Chain(c, n), n >= 1
  PROVE  DepthByChain(uses)[c[n]] = n - 1
  <1> DEFINE D == DepthByChain(uses)
             T == {k \in Nat : k < n => D[c[k + 1]] = k}
  <1>1. \A u \in uses : D[u] \in Nat /\ Solves(D, uses, u)
    BY DepthIs
  <1> HIDE DEF D
  <1>2. 0 \in T
    <2>1. c[1] \in uses /\ c[1].parent = Top
      BY DEF Chain
    <2> QED BY <2>1, <1>1 DEF Solves
  <1>3. ASSUME NEW k \in T PROVE k + 1 \in T
    <2>1. k \in Nat /\ k + 1 \in Nat
      OBVIOUS
    <2>2. ASSUME k + 1 < n PROVE D[c[(k + 1) + 1]] = k + 1
      <3>1. k + 1 \in 1 .. n - 1 /\ k + 1 \in 1 .. n /\ (k + 1) + 1 \in 1 .. n /\ k < n
        BY <2>1, <2>2
      <3>2. PICK u \in uses : u = c[(k + 1) + 1]
        BY <3>1
      <3>3. PICK v \in uses : v = c[k + 1]
        BY <3>1
      <3>4. u.parent = v.id
        BY <3>1, <3>2, <3>3 DEF Chain
      <3>5. v.id # Top
        BY UseFields DEF Tree, Top
      <3>6. v = Spawner(uses, u)
        BY <3>4, <3>5, SpawnerIs
      <3>7. D[v] = k
        BY <3>1, <3>3
      <3>8. D[u] = 1 + D[v]
        BY <1>1, <3>4, <3>5, <3>6 DEF Solves
      <3> QED BY <3>2, <3>7, <3>8, <2>1
    <2> QED BY <2>1, <2>2
  <1>4. T = Nat
    BY <1>2, <1>3, SetInduction
  <1>5. n - 1 \in T /\ n - 1 < n /\ (n - 1) + 1 = n
    BY <1>4
  <1>6. D[c[(n - 1) + 1]] = n - 1
    BY <1>5
  <1> QED BY <1>5, <1>6 DEF D

LEMMA ChainTo ==
  ASSUME NEW uses, Tree(uses), NEW u \in uses
  PROVE  \E n \in Nat, c \in [1 .. (DepthByChain(uses)[u] + 1) -> uses] :
           /\ n = DepthByChain(uses)[u] + 1
           /\ Chain(c, n) /\ c[n] = u
  <1> DEFINE D == DepthByChain(uses)
             Reached(k) == \A v \in uses : D[v] = k =>
                             \E c \in [1 .. (k + 1) -> uses] : Chain(c, k + 1) /\ c[k + 1] = v
             T == {k \in Nat : Reached(k)}
  <1>1. \A v \in uses : D[v] \in Nat /\ Solves(D, uses, v)
    BY DepthIs
  <1> HIDE DEF D
  <1>2. 0 \in T
    <2>1. ASSUME NEW v \in uses, D[v] = 0
          PROVE  \E c \in [1 .. (0 + 1) -> uses] : Chain(c, 0 + 1) /\ c[0 + 1] = v
      <3>1. v.parent = Top
        <4>1. CASE v.parent # Top
          <5>1. D[v] = 1 + D[Spawner(uses, v)] /\ D[Spawner(uses, v)] \in Nat
            BY <4>1, <1>1, SpawnerIs DEF Solves
          <5> QED BY <5>1, <2>1
        <4> QED BY <4>1
      <3> DEFINE c == [i \in 1 .. (0 + 1) |-> v]
      <3>2. c \in [1 .. (0 + 1) -> uses] /\ c[0 + 1] = v /\ c[1] = v
        OBVIOUS
      <3>3. Chain(c, 0 + 1)
        BY <3>1, <3>2 DEF Chain
      <3> QED BY <3>2, <3>3
    <2> QED BY <2>1
  <1>3. ASSUME NEW k \in T PROVE k + 1 \in T
    <2>1. k \in Nat /\ k + 1 \in Nat
      OBVIOUS
    <2>2. ASSUME NEW v \in uses, D[v] = k + 1
          PROVE  \E c \in [1 .. ((k + 1) + 1) -> uses] :
                   Chain(c, (k + 1) + 1) /\ c[(k + 1) + 1] = v
      <3>1. v.parent # Top
        BY <2>1, <2>2, <1>1 DEF Solves
      <3>2. PICK p \in uses : p = Spawner(uses, v)
        BY <3>1, SpawnerIs
      <3>3. p.id = v.parent /\ D[v] = 1 + D[p] /\ D[p] \in Nat
        BY <3>1, <3>2, <1>1, SpawnerIs DEF Solves
      <3>4. D[p] = k
        BY <3>3, <2>2, <2>1
      <3>5. PICK b \in [1 .. (k + 1) -> uses] : Chain(b, k + 1) /\ b[k + 1] = p
        BY <3>4
      <3> DEFINE c == [i \in 1 .. ((k + 1) + 1) |-> IF i <= k + 1 THEN b[i] ELSE v]
      <3>6. c \in [1 .. ((k + 1) + 1) -> uses]
        BY <2>1
      <3>7. c[(k + 1) + 1] = v /\ \A i \in 1 .. k + 1 : c[i] = b[i]
        BY <2>1
      <3> HIDE DEF c
      <3>8. c[1] = b[1] /\ b[1].parent = Top
        BY <3>5, <3>7, <2>1 DEF Chain
      <3>9. ASSUME NEW i \in 1 .. ((k + 1) + 1) - 1 PROVE c[i + 1].parent = c[i].id
        <4>1. CASE i = k + 1
          <5>1. c[i] = p /\ c[i + 1] = v
            BY <4>1, <3>5, <3>7, <2>1
          <5> QED BY <5>1, <3>3
        <4>2. CASE i # k + 1
          <5>1. i \in 1 .. (k + 1) - 1 /\ i \in 1 .. k + 1 /\ i + 1 \in 1 .. k + 1
            BY <4>2, <2>1
          <5>2. b[i + 1].parent = b[i].id
            BY <5>1, <3>5 DEF Chain
          <5> QED BY <5>1, <5>2, <3>7
        <4> QED BY <4>1, <4>2
      <3>10. Chain(c, (k + 1) + 1)
        BY <3>8, <3>9 DEF Chain
      <3> QED BY <3>6, <3>7, <3>10
    <2> QED BY <2>1, <2>2
  <1>4. T = Nat
    <2> HIDE DEF Reached
    <2> QED BY <1>2, <1>3, SetInduction
  <1>5. Reached(D[u])
    BY <1>1, <1>4
  <1>6. D[u] + 1 \in Nat
    BY <1>1
  <1> QED BY <1>5, <1>6 DEF D

-----------------------------------------------------------------------------
(* The verifier's rounds: round n has the calls of depth n, and there are    *)
(* rounds enough, since a call of depth n has n calls before it.             *)

AtDepth(uses, n) == {u \in uses : DepthByChain(uses)[u] = n}
Rounds(f, uses) ==
  f = [n \in 0 .. Cardinality(uses) |->
         IF n = 0 THEN {u \in uses : u.parent = Top}
         ELSE {u \in uses : \E v \in f[n - 1] : v.id = u.parent}]

LEMMA NextDepth ==
  ASSUME NEW uses, Tree(uses)
  PROVE  /\ AtDepth(uses, 0) = {u \in uses : u.parent = Top}
         /\ \A n \in Nat : n # 0 =>
              AtDepth(uses, n) = {u \in uses : \E v \in AtDepth(uses, n - 1) : v.id = u.parent}
  <1> DEFINE D == DepthByChain(uses)
  <1>1. \A u \in uses : D[u] \in Nat /\ Solves(D, uses, u)
    BY DepthIs
  <1>2. \A u \in uses : u.id # Top
    BY UseFields DEF Tree, Top
  <1>3. \A n : AtDepth(uses, n) = {u \in uses : D[u] = n}
    BY DEF AtDepth
  <1> HIDE DEF D
  <1>4. ASSUME NEW u \in uses, u.parent # Top
        PROVE  /\ Spawner(uses, u) \in uses /\ D[u] = 1 + D[Spawner(uses, u)]
               /\ D[Spawner(uses, u)] \in Nat
    BY <1>1, <1>4, SpawnerIs DEF Solves
  <1>5. ASSUME NEW u \in uses PROVE D[u] = 0 <=> u.parent = Top
    <2>1. CASE u.parent = Top
      BY <2>1, <1>1 DEF Solves
    <2>2. CASE u.parent # Top
      BY <2>2, <1>4
    <2> QED BY <2>1, <2>2
  <1>6. ASSUME NEW n \in Nat, n # 0, NEW u \in uses
        PROVE  D[u] = n <=> \E v \in AtDepth(uses, n - 1) : v.id = u.parent
    <2>1. ASSUME D[u] = n PROVE \E v \in AtDepth(uses, n - 1) : v.id = u.parent
      <3>1. u.parent # Top
        BY <2>1, <1>5, <1>6
      <3>2. PICK p \in uses : p = Spawner(uses, u)
        BY <3>1, <1>4
      <3>3. p.id = u.parent /\ D[u] = 1 + D[p] /\ D[p] \in Nat
        BY <3>1, <3>2, <1>4, SpawnerIs
      <3>4. D[p] = n - 1
        BY <3>3, <2>1
      <3> QED BY <3>3, <3>4, <1>3
    <2>2. ASSUME NEW v \in AtDepth(uses, n - 1), v.id = u.parent PROVE D[u] = n
      <3>1. v \in uses /\ D[v] = n - 1
        BY <1>3
      <3>2. u.parent # Top
        BY <2>2, <3>1, <1>2
      <3>3. v = Spawner(uses, u)
        BY <2>2, <3>1, <3>2, SpawnerIs
      <3> QED BY <3>1, <3>2, <3>3, <1>4
    <2> QED BY <2>1, <2>2
  <1>7. AtDepth(uses, 0) = {u \in uses : u.parent = Top}
    BY <1>3, <1>5
  <1>8. ASSUME NEW n \in Nat, n # 0
        PROVE  AtDepth(uses, n) = {u \in uses : \E v \in AtDepth(uses, n - 1) : v.id = u.parent}
    <2>1. PICK A : A = AtDepth(uses, n - 1)
      OBVIOUS
    <2>2. \A u \in uses : D[u] = n <=> \E v \in A : v.id = u.parent
      BY <2>1, <1>6, <1>8
    <2>3. {u \in uses : D[u] = n} = {u \in uses : \E v \in A : v.id = u.parent}
      BY <2>2
    <2> QED BY <2>1, <2>3, <1>3
  <1> QED BY <1>7, <1>8

LEMMA RoundIs ==
  ASSUME NEW uses, Tree(uses), IsFiniteSet(uses)
  PROVE  \A n \in 0 .. Cardinality(uses) : Round(uses)[n] = AtDepth(uses, n)
  <1> DEFINE R == Round(uses)
             N == Cardinality(uses)
             w == [n \in 0 .. N |-> AtDepth(uses, n)]
  <1>1. N \in Nat
    BY FS_CardinalityType
  <1>2. Rounds(w, uses)
    <2> DEFINE At(n) == IF n = 0 THEN {u \in uses : u.parent = Top}
                        ELSE {u \in uses : \E v \in w[n - 1] : v.id = u.parent}
    <2>1. ASSUME NEW n \in 0 .. N PROVE w[n] = At(n)
      <3>1. CASE n = 0
        BY <3>1, <1>1, NextDepth
      <3>2. CASE n # 0
        <4>1. n - 1 \in 0 .. N /\ n \in Nat
          BY <3>2, <1>1
        <4>2. w[n - 1] = AtDepth(uses, n - 1) /\ w[n] = AtDepth(uses, n)
          BY <4>1
        <4> QED BY <4>1, <4>2, <3>2, NextDepth
      <3> QED BY <3>1, <3>2
    <2>2. w = [n \in 0 .. N |-> At(n)]
      BY <2>1
    <2> QED BY <2>2 DEF Rounds
  <1>3. R = CHOOSE f : Rounds(f, uses)
    BY DEF Round, Rounds
  <1>4. Rounds(R, uses)
    BY <1>2, <1>3
  <1>5. R = [n \in 0 .. N |-> IF n = 0 THEN {u \in uses : u.parent = Top}
                              ELSE {u \in uses : \E v \in R[n - 1] : v.id = u.parent}]
    BY <1>4 DEF Rounds
  <1> DEFINE T == {n \in Nat : n <= N => R[n] = AtDepth(uses, n)}
  <1> HIDE DEF R, N
  <1>6. 0 \in T
    BY <1>1, <1>5, NextDepth
  <1>7. ASSUME NEW n \in T PROVE n + 1 \in T
    <2>1. n \in Nat /\ n + 1 \in Nat /\ n + 1 # 0 /\ (n + 1) - 1 = n
      OBVIOUS
    <2>2. ASSUME n + 1 <= N PROVE R[n + 1] = AtDepth(uses, n + 1)
      <3>1. n + 1 \in 0 .. N /\ n <= N
        BY <2>1, <2>2, <1>1
      <3>2. R[n + 1] = {u \in uses : \E v \in R[n] : v.id = u.parent}
        BY <3>1, <2>1, <1>5
      <3>3. R[n] = AtDepth(uses, n)
        BY <3>1
      <3>4. AtDepth(uses, n + 1) = {u \in uses : \E v \in AtDepth(uses, n) : v.id = u.parent}
        BY <2>1, NextDepth
      <3> QED BY <3>2, <3>3, <3>4
    <2> QED BY <2>1, <2>2
  <1>8. T = Nat
    BY <1>6, <1>7, SetInduction
  <1>9. \A n \in 0 .. N : R[n] = AtDepth(uses, n)
    BY <1>8, <1>1
  <1> QED BY <1>9 DEF R, N

\* A call of depth n has n calls before it.
LEMMA DepthLimit ==
  ASSUME NEW uses, Tree(uses), IsFiniteSet(uses), NEW u \in uses
  PROVE  DepthByChain(uses)[u] <= Cardinality(uses)
  <1> DEFINE D == DepthByChain(uses)
             Before(v) == {x \in uses : x.id < v.id}
             Enough(k) == \A v \in uses : D[v] = k => k <= Cardinality(Before(v))
             T == {k \in Nat : Enough(k)}
  <1>1. \A v \in uses : D[v] \in Nat /\ Solves(D, uses, v) /\ v.id \in Nat
    BY DepthIs, UseFields DEF Tree
  <1> HIDE DEF D
  <1>2. ASSUME NEW v \in uses
        PROVE  /\ IsFiniteSet(Before(v)) /\ Cardinality(Before(v)) \in Nat
               /\ Cardinality(Before(v)) <= Cardinality(uses) /\ Cardinality(uses) \in Nat
    <2>1. Before(v) \subseteq uses
      OBVIOUS
    <2> HIDE DEF Before
    <2> QED BY <2>1, FS_Subset, FS_CardinalityType
  <1>3. 0 \in T
    BY <1>2
  <1>4. ASSUME NEW k \in T PROVE k + 1 \in T
    <2>1. k \in Nat /\ k + 1 \in Nat
      OBVIOUS
    <2>2. ASSUME NEW v \in uses, D[v] = k + 1 PROVE k + 1 <= Cardinality(Before(v))
      <3>1. v.parent # Top
        BY <2>1, <2>2, <1>1 DEF Solves
      <3>2. PICK p \in uses : p = Spawner(uses, v)
        BY <3>1, SpawnerIs
      <3>3. p.id < v.id /\ D[v] = 1 + D[p] /\ D[p] \in Nat
        BY <3>1, <3>2, <1>1, SpawnerIs DEF Solves
      <3>4. k <= Cardinality(Before(p))
        BY <3>3, <2>2, <2>1
      <3>5. p \notin Before(p) /\ Before(p) \cup {p} \subseteq Before(v)
        BY <3>3, <1>1
      <3>6. Cardinality(Before(p) \cup {p}) = Cardinality(Before(p)) + 1
        <4> HIDE DEF Before
        <4> QED BY <3>5, <1>2, FS_AddElement
      <3>7. Cardinality(Before(p) \cup {p}) <= Cardinality(Before(v))
        <4> HIDE DEF Before
        <4> QED BY <3>5, <1>2, FS_Subset
      <3> HIDE DEF Before
      <3>8. Cardinality(Before(p)) \in Nat /\ Cardinality(Before(v)) \in Nat
        BY <1>2
      <3> QED BY <3>4, <3>6, <3>7, <3>8, <2>1
    <2> HIDE DEF Before
    <2> QED BY <2>1, <2>2
  <1>5. T = Nat
    <2> HIDE DEF Enough
    <2> QED BY <1>3, <1>4, SetInduction
  <1>6. D[u] <= Cardinality(Before(u))
    <2> HIDE DEF Before
    <2> QED BY <1>1, <1>5
  <1> HIDE DEF Before
  <1> QED BY <1>1, <1>2, <1>6 DEF D

\* The two computations of depth agree.
LEMMA DepthsAgree ==
  ASSUME NEW uses, Tree(uses), IsFiniteSet(uses)
  PROVE  /\ Resolved(uses) = uses
         /\ \A u \in uses : DepthByRounds(uses)[u] = DepthByChain(uses)[u]
  <1> DEFINE D == DepthByChain(uses)
             N == Cardinality(uses)
  <1>1. \A u \in uses : D[u] \in 0 .. N
    BY DepthIs, DepthLimit, FS_CardinalityType
  <1>2. \A n \in 0 .. N : Round(uses)[n] = {u \in uses : D[u] = n}
    BY RoundIs DEF AtDepth
  <1>3. Resolved(uses) = UNION {Round(uses)[n] : n \in 0 .. N}
    BY DEF Resolved
  <1>4. DepthByRounds(uses) =
          [u \in Resolved(uses) |-> CHOOSE n \in 0 .. N : u \in Round(uses)[n]]
    BY DEF DepthByRounds
  <1> HIDE DEF D, N
  <1>5. Resolved(uses) = uses
    <2>1. ASSUME NEW u \in Resolved(uses) PROVE u \in uses
      BY <1>2, <1>3
    <2>2. ASSUME NEW u \in uses PROVE u \in Resolved(uses)
      <3>1. u \in Round(uses)[D[u]]
        BY <1>1, <1>2
      <3> QED BY <3>1, <1>1, <1>3
    <2> QED BY <2>1, <2>2
  <1>6. ASSUME NEW u \in uses PROVE DepthByRounds(uses)[u] = D[u]
    <2>1. \A n \in 0 .. N : u \in Round(uses)[n] <=> n = D[u]
      BY <1>2
    <2>2. (CHOOSE n \in 0 .. N : u \in Round(uses)[n]) = D[u]
      BY <2>1, <1>1
    <2> QED BY <2>2, <1>4, <1>5
  <1> QED BY <1>5, <1>6 DEF D

-----------------------------------------------------------------------------
(* What a reader has gathered, of any Sound set of events.                   *)

Delegated(E) == \A u, v \in Uses(E) : v.id = u.parent => v.tool = Agent
OneResult(E) ==
  \A e, f \in E : e.kind = "result" /\ f.kind = "result" /\ e.id = f.id => e = f
Sound(E) ==
  /\ E \in SUBSET Line /\ IsFiniteSet(E)
  /\ Told(Uses(E)) /\ Later(Uses(E)) /\ Delegated(E) /\ OneResult(E)

RanIn(E) == {u \in Uses(E) : \E e \in ResultsOf(E, u.id) : ~e.error}

LEMMA SoundPart ==
  ASSUME NEW E, Sound(E), NEW F \in SUBSET E
  PROVE  Sound(F)
  <1>1. Uses(F) \subseteq Uses(E) /\ F \in SUBSET Line
    BY DEF Uses, Sound
  <1>2. IsFiniteSet(F)
    BY FS_Subset DEF Sound
  <1> QED BY <1>1, <1>2 DEF Sound, Told, Later, Delegated, OneResult

LEMMA SoundTree ==
  ASSUME NEW E, Sound(E)
  PROVE  IsFiniteSet(Uses(E)) /\ (Rooted(Uses(E)) => Tree(Uses(E)))
  <1>1. Uses(E) \subseteq E /\ Uses(E) \in SUBSET UseLine
    BY Kinds DEF Sound
  <1>2. IsFiniteSet(Uses(E))
    BY <1>1, FS_Subset DEF Sound
  <1> QED BY <1>1, <1>2 DEF Sound, Tree

LEMMA OutcomeIs ==
  ASSUME NEW E, Sound(E), NEW u \in Uses(E)
  PROVE  /\ Outcome(E, u.id) = "ok" <=> u \in RanIn(E)
         /\ Outcome(E, u.id) = "unresolved" <=> ResultsOf(E, u.id) = {}
  <1>1. \A e, f \in ResultsOf(E, u.id) : e = f
    BY DEF ResultsOf, Sound, OneResult
  <1>2. \A e \in ResultsOf(E, u.id) : e.error \in BOOLEAN
    BY Kinds DEF Sound, ResultLine
  <1>3. CASE ResultsOf(E, u.id) = {}
    BY <1>3 DEF Outcome, RanIn
  <1>4. CASE ResultsOf(E, u.id) # {}
    <2>1. PICK r \in ResultsOf(E, u.id) : \A e \in ResultsOf(E, u.id) : e = r
      BY <1>1, <1>4
    <2>2. CASE r.error
      BY <1>4, <2>1, <2>2 DEF Outcome, RanIn
    <2>3. CASE ~r.error
      BY <1>4, <2>1, <2>3 DEF Outcome, RanIn
    <2> QED BY <2>2, <2>3
  <1> QED BY <1>3, <1>4

\* What the facts say of the calls, whoever computed them, as the depths do.
CallsOf(E, depth) == {Call(E, u, depth[u]) : u \in Uses(E)}
FactsOf(E, depth) ==
  [exercised |-> CallsOf(E, depth), complete |-> HasEnd(E),
   delegations |-> {c \in CallsOf(E, depth) : c.tool = Agent /\ c.result = "ok"}]

LEMMA FactsAre ==
  ASSUME NEW E
  PROVE  /\ Analyze(E) = FactsOf(E, DepthByChain(Uses(E)))
         /\ Recompute(E) = FactsOf(E, DepthByRounds(Uses(E)))
  BY DEF Analyze, Recompute, FactsOf, CallsOf

LEMMA CallFields ==
  ASSUME NEW E, NEW u, NEW d
  PROVE  /\ Call(E, u, d).tool = u.tool /\ Call(E, u, d).depth = d
         /\ Call(E, u, d).result = Outcome(E, u.id)
  BY DEF Call

LEMMA FactsSay ==
  ASSUME NEW E, Sound(E), NEW depth
  PROVE  /\ Executed(FactsOf(E, depth).exercised) = {u.tool : u \in RanIn(E)}
         /\ \A d : d \in FactsOf(E, depth).delegations <=>
                     \E u \in RanIn(E) : u.tool = Agent /\ d = Call(E, u, depth[u])
         /\ (\E c \in FactsOf(E, depth).exercised : c.result = "unresolved") <=>
              \E u \in Uses(E) : ResultsOf(E, u.id) = {}
         /\ FactsOf(E, depth).complete = HasEnd(E)
  <1> DEFINE ex == FactsOf(E, depth).exercised
  <1>1. \A c : c \in ex <=> \E u \in Uses(E) : c = Call(E, u, depth[u])
    BY DEF FactsOf, CallsOf
  <1>2. \A u \in Uses(E) : /\ Call(E, u, depth[u]).tool = u.tool
                           /\ Call(E, u, depth[u]).result = Outcome(E, u.id)
    BY CallFields
  <1>3. \A u \in Uses(E) : /\ Outcome(E, u.id) = "ok" <=> u \in RanIn(E)
                           /\ Outcome(E, u.id) = "unresolved" <=> ResultsOf(E, u.id) = {}
    BY OutcomeIs
  <1>4. RanIn(E) \subseteq Uses(E)
    BY DEF RanIn
  <1>5. \A d : d \in FactsOf(E, depth).delegations <=> d \in ex /\ d.tool = Agent /\ d.result = "ok"
    BY DEF FactsOf
  <1>6. FactsOf(E, depth).complete = HasEnd(E)
    BY DEF FactsOf
  <1> HIDE DEF ex
  <1>7. \A t : t \in Executed(ex) <=> \E c \in ex : c.result = "ok" /\ t = c.tool
    BY DEF Executed
  <1>8. \A t : t \in Executed(ex) <=> \E u \in RanIn(E) : t = u.tool
    BY <1>1, <1>2, <1>3, <1>4, <1>7
  <1>9. Executed(ex) = {u.tool : u \in RanIn(E)}
    BY <1>8
  <1>10. \A d : d \in FactsOf(E, depth).delegations <=>
                  \E u \in RanIn(E) : u.tool = Agent /\ d = Call(E, u, depth[u])
    BY <1>1, <1>2, <1>3, <1>4, <1>5
  <1>11. (\E c \in ex : c.result = "unresolved") <=> \E u \in Uses(E) : ResultsOf(E, u.id) = {}
    BY <1>1, <1>2, <1>3
  <1> QED BY <1>6, <1>9, <1>10, <1>11 DEF ex

\* Inside, said of the calls that ran.
LEMMA InsideSays ==
  ASSUME NEW E, Sound(E), NEW depth, NEW d
  PROVE  Inside(FactsOf(E, depth), d) <=>
           \A u \in RanIn(E) : u.tool \in d.tools /\ (u.tool = Agent => depth[u] + 1 <= d.depth)
  <1> DEFINE f == FactsOf(E, depth)
  <1>1. Inside(f, d) <=> /\ Executed(f.exercised) \subseteq d.tools
                         /\ \A x \in f.delegations : x.depth + 1 <= d.depth
    BY DEF Inside
  <1>2. Executed(f.exercised) = {u.tool : u \in RanIn(E)}
    BY FactsSay
  <1>3. \A x : x \in f.delegations <=>
                 \E u \in RanIn(E) : u.tool = Agent /\ x = Call(E, u, depth[u])
    BY FactsSay
  <1>4. \A u : Call(E, u, depth[u]).depth = depth[u]
    BY CallFields
  <1> HIDE DEF f
  <1>5. (\A x \in f.delegations : x.depth + 1 <= d.depth) <=>
          \A u \in RanIn(E) : u.tool = Agent => depth[u] + 1 <= d.depth
    BY <1>3, <1>4
  <1> QED BY <1>1, <1>2, <1>5 DEF f

\* Over the same events the verifier computes what the builder did.
LEMMA SameFacts ==
  ASSUME NEW E, Sound(E), Rooted(Uses(E))
  PROVE  Recompute(E) = Analyze(E) /\ Resolved(Uses(E)) = Uses(E)
  <1> DEFINE U == Uses(E)
  <1>1. Tree(U) /\ IsFiniteSet(U)
    BY SoundTree
  <1>2. Resolved(U) = U /\ \A u \in U : DepthByRounds(U)[u] = DepthByChain(U)[u]
    BY <1>1, DepthsAgree
  <1>3. CallsOf(E, DepthByRounds(U)) = CallsOf(E, DepthByChain(U))
    BY <1>2 DEF CallsOf
  <1> QED BY <1>2, <1>3, FactsAre DEF FactsOf

-----------------------------------------------------------------------------
(* The bytes of the file are those of the lines, the last one perhaps in     *)
(* part: byte p is one of line Pos(p).                                       *)

Byte == Nat \X {"first", "rest", "trail", "newline"}
Pos(p) == ((p - 1) \div LineSize) + 1
Part(p) == ((p - 1) % LineSize) + 1
ByteOf(s, p) == BytesOf(s[Pos(p)], Pos(p))[Part(p)]
Holding(f, s) == \A p \in 1 .. Len(f) : f[p] = ByteOf(s, p)

FileIs ==
  /\ stream \in Seq(Line) /\ file \in Seq(Byte)
  /\ LineSize * (Len(stream) - 1) < Len(file) /\ Len(file) <= LineSize * Len(stream)
  /\ Holding(file, stream)

LEMMA PosPart ==
  ASSUME NEW p \in Nat, p >= 1
  PROVE  /\ Pos(p) \in Nat /\ Pos(p) >= 1 /\ Part(p) \in 1 .. LineSize
         /\ p = LineSize * (Pos(p) - 1) + Part(p)
         /\ \A i \in Nat, j \in 1 .. LineSize :
              p = LineSize * (i - 1) + j /\ i >= 1 => i = Pos(p) /\ j = Part(p)
  BY DEF Pos, Part, LineSize

LEMMA PosOf ==
  ASSUME NEW n \in Nat, n >= 1, NEW j \in 1 .. LineSize
  PROVE  Pos(LineSize * (n - 1) + j) = n /\ Part(LineSize * (n - 1) + j) = j
  BY DEF Pos, Part, LineSize

LEMMA PosWithin ==
  ASSUME NEW n \in Nat, NEW p \in Nat, p >= 1, p <= LineSize * n
  PROVE  Pos(p) \in 1 .. n
  BY DEF Pos, LineSize

LEMMA BytesAre ==
  ASSUME NEW e, NEW i \in Nat
  PROVE  /\ BytesOf(e, i) \in Seq(Byte) /\ Len(BytesOf(e, i)) = LineSize
         /\ BytesOf(e, i)[1] = <<i, "first">>
         /\ BytesOf(e, i)[2] = <<i, IF Plain(e) THEN "rest" ELSE "trail">>
         /\ BytesOf(e, i)[3] = <<i, "newline">>
  BY DEF BytesOf, Byte, LineSize

LEMMA SliceIs ==
  ASSUME NEW U, NEW s \in Seq(U), NEW m \in 1 .. Len(s) + 1, NEW n \in (m - 1) .. Len(s)
  PROVE  /\ SubSeq(s, m, n) \in Seq(U) /\ Len(SubSeq(s, m, n)) = n - m + 1
         /\ \A i \in 1 .. n - m + 1 : SubSeq(s, m, n)[i] = s[m + i - 1]
  <1>1. Len(s) \in Nat /\ DOMAIN s = 1 .. Len(s) /\ \A i \in 1 .. Len(s) : s[i] \in U
    BY SeqTypes
  <1> DEFINE g == [i \in 1 .. n - m + 1 |-> s[m + i - 1]]
  <1>2. n - m + 1 \in Nat /\ \A i \in 1 .. n - m + 1 : m + i - 1 \in 1 .. Len(s)
    BY <1>1
  <1>3. SubSeq(s, m, n) = g
    BY <1>1
  <1>4. g \in [1 .. n - m + 1 -> U]
    BY <1>1, <1>2
  <1>5. g \in Seq(U) /\ Len(g) = n - m + 1
    <2> HIDE DEF g
    <2> QED BY <1>2, <1>4, FunctionIsSeq
  <1> QED BY <1>3, <1>5

\* What stands before the last of three, and what stands behind a place.
LEMMA FirstTwo ==
  ASSUME NEW U, NEW s \in Seq(U), Len(s) = 3
  PROVE  /\ SubSeq(s, 1, 2) \in Seq(U) /\ Len(SubSeq(s, 1, 2)) = 2
         /\ SubSeq(s, 1, 2)[1] = s[1] /\ SubSeq(s, 1, 2)[2] = s[2]
  <1>1. PICK m \in Nat, n \in Nat : m = 1 /\ n = 2
    OBVIOUS
  <1>2. m \in 1 .. Len(s) + 1 /\ n \in (m - 1) .. Len(s)
    BY <1>1
  <1>3. PICK c : c = SubSeq(s, m, n)
    OBVIOUS
  <1>4. c \in Seq(U) /\ Len(c) = n - m + 1 /\ \A i \in 1 .. n - m + 1 : c[i] = s[m + i - 1]
    BY <1>2, <1>3, SliceIs
  <1>5. Len(c) = 2 /\ c[1] = s[1] /\ c[2] = s[2]
    BY <1>1, <1>4
  <1> QED BY <1>1, <1>3, <1>4, <1>5

LEMMA SliceBehind ==
  ASSUME NEW U, NEW s \in Seq(U), NEW o \in Nat, NEW n \in Nat, n = Len(s), o <= n
  PROVE  /\ SubSeq(s, o + 1, n) \in Seq(U) /\ Len(SubSeq(s, o + 1, n)) = n - o
         /\ \A i \in 1 .. n - o : SubSeq(s, o + 1, n)[i] = s[o + i]
  <1>1. PICK m \in Nat : m = o + 1
    OBVIOUS
  <1>2. m \in 1 .. Len(s) + 1 /\ n \in (m - 1) .. Len(s)
    BY <1>1
  <1>3. PICK c : c = SubSeq(s, m, n)
    OBVIOUS
  <1>4. c \in Seq(U) /\ Len(c) = n - m + 1 /\ \A i \in 1 .. n - m + 1 : c[i] = s[m + i - 1]
    BY <1>2, <1>3, SliceIs
  <1>5. n - m + 1 = n - o /\ \A i \in 1 .. n - o : m + i - 1 = o + i
    BY <1>1
  <1> QED BY <1>1, <1>3, <1>4, <1>5

\* h is f and then r.
Joins(U, h, f, r) ==
  /\ h \in Seq(U) /\ Len(h) = Len(f) + Len(r)
  /\ \A i \in 1 .. Len(f) : h[i] = f[i]
  /\ \A i \in 1 .. Len(r) : h[Len(f) + i] = r[i]

LEMMA Joined ==
  ASSUME NEW U, NEW f \in Seq(U), NEW r \in Seq(U)
  PROVE  Joins(U, f \o r, f, r)
  BY ConcatSplit DEF Joins

\* The next bytes of the last line.
LEMMA MoreBytes ==
  ASSUME NEW s \in Seq(Line), NEW n \in Nat, n = Len(s), n >= 1,
         NEW f \in Seq(Byte), NEW t \in 0 .. LineSize - 1, NEW k \in t + 1 .. LineSize,
         Len(f) = LineSize * (n - 1) + t, Holding(f, s)
  PROVE  LET g == f \o SubSeq(BytesOf(s[n], n), t + 1, k)
         IN  g \in Seq(Byte) /\ Len(g) = LineSize * (n - 1) + k /\ Holding(g, s)
  <1>0. PICK g : g = f \o SubSeq(BytesOf(s[n], n), t + 1, k)
    OBVIOUS
  <1>1. PICK b : b = BytesOf(s[n], n)
    OBVIOUS
  <1>2. b \in Seq(Byte) /\ Len(b) = LineSize
    BY <1>1, BytesAre
  <1>3. PICK r : r = SubSeq(b, t + 1, k)
    OBVIOUS
  <1>4. t \in Nat /\ k \in Nat /\ t < k /\ k <= 3
    BY DEF LineSize
  <1>5. /\ r \in Seq(Byte) /\ Len(r) = k - t
        /\ \A i \in 1 .. k - t : r[i] = b[t + i]
    <2>1. t + 1 \in 1 .. Len(b) + 1 /\ k \in (t + 1) - 1 .. Len(b)
      BY <1>2, <1>4 DEF LineSize
    <2>2. /\ r \in Seq(Byte) /\ Len(r) = k - (t + 1) + 1
          /\ \A i \in 1 .. k - (t + 1) + 1 : r[i] = b[(t + 1) + i - 1]
      BY <1>2, <1>3, <2>1, SliceIs
    <2>3. k - (t + 1) + 1 = k - t /\ \A i \in 1 .. k - t : (t + 1) + i - 1 = t + i
      BY <1>4
    <2> QED BY <2>2, <2>3
  <1>6. PICK q \in Nat : q = Len(f)
    OBVIOUS
  <1>7. /\ g \in Seq(Byte) /\ Len(g) = q + (k - t)
        /\ \A i \in 1 .. q : g[i] = f[i]
        /\ \A i \in 1 .. k - t : g[q + i] = r[i]
    <2>1. Joins(Byte, g, f, r)
      BY <1>0, <1>1, <1>3, <1>5, Joined
    <2> QED BY <2>1, <1>5, <1>6 DEF Joins
  <1>8. q = LineSize * (n - 1) + t
    BY <1>6
  <1>9. ASSUME NEW p \in 1 .. q + (k - t) PROVE g[p] = ByteOf(s, p)
    <2>1. CASE p <= q
      <3>1. p \in 1 .. q
        BY <2>1
      <3> QED BY <3>1, <1>6, <1>7 DEF Holding
    <2>2. CASE p > q
      <3>1. PICK i \in 1 .. k - t : p = q + i
        <4>1. p - q \in 1 .. k - t /\ p = q + (p - q)
          BY <2>2, <1>4
        <4> QED BY <4>1
      <3>2. t + i \in 1 .. LineSize /\ p = LineSize * (n - 1) + (t + i) /\ p \in Nat /\ p >= 1
        BY <3>1, <1>4, <1>8 DEF LineSize
      <3>3. Pos(p) = n /\ Part(p) = t + i
        BY <3>2, PosOf
      <3>4. g[p] = b[t + i]
        BY <3>1, <1>5, <1>7
      <3>5. ByteOf(s, p) = b[t + i]
        BY <3>3, <1>1 DEF ByteOf
      <3> QED BY <3>4, <3>5
    <2>3. p <= q \/ p > q
      BY <1>4
    <2> QED BY <2>1, <2>2, <2>3
  <1>10. Len(g) = LineSize * (n - 1) + k
    BY <1>7, <1>8, <1>4 DEF LineSize
  <1> QED BY <1>0, <1>7, <1>9, <1>10 DEF Holding

LEMMA AppendIs ==
  ASSUME NEW U, NEW s \in Seq(U), NEW e \in U
  PROVE  /\ Append(s, e) \in Seq(U) /\ Len(Append(s, e)) = Len(s) + 1
         /\ \A i \in 1 .. Len(s) : Append(s, e)[i] = s[i]
         /\ Append(s, e)[Len(s) + 1] = e
         /\ ToSet(Append(s, e)) = ToSet(s) \cup {e}
  <1>1. Len(s) \in Nat /\ DOMAIN s = 1 .. Len(s)
    BY SeqTypes
  <1>2. /\ Append(s, e) \in Seq(U) /\ Len(Append(s, e)) = Len(s) + 1
        /\ \A i \in 1 .. Len(s) : Append(s, e)[i] = s[i]
        /\ Append(s, e)[Len(s) + 1] = e
    OBVIOUS
  <1>3. PICK a : a = Append(s, e)
    OBVIOUS
  <1>4. DOMAIN a = 1 .. Len(s) + 1
    BY <1>2, <1>3, SeqTypes
  <1>5. ToSet(a) = ToSet(s) \cup {e}
    <2>1. ASSUME NEW x \in ToSet(a) PROVE x \in ToSet(s) \cup {e}
      <3>1. PICK i \in 1 .. Len(s) + 1 : x = a[i]
        BY <1>4, <2>1 DEF ToSet
      <3>2. i \in 1 .. Len(s) \/ i = Len(s) + 1
        BY <1>1, <3>1
      <3> QED BY <1>1, <1>2, <1>3, <3>1, <3>2 DEF ToSet
    <2>2. ASSUME NEW x \in ToSet(s) PROVE x \in ToSet(a)
      <3>1. PICK i \in 1 .. Len(s) : x = s[i]
        BY <1>1, <2>2 DEF ToSet
      <3>2. i \in 1 .. Len(s) + 1 /\ x = a[i]
        BY <1>1, <1>2, <1>3, <3>1
      <3> QED BY <3>2, <1>4 DEF ToSet
    <2>3. e \in ToSet(a)
      <3>1. Len(s) + 1 \in 1 .. Len(s) + 1 /\ a[Len(s) + 1] = e
        BY <1>1, <1>2, <1>3
      <3> QED BY <3>1, <1>4 DEF ToSet
    <2> QED BY <2>1, <2>2, <2>3
  <1> QED BY <1>2, <1>3, <1>5

LEMMA HoldingMore ==
  ASSUME NEW s \in Seq(Line), NEW e \in Line, NEW f \in Seq(Byte), Holding(f, s),
         Len(f) <= LineSize * Len(s)
  PROVE  Holding(f, Append(s, e))
  <1>1. PICK n \in Nat : n = Len(s)
    OBVIOUS
  <1>2. PICK a : a = Append(s, e)
    OBVIOUS
  <1>3. \A i \in 1 .. n : a[i] = s[i]
    BY <1>1, <1>2, AppendIs
  <1>4. PICK m \in Nat : m = Len(f) /\ m <= LineSize * n
    BY <1>1
  <1>5. ASSUME NEW p \in 1 .. m PROVE f[p] = ByteOf(a, p)
    <2>1. p \in Nat /\ p >= 1 /\ p <= LineSize * n
      BY <1>4 DEF LineSize
    <2>2. Pos(p) \in 1 .. n
      BY <2>1, PosWithin
    <2>3. ByteOf(a, p) = ByteOf(s, p)
      BY <2>2, <1>3 DEF ByteOf
    <2> QED BY <2>3, <1>4 DEF Holding
  <1> QED BY <1>2, <1>4, <1>5 DEF Holding

-----------------------------------------------------------------------------
(* The stream stays Sound.                                                   *)

Numbered(E) == \A u \in Uses(E) : u.id <= Cardinality(Uses(E))
Emittable(E, e) ==
  /\ e \in UseLine => /\ e.id = Cardinality(Uses(E)) + 1
                      /\ e.parent = Top \/ \E u \in Uses(E) : u.id = e.parent /\ u.tool = Agent
  /\ e \in ResultLine => ResultsOf(E, e.id) = {}

LEMMA EmitUse ==
  ASSUME NEW E, Sound(E), Numbered(E), NEW e \in UseLine, Emittable(E, e)
  PROVE  Sound(E \cup {e}) /\ Numbered(E \cup {e})
  <1> DEFINE U == Uses(E)
             N == Cardinality(U)
             F == E \cup {e}
  <1>1. E \in SUBSET Line /\ IsFiniteSet(E) /\ e \in Line /\ F \in SUBSET Line
    BY DEF Sound, Line
  <1>2. e.kind = "use" /\ e.kind # "result"
    BY DEF UseLine
  <1>3. Uses(F) = U \cup {e}
    BY <1>2 DEF Uses
  <1>4. IsFiniteSet(U) /\ N \in Nat
    BY SoundTree, FS_CardinalityType
  <1>5. \A u \in U : u.id \in Nat /\ u.id >= 1 /\ u.id <= N /\ u.parent \in Nat
    BY <1>1, Kinds, UseFields DEF Numbered
  <1>6. /\ e.id = N + 1 /\ e.parent \in Nat
        /\ e.parent = Top \/ \E u \in U : u.id = e.parent /\ u.tool = Agent
    BY UseFields DEF Emittable
  <1>7. Told(U) /\ Later(U) /\ Delegated(E) /\ OneResult(E)
    BY DEF Sound
  <1>8. \A u, v \in U : v.id = u.parent => v.tool = Agent
    BY <1>7 DEF Delegated
  <1>9. Cardinality(U \cup {e}) = N + 1
    <2>1. e \notin U
      BY <1>4, <1>5, <1>6
    <2> HIDE DEF U
    <2> QED BY <2>1, <1>4, FS_AddElement
  <1>10. IsFiniteSet(F)
    BY <1>1, FS_AddElement
  <1> HIDE DEF U, N
  <1>11. Told(Uses(F))
    BY <1>3, <1>4, <1>5, <1>6, <1>7 DEF Told
  <1>12. Later(Uses(F))
    BY <1>3, <1>4, <1>5, <1>6, <1>7 DEF Later
  <1>13. ASSUME NEW u \in Uses(F), NEW v \in Uses(F), v.id = u.parent PROVE v.tool = Agent
    <2>1. CASE u \in U /\ v \in U
      BY <2>1, <1>8, <1>13
    <2>2. CASE u = e
      <3>1. u.parent <= N
        BY <2>2, <1>4, <1>5, <1>6 DEF Top
      <3>2. v \in U
        <4>1. v.id <= N /\ e.id = N + 1 /\ v.id \in Nat
          BY <3>1, <2>2, <1>6, <1>13
        <4>2. v # e
          BY <4>1, <1>4
        <4> QED BY <4>2, <1>3
      <3>3. v.id # Top
        BY <3>2, <1>5 DEF Top
      <3>4. PICK w \in U : w.id = e.parent /\ w.tool = Agent
        BY <3>3, <2>2, <1>6, <1>13
      <3> QED BY <3>2, <3>4, <2>2, <1>7, <1>13 DEF Told
    <2>3. CASE u \in U /\ v = e
      <3>1. u.parent <= N
        BY <2>3, <1>4, <1>5, <1>7 DEF Later, Top
      <3> QED BY <3>1, <2>3, <1>4, <1>6, <1>13
    <2> QED BY <2>1, <2>2, <2>3, <1>3
  <1>14. OneResult(F)
    BY <1>2, <1>7 DEF OneResult
  <1>15. Numbered(F)
    <2>1. Cardinality(Uses(F)) = N + 1
      BY <1>3, <1>9
    <2>2. \A u \in Uses(F) : u.id <= N + 1
      BY <1>3, <1>4, <1>5, <1>6
    <2> QED BY <2>1, <2>2 DEF Numbered
  <1>16. Delegated(F)
    BY <1>13 DEF Delegated
  <1> QED BY <1>1, <1>10, <1>11, <1>12, <1>14, <1>15, <1>16 DEF Sound

LEMMA EmitOther ==
  ASSUME NEW E, Sound(E), Numbered(E), NEW e \in ResultLine \cup EndLine, Emittable(E, e)
  PROVE  Sound(E \cup {e}) /\ Numbered(E \cup {e}) /\ Uses(E \cup {e}) = Uses(E)
  <1> DEFINE F == E \cup {e}
  <1>1. E \in SUBSET Line /\ IsFiniteSet(E) /\ F \in SUBSET Line
    BY DEF Sound, Line
  <1>2. e.kind # "use" /\ (e.kind = "result" => e \in ResultLine)
    BY DEF ResultLine, EndLine
  <1>3. Uses(F) = Uses(E)
    BY <1>2 DEF Uses
  <1>4. IsFiniteSet(F)
    BY <1>1, FS_AddElement
  <1>5. ASSUME NEW f \in E, f.kind = "result", e.kind = "result", f.id = e.id PROVE FALSE
    <2>1. ResultsOf(E, e.id) = {}
      BY <1>2, <1>5 DEF Emittable
    <2>2. f \in ResultsOf(E, e.id)
      BY <1>5 DEF ResultsOf
    <2> QED BY <2>1, <2>2
  <1>6. OneResult(E)
    BY DEF Sound
  <1>7. OneResult(F)
    BY <1>5, <1>6 DEF OneResult
  <1>8. Told(Uses(F)) /\ Later(Uses(F)) /\ Delegated(F)
    BY <1>3 DEF Sound, Delegated
  <1>9. Numbered(F)
    BY <1>3 DEF Numbered
  <1> QED BY <1>1, <1>3, <1>4, <1>7, <1>8, <1>9 DEF Sound

-----------------------------------------------------------------------------
(* The inductive invariant: the file holds what was written of the stream,   *)
(* the stream is Sound, the record is the builder's of a stream no longer    *)
(* written, and the verdict the verifier's of that record.                   *)

StreamIs == Sound(Written) /\ Numbered(Written)

RecordOf ==
  [declared |-> decl, facts |-> Analyze(BuilderLines),
   unused |-> decl.tools \ Executed(Analyze(BuilderLines).exercised)]

RecordIs ==
  statement # NoRecord =>
    executor # "running" /\ Rooted(Uses(BuilderLines)) /\ statement = RecordOf

VerdictIs ==
  /\ statement # NoRecord /\ verdict # "none" => verdict = Verdict(statement, decl, VerifierLines)
  /\ verdict \notin {"none", "no record"} => statement # NoRecord

ConfInv == decl \in Decl /\ FileIs /\ StreamIs /\ RecordIs /\ VerdictIs

LEMMA PartsRead ==
  ASSUME FileIs
  PROVE  /\ BuilderLines \subseteq Written
         /\ Len(file) \div LineSize \in 0 .. Len(stream) /\ Lines \in Seq(Line)
  <1>1. stream \in Seq(Line) /\ Len(stream) \in Nat /\ Len(file) \in Nat
    BY SeqTypes DEF FileIs
  <1>2. PICK k : k = Len(file) \div LineSize
    OBVIOUS
  <1>3. k \in 0 .. Len(stream)
    BY <1>1, <1>2 DEF FileIs, LineSize
  <1>4. /\ SubSeq(stream, 1, k) \in Seq(Line) /\ Len(SubSeq(stream, 1, k)) = k - 1 + 1
        /\ \A i \in 1 .. k - 1 + 1 : SubSeq(stream, 1, k)[i] = stream[1 + i - 1]
    BY <1>1, <1>3, SliceIs
  <1>5. Lines \in Seq(Line) /\ Len(Lines) = k /\ \A i \in 1 .. k : Lines[i] = stream[i]
    BY <1>2, <1>3, <1>4 DEF Lines
  <1>6. DOMAIN Lines = 1 .. k /\ DOMAIN stream = 1 .. Len(stream)
    BY <1>1, <1>5, SeqTypes
  <1>7. ToSet(Lines) \subseteq ToSet(stream)
    BY <1>3, <1>5, <1>6 DEF ToSet
  <1>8. BuilderLines \subseteq Written
    BY <1>7 DEF BuilderLines, Written
  <1> QED BY <1>2, <1>3, <1>5, <1>8

LEMMA ConfInit == Init => ConfInv
  <1> SUFFICES ASSUME Init PROVE ConfInv
    OBVIOUS
  <1>1. stream = <<>> /\ file = <<>> /\ statement = NoRecord /\ verdict = "none" /\ decl \in Decl
    BY DEF Init
  <1>2. FileIs
    BY <1>1 DEF FileIs, Holding, LineSize
  <1>3. Written = {}
    BY <1>1 DEF Written, ToSet
  <1>4. Uses(Written) = {}
    BY <1>3 DEF Uses
  <1>5. StreamIs
    BY <1>3, <1>4, FS_EmptySet
       DEF StreamIs, Sound, Numbered, Told, Later, Delegated, OneResult
  <1> QED BY <1>1, <1>2, <1>5 DEF ConfInv, RecordIs, VerdictIs

\* A line begins: the file held the whole of the lines before it.
LEMMA StartGrows ==
  ASSUME FileIs, StreamIs, StartLine
  PROVE  FileIs' /\ StreamIs'
  <1>1. stream \in Seq(Line) /\ file \in Seq(Byte) /\ Holding(file, stream)
    BY DEF FileIs
  <1>2. PICK n \in Nat : n = Len(stream)
    BY <1>1
  <1>3. PICK m \in Nat : m = Len(file)
    BY <1>1
  <1>4. m = LineSize * n
    <2>1. LineSize * (n - 1) < m /\ m <= LineSize * n
      BY <1>2, <1>3 DEF FileIs
    <2>2. m % LineSize = 0
      BY <1>3 DEF StartLine, Torn
    <2> QED BY <2>1, <2>2 DEF LineSize
  <1>5. PICK e \in Line :
          /\ CanEmit(e) /\ stream' = Append(stream, e)
          /\ \E k \in 1 .. LineSize - 1 : file' = file \o SubSeq(BytesOf(e, Len(stream')), 1, k)
    BY DEF StartLine
  <1>6. PICK k \in 1 .. LineSize - 1 : file' = file \o SubSeq(BytesOf(e, Len(stream')), 1, k)
    BY <1>5
  <1>7. PICK s : s = stream'
    OBVIOUS
  <1>8. /\ s \in Seq(Line) /\ Len(s) = n + 1 /\ s[n + 1] = e
        /\ ToSet(s) = ToSet(stream) \cup {e}
    BY <1>1, <1>2, <1>5, <1>7, AppendIs
  <1>9. Holding(file, s)
    <2>1. m <= LineSize * n
      BY <1>4 DEF LineSize
    <2>2. Len(file) <= LineSize * Len(stream)
      BY <2>1, <1>2, <1>3
    <2> QED BY <2>2, <1>1, <1>5, <1>7, HoldingMore
  <1>10. FileIs'
    <2>1. /\ n + 1 \in Nat /\ n + 1 >= 1 /\ 0 \in 0 .. LineSize - 1 /\ k \in 0 + 1 .. LineSize
          /\ m = LineSize * ((n + 1) - 1) + 0
      BY <1>4 DEF LineSize
    <2>2. file' = file \o SubSeq(BytesOf(s[n + 1], n + 1), 0 + 1, k)
      BY <1>6, <1>7, <1>8
    <2>3. /\ file' \in Seq(Byte) /\ Len(file') = LineSize * ((n + 1) - 1) + k
          /\ Holding(file', s)
      <3>1. Len(file) = LineSize * ((n + 1) - 1) + 0 /\ Len(s) = n + 1 /\ n + 1 >= 1
        BY <2>1, <1>3, <1>8
      <3> QED BY <3>1, <1>1, <1>8, <1>9, <2>1, <2>2, MoreBytes
    <2>4. /\ LineSize * ((n + 1) - 1) < LineSize * ((n + 1) - 1) + k
          /\ LineSize * ((n + 1) - 1) + k <= LineSize * (n + 1)
      BY DEF LineSize
    <2> QED BY <2>3, <2>4, <1>7, <1>8 DEF FileIs
  <1>11. StreamIs'
    <2>1. Sound(Written) /\ Numbered(Written)
      BY DEF StreamIs
    <2>2. Written' = Written \cup {e}
      BY <1>7, <1>8 DEF Written
    <2>3. Emittable(Written, e)
      BY <1>5 DEF CanEmit, Emittable, UseLine, ResultLine
    <2>4. Sound(Written \cup {e}) /\ Numbered(Written \cup {e})
      BY <2>1, <2>3, EmitUse, EmitOther DEF Line
    <2> QED BY <2>2, <2>4 DEF StreamIs
  <1> QED BY <1>10, <1>11

\* A line ends: the rest of its bytes.
LEMMA FinishGrows ==
  ASSUME FileIs, FinishLine
  PROVE  FileIs' /\ Len(file) <= Len(file')
  <1>1. stream \in Seq(Line) /\ file \in Seq(Byte) /\ Holding(file, stream)
    BY DEF FileIs
  <1>2. PICK n \in Nat : n = Len(stream)
    BY <1>1
  <1>3. PICK m \in Nat : m = Len(file)
    BY <1>1
  <1>4. PICK t : t = Torn
    OBVIOUS
  <1>5. n >= 1 /\ t \in 0 .. LineSize - 1 /\ m = LineSize * (n - 1) + t
    <2>1. LineSize * (n - 1) < m /\ m <= LineSize * n
      BY <1>2, <1>3 DEF FileIs
    <2>2. t = m % LineSize /\ t # 0
      BY <1>3, <1>4 DEF FinishLine, Torn
    <2> QED BY <2>1, <2>2 DEF LineSize
  <1>6. Last(stream) = stream[n]
    BY <1>2 DEF Last
  <1>7. file' = file \o SubSeq(BytesOf(stream[n], n), t + 1, LineSize) /\ stream' = stream
    BY <1>2, <1>4, <1>6 DEF FinishLine
  <1>8. LineSize \in t + 1 .. LineSize
    BY <1>5 DEF LineSize
  <1>9. /\ file' \in Seq(Byte) /\ Len(file') = LineSize * (n - 1) + LineSize
        /\ Holding(file', stream)
    BY <1>1, <1>2, <1>3, <1>5, <1>7, <1>8, MoreBytes
  <1>10. /\ LineSize * (n - 1) < LineSize * (n - 1) + LineSize
         /\ LineSize * (n - 1) + LineSize <= LineSize * n
         /\ m <= LineSize * (n - 1) + LineSize
    BY <1>5 DEF LineSize
  <1>11. Len(file) <= Len(file')
    BY <1>3, <1>9, <1>10
  <1> QED BY <1>1, <1>2, <1>7, <1>9, <1>10, <1>11 DEF FileIs

LEMMA ConfStep == ConfInv /\ [Next]_vars => ConfInv'
  <1> SUFFICES ASSUME ConfInv, [Next]_vars PROVE ConfInv'
    OBVIOUS
  <1>1. decl \in Decl /\ FileIs /\ StreamIs /\ RecordIs /\ VerdictIs
    BY DEF ConfInv
  <1>2. ASSUME UNCHANGED <<decl, stream, file>>
        PROVE  /\ decl' \in Decl /\ FileIs' /\ StreamIs'
               /\ BuilderLines' = BuilderLines /\ VerifierLines' = VerifierLines
               /\ RecordOf' = RecordOf
    <2>1. FileIs' /\ StreamIs'
      BY <1>1, <1>2 DEF FileIs, StreamIs, Written
    <2>2. BuilderLines' = BuilderLines
      BY <1>2 DEF BuilderLines, Lines, Torn
    <2>3. VerifierLines' = VerifierLines
      BY <2>2 DEF VerifierLines
    <2>4. RecordOf' = RecordOf
      BY <2>2, <1>2 DEF RecordOf
    <2> QED BY <1>1, <1>2, <2>1, <2>2, <2>3, <2>4
  <1>3. ASSUME executor = "running" PROVE statement = NoRecord
    BY <1>1, <1>3 DEF RecordIs
  <1>4. CASE StartLine
    <2>1. statement' = NoRecord /\ verdict' = verdict /\ decl' = decl
      BY <1>3, <1>4 DEF StartLine
    <2>2. RecordIs' /\ VerdictIs'
      BY <2>1, <1>1, <1>3, <1>4 DEF RecordIs, VerdictIs, StartLine
    <2> QED BY <1>1, <1>4, <2>1, <2>2, StartGrows DEF ConfInv
  <1>5. CASE FinishLine
    <2>1. statement' = NoRecord /\ verdict' = verdict /\ decl' = decl /\ stream' = stream
      BY <1>3, <1>5 DEF FinishLine
    <2>2. RecordIs' /\ VerdictIs'
      BY <2>1, <1>1, <1>3, <1>5 DEF RecordIs, VerdictIs, FinishLine
    <2>3. StreamIs'
      BY <2>1, <1>1 DEF StreamIs, Written
    <2> QED BY <1>1, <1>5, <2>1, <2>2, <2>3, FinishGrows DEF ConfInv
  <1>6. CASE ExecutorEnds
    <2>1. UNCHANGED <<decl, stream, file, statement, verdict>> /\ executor' = "gone"
      BY <1>6 DEF ExecutorEnds
    <2>2. RecordIs' /\ VerdictIs'
      BY <2>1, <1>1, <1>2 DEF RecordIs, VerdictIs
    <2> QED BY <2>1, <2>2, <1>2 DEF ConfInv
  <1>7. CASE Build
    <2>1. UNCHANGED <<decl, stream, file, executor>> /\ executor # "running" /\ verdict = "none"
      BY <1>7 DEF Build
    <2>2. CASE TornChar \/ ~Rooted(Uses(BuilderLines))
      <3>1. verdict' = "no record" /\ statement' = NoRecord
        BY <1>7, <2>2 DEF Build
      <3>2. RecordIs' /\ VerdictIs'
        BY <3>1 DEF RecordIs, VerdictIs
      <3> QED BY <2>1, <3>2, <1>2 DEF ConfInv
    <2>3. CASE ~(TornChar \/ ~Rooted(Uses(BuilderLines)))
      <3>1. verdict' = "none" /\ statement' = RecordOf /\ Rooted(Uses(BuilderLines))
        BY <1>7, <2>1, <2>3 DEF Build, RecordOf
      <3>2. RecordIs' /\ VerdictIs'
        BY <3>1, <2>1, <1>2 DEF RecordIs, VerdictIs
      <3> QED BY <2>1, <3>2, <1>2 DEF ConfInv
    <2> QED BY <2>2, <2>3
  <1>8. CASE Verify
    <2>1. /\ UNCHANGED <<decl, stream, file, executor, statement>> /\ statement # NoRecord
          /\ verdict' = Verdict(statement, decl, VerifierLines)
      BY <1>8 DEF Verify
    <2>2. RecordIs' /\ VerdictIs'
      BY <2>1, <1>1, <1>2 DEF RecordIs, VerdictIs
    <2> QED BY <2>1, <2>2, <1>2 DEF ConfInv
  <1>9. CASE Watch \/ UNCHANGED vars
    <2>1. UNCHANGED <<decl, stream, file, executor, statement, verdict>>
      BY <1>9 DEF Watch, Poll, Read, vars
    <2>2. RecordIs' /\ VerdictIs'
      BY <2>1, <1>1, <1>2 DEF RecordIs, VerdictIs
    <2> QED BY <2>1, <2>2, <1>2 DEF ConfInv
  <1> QED BY <1>4, <1>5, <1>6, <1>7, <1>8, <1>9 DEF Next

LEMMA ConfInductive == Spec => []ConfInv
  BY ConfInit, ConfStep, PTL DEF Spec

-----------------------------------------------------------------------------
(* What the two verdicts about the run say.                                  *)

Open(facts) == \E c \in facts.exercised : c.result = "unresolved"
AsBuilt(rec, d, E) ==
  /\ rec.declared = d /\ rec.facts = Recompute(E)
  /\ rec.unused = d.tools \ Executed(Recompute(E).exercised)

LEMMA VerdictSays ==
  ASSUME NEW rec, NEW d, NEW E
  PROVE  /\ Verdict(rec, d, E) = "CONFORMANT" <=>
              /\ d.tools # {} /\ Uses(E) = Resolved(Uses(E)) /\ AsBuilt(rec, d, E)
              /\ Recompute(E).complete /\ ~Open(Recompute(E)) /\ Inside(Recompute(E), d)
         /\ Verdict(rec, d, E) = "DIVERGENT" =>
              ~AsBuilt(rec, d, E) \/ ~Inside(Recompute(E), d)
  <1>1. PICK f : f = Recompute(E)
    OBVIOUS
  <1>2. PICK v : v = Verdict(rec, d, E)
    OBVIOUS
  <1>3. v = IF d.tools = {} THEN "NOT-MEASURED"
            ELSE IF Uses(E) # Resolved(Uses(E)) THEN "NOT-RECOMPUTABLE"
            ELSE IF ~AsBuilt(rec, d, E) THEN "DIVERGENT"
            ELSE IF ~f.complete \/ Open(f) THEN "INCOMPLETE"
            ELSE IF ~Inside(f, d) THEN "DIVERGENT" ELSE "CONFORMANT"
    BY <1>1, <1>2 DEF Verdict, AsBuilt, Open
  <1>4. v = "CONFORMANT" <=> /\ d.tools # {} /\ Uses(E) = Resolved(Uses(E)) /\ AsBuilt(rec, d, E)
                             /\ f.complete /\ ~Open(f) /\ Inside(f, d)
    BY <1>3
  <1>5. v = "DIVERGENT" => ~AsBuilt(rec, d, E) \/ ~Inside(f, d)
    BY <1>3
  <1> QED BY <1>1, <1>2, <1>4, <1>5

LEMMA SoundLines == ASSUME ConfInv PROVE Sound(BuilderLines) /\ VerifierLines \subseteq BuilderLines
  BY PartsRead, SoundPart DEF ConfInv, StreamIs, VerifierLines

\* A run left its declaration when a call that ran is off the surface or runs
\* what is deeper than declared.
LEMMA LeftIs ==
  ASSUME ConfInv, Rooted(Uses(BuilderLines))
  PROVE  Left <=> ~Inside(Analyze(BuilderLines), decl)
  <1> DEFINE B == BuilderLines
             U == Uses(B)
             D == DepthByChain(U)
  <1>1. Sound(B) /\ Tree(U) /\ decl.depth \in Nat
    BY SoundLines, SoundTree, DeclAssumption DEF ConfInv
  <1>2. \A u \in U : D[u] \in Nat /\ D[u] < u.id /\ u.id \in Nat /\ u.id <= MaxCalls
    BY <1>1, DepthIs, UseFields DEF Tree
  <1>3. Inside(Analyze(B), decl) <=>
          \A u \in RanIn(B) : u.tool \in decl.tools /\ (u.tool = Agent => D[u] + 1 <= decl.depth)
    BY <1>1, FactsAre, InsideSays
  <1>4. Ran = RanIn(B) /\ RanIn(B) \subseteq U
    BY DEF Ran, RanIn
  <1>5. Cardinality(Id) = MaxCalls
    <2>1. Cardinality(1 .. MaxCalls) = MaxCalls
      BY StreamAssumption, FS_Interval
    <2> QED BY <2>1 DEF Id
  <1>6. TooDeep <=> \E n \in 1 .. MaxCalls : n > decl.depth /\
                      \E c \in [1 .. n -> U] : Chain(c, n) /\ c[n] \in RanIn(B) /\ c[n].tool = Agent
    BY <1>4, <1>5 DEF TooDeep
  <1>7. OffSurface <=> \E u \in RanIn(B) : u.tool \notin decl.tools
    BY <1>4 DEF OffSurface
  <1> HIDE DEF D
  <1>8. ASSUME NEW n \in 1 .. MaxCalls, NEW c \in [1 .. n -> U], Chain(c, n)
        PROVE  c[n] \in U /\ D[c[n]] = n - 1
    <2>1. n \in Nat /\ n >= 1
      BY StreamAssumption
    <2> QED BY <2>1, <1>1, <1>8, ChainDepth DEF D
  <1>9. ASSUME NEW u \in RanIn(B), u.tool = Agent, ~(D[u] + 1 <= decl.depth)
        PROVE  TooDeep
    <2>1. u \in U
      BY <1>4
    <2>2. PICK n \in Nat, c \in [1 .. (D[u] + 1) -> U] : n = D[u] + 1 /\ Chain(c, n) /\ c[n] = u
      BY <1>1, <2>1, ChainTo DEF D
    <2>3. n \in 1 .. MaxCalls /\ n > decl.depth
      BY <2>1, <2>2, <1>1, <1>2, <1>9, StreamAssumption
    <2>4. c \in [1 .. n -> U]
      BY <2>2
    <2> QED BY <2>2, <2>3, <2>4, <1>6, <1>9
  <1>10. ASSUME NEW n \in 1 .. MaxCalls, NEW c \in [1 .. n -> U], Chain(c, n), n > decl.depth
         PROVE  ~(D[c[n]] + 1 <= decl.depth)
    BY <1>1, <1>8, <1>10, StreamAssumption
  <1>11. TooDeep <=> \E u \in RanIn(B) : u.tool = Agent /\ ~(D[u] + 1 <= decl.depth)
    BY <1>6, <1>9, <1>10
  <1> QED BY <1>3, <1>7, <1>11 DEF Left

LEMMA AnsweredIs ==
  ASSUME ConfInv
  PROVE  /\ Answered <=> ~Open(Analyze(BuilderLines))
         /\ HasEnd(BuilderLines) = Analyze(BuilderLines).complete
  BY SoundLines, FactsAre, FactsSay DEF Answered, Open

LEMMA EarnedOf == ConfInv => PassIsEarned
  <1> SUFFICES ASSUME ConfInv, verdict = "CONFORMANT"
               PROVE  HasEnd(BuilderLines) /\ Answered /\ ~Left
    BY DEF PassIsEarned
  <1>1. RecordIs /\ VerdictIs
    BY DEF ConfInv
  <1>2. /\ statement = RecordOf /\ Rooted(Uses(BuilderLines))
        /\ Verdict(statement, decl, VerifierLines) = "CONFORMANT"
    BY <1>1 DEF RecordIs, VerdictIs
  <1>3. PICK f : f = Recompute(VerifierLines)
    OBVIOUS
  <1>4. statement.facts = f /\ f.complete /\ ~Open(f) /\ Inside(f, decl)
    BY <1>2, <1>3, VerdictSays DEF AsBuilt
  <1>5. statement.facts = Analyze(BuilderLines)
    BY <1>2 DEF RecordOf
  <1> QED BY <1>2, <1>4, <1>5, LeftIs, AnsweredIs

LEMMA TrueOf == ConfInv => VerdictIsTheRuns
  <1> SUFFICES ASSUME ConfInv, \A e \in BuilderLines : ~Split(e),
                      statement # NoRecord, verdict # "none"
               PROVE  /\ verdict = "DIVERGENT" => Left
                      /\ HasEnd(BuilderLines) /\ Answered /\ ~Left => verdict = "CONFORMANT"
    BY DEF VerdictIsTheRuns
  <1>1. VerifierLines = BuilderLines
    BY DEF VerifierLines
  <1>2. RecordIs /\ VerdictIs /\ decl \in Decl
    BY DEF ConfInv
  <1>3. /\ statement = RecordOf /\ Rooted(Uses(BuilderLines))
        /\ verdict = Verdict(statement, decl, BuilderLines)
    BY <1>1, <1>2 DEF RecordIs, VerdictIs
  <1>4. /\ Recompute(BuilderLines) = Analyze(BuilderLines)
        /\ Uses(BuilderLines) = Resolved(Uses(BuilderLines))
    BY <1>3, SoundLines, SameFacts
  <1>5. AsBuilt(statement, decl, BuilderLines)
    BY <1>3, <1>4 DEF AsBuilt, RecordOf
  <1>6. decl.tools # {}
    BY <1>2, DeclAssumption
  <1> QED BY <1>3, <1>4, <1>5, <1>6, VerdictSays, LeftIs, AnsweredIs

-----------------------------------------------------------------------------
(* The narrowing: of a conformant run in which delegations ran something     *)
(* and were answered, the deepest call has a parent that is a delegation     *)
(* inside the declaration, and each delegation has a call one deeper.        *)

LEMMA MaxOf ==
  ASSUME NEW S \in SUBSET Nat, S # {}, NEW N \in Nat, \A x \in S : x <= N
  PROVE  Max(S) \in S /\ \A y \in S : y <= Max(S)
  <1> DEFINE R == {N - x : x \in S}
  <1>1. R \in SUBSET Nat /\ R # {}
    <2>1. \A x \in S : N - x \in Nat
      OBVIOUS
    <2> QED BY <2>1
  <1>2. PICK m \in R : \A n \in R : m <= n
    <2> HIDE DEF R
    <2> QED BY <1>1, LeastOf
  <1>3. PICK x \in S : m = N - x
    OBVIOUS
  <1>4. \A y \in S : x >= y
    <2>1. ASSUME NEW y \in S PROVE x >= y
      <3>1. N - y \in R
        OBVIOUS
      <3>2. N - x <= N - y /\ x \in Nat /\ y \in Nat
        BY <3>1, <1>2, <1>3
      <3> QED BY <3>2
    <2> QED BY <2>1
  <1>5. Max(S) \in S /\ \A y \in S : Max(S) >= y
    BY <1>4 DEF Max
  <1>6. \A y \in S : Max(S) >= y => y <= Max(S)
    BY <1>5
  <1> QED BY <1>5, <1>6

LEMMA NarrowOf == ConfInv => NarrowingHolds
  <1> DEFINE B == BuilderLines
             U == Uses(B)
             D == DepthByChain(U)
             n == Narrowed(statement)
  <1> SUFFICES ASSUME ConfInv, verdict = "CONFORMANT", DelegationsRan
               PROVE  /\ n.tools \subseteq decl.tools /\ n.depth <= decl.depth
                      /\ Inside(statement.facts, n)
    BY DEF NarrowingHolds
  <1>1. RecordIs /\ VerdictIs /\ decl \in Decl /\ decl.depth \in Nat
    BY DeclAssumption DEF ConfInv
  <1>2. statement = RecordOf /\ Rooted(U) /\ Verdict(statement, decl, VerifierLines) = "CONFORMANT"
    BY <1>1 DEF RecordIs, VerdictIs
  <1>3. statement.declared = decl /\ statement.facts = FactsOf(B, D)
    BY <1>2, FactsAre DEF RecordOf
  <1>4. Sound(B) /\ Tree(U)
    BY <1>2, SoundLines, SoundTree
  <1>5. Inside(FactsOf(B, D), decl)
    BY <1>2, <1>3, VerdictSays DEF AsBuilt
  <1>6. \A u \in RanIn(B) : u.tool \in decl.tools /\ (u.tool = Agent => D[u] + 1 <= decl.depth)
    BY <1>4, <1>5, InsideSays
  <1>7. Ran = RanIn(B) /\ RanIn(B) \subseteq U
    BY DEF Ran, RanIn
  <1>8. \A u \in U : D[u] \in Nat /\ Solves(D, U, u) /\ D[u] <= MaxCalls
    <2>1. \A u \in U : D[u] \in Nat /\ Solves(D, U, u) /\ D[u] < u.id
      BY <1>4, DepthIs
    <2>2. \A u \in U : u.id \in Nat /\ u.id <= MaxCalls
      BY <1>4, UseFields DEF Tree
    <2> HIDE DEF D
    <2> QED BY <2>1, <2>2, StreamAssumption
  <1> DEFINE ex == FactsOf(B, D).exercised
             ran == {c \in ex : c.result = "ok"}
             S == {D[u] : u \in RanIn(B)}
  <1>9. {c.depth : c \in ran} = S
    <2>1. \A c : c \in ex <=> \E u \in U : c = Call(B, u, D[u])
      BY DEF FactsOf, CallsOf
    <2>2. \A u \in U : /\ Call(B, u, D[u]).depth = D[u]
                       /\ Call(B, u, D[u]).result = "ok" <=> u \in RanIn(B)
      BY <1>4, CallFields, OutcomeIs
    <2> HIDE DEF ex, D
    <2> QED BY <2>1, <2>2, <1>7
  <1>10. n.tools = decl.tools \cap Executed(ran) /\ n.depth = IF S = {} THEN 0 ELSE Max(S)
    <2>1. n.tools = decl.tools \cap Executed(ran)
      BY <1>3 DEF Narrowed
    <2>2. n.depth = IF ran = {} THEN 0 ELSE Max({c.depth : c \in ran})
      BY <1>3 DEF Narrowed
    <2> HIDE DEF ran, S, n
    <2>3. ran = {} <=> S = {}
      BY <1>9
    <2> QED BY <2>1, <2>2, <2>3, <1>9
  <1>11. Executed(ran) = {u.tool : u \in RanIn(B)}
    <2>1. Executed(ran) = Executed(ex)
      BY DEF Executed
    <2> HIDE DEF ran
    <2> QED BY <2>1, <1>4, FactsSay
  <1> HIDE DEF n, ran, ex
  <1>12. S \in SUBSET Nat /\ \A d \in S : d <= MaxCalls
    <2> HIDE DEF D
    <2> QED BY <1>7, <1>8
  <1>13. /\ \A u \in RanIn(B) : D[u] <= n.depth
         /\ n.depth \in Nat /\ (n.depth = 0 \/ \E u \in RanIn(B) : n.depth = D[u])
    <2> HIDE DEF D
    <2>1. CASE S = {}
      BY <2>1, <1>10
    <2>2. CASE S # {}
      <3>1. n.depth \in S /\ \A d \in S : d <= n.depth
        <4> HIDE DEF S
        <4> QED BY <2>2, <1>10, <1>12, MaxOf, StreamAssumption
      <3> QED BY <3>1, <1>12
    <2> QED BY <2>1, <2>2
  <1>14. ASSUME NEW u \in RanIn(B) PROVE D[u] <= decl.depth
    <2>1. CASE u.parent = Top
      <3>1. D[u] = 0
        BY <2>1, <1>7, <1>8 DEF Solves
      <3> QED BY <3>1, <1>1
    <2>2. CASE u.parent # Top
      <3>1. PICK p \in U : p = Spawner(U, u)
        BY <2>2, <1>4, <1>7, SpawnerIs
      <3>2. p.id = u.parent /\ D[u] = 1 + D[p]
        BY <2>2, <3>1, <1>4, <1>7, <1>8, SpawnerIs DEF Solves
      <3>3. p.tool = Agent
        BY <3>2, <1>4, <1>7 DEF Sound, Delegated
      <3>4. p \in RanIn(B)
        BY <3>2, <3>3, <1>7 DEF DelegationsRan
      <3>5. D[p] + 1 <= decl.depth /\ D[p] \in Nat
        BY <3>3, <3>4, <1>6, <1>8
      <3> HIDE DEF D
      <3> QED BY <3>2, <3>5, <1>1
    <2> QED BY <2>1, <2>2
  <1>15. ASSUME NEW u \in RanIn(B), u.tool = Agent PROVE D[u] + 1 <= n.depth
    <2>1. PICK v \in RanIn(B) : v.parent = u.id
      BY <1>7, <1>15 DEF DelegationsRan
    <2>2. u \in U /\ v \in U /\ v.parent # Top
      BY <2>1, <1>4, <1>7, UseFields DEF Tree, Top
    <2>3. u = Spawner(U, v)
      BY <2>1, <2>2, <1>4, SpawnerIs
    <2>4. D[v] = 1 + D[u] /\ D[v] \in Nat /\ D[u] \in Nat
      BY <2>2, <2>3, <1>8 DEF Solves
    <2> HIDE DEF D
    <2>5. D[v] <= n.depth
      BY <1>13
    <2> QED BY <2>4, <2>5, <1>13
  <1>16. \A u \in RanIn(B) : u.tool \in n.tools
    BY <1>6, <1>10, <1>11
  <1>17. Inside(FactsOf(B, D), n)
    BY <1>4, <1>15, <1>16, InsideSays
  <1>18. n.depth <= decl.depth
    <2> HIDE DEF D
    <2> QED BY <1>1, <1>13, <1>14
  <1> QED BY <1>3, <1>10, <1>17, <1>18

-----------------------------------------------------------------------------
(* The tally of a stream's first n lines, which is what the watcher has fed  *)
(* when it has read those: one line more is one step of Feed.                *)

Tallies(f, s, tools) ==
  f = [n \in 0 .. Len(s) |-> IF n = 0 THEN NoTally ELSE Fed(f[n - 1], s[n], tools)]

LEMMA FedIs ==
  ASSUME NEW t, NEW e, NEW tools
  PROVE  Fed(t, e, tools) = Feed(t, e, tools)
  <1>1. {Feed(u, e, tools) : u \in {t}} = {Feed(t, e, tools)}
    OBVIOUS
  <1> HIDE DEF Feed
  <1> QED BY <1>1 DEF Fed

LEMMA TalliesExist ==
  ASSUME NEW s, NEW tools, Len(s) \in Nat
  PROVE  \E f : Tallies(f, s, tools)
  <1> DEFINE At(f, n) == IF n = 0 THEN NoTally ELSE Fed(f[n - 1], s[n], tools)
             Upto(k) == \E f : \A n \in 0 .. k : f[n] = At(f, n)
             T == {k \in Nat : Upto(k)}
  <1>1. 0 \in T
    <2> DEFINE f == [n \in 0 .. 0 |-> NoTally]
    <2>1. \A n \in 0 .. 0 : f[n] = At(f, n)
      OBVIOUS
    <2> QED BY <2>1
  <1>2. ASSUME NEW k \in T PROVE k + 1 \in T
    <2>1. k \in Nat /\ k + 1 \in Nat
      OBVIOUS
    <2>2. PICK f : \A n \in 0 .. k : f[n] = At(f, n)
      OBVIOUS
    <2> DEFINE g == [n \in 0 .. k + 1 |-> IF n <= k THEN f[n] ELSE Fed(f[k], s[n], tools)]
    <2>3. \A n \in 0 .. k : g[n] = f[n]
      BY <2>1
    <2>4. g[k + 1] = Fed(f[k], s[k + 1], tools)
      BY <2>1
    <2>5. ASSUME NEW n \in 0 .. k + 1 PROVE g[n] = At(g, n)
      <3> HIDE DEF g
      <3>1. CASE n = k + 1
        <4>1. n # 0 /\ n - 1 = k /\ k \in 0 .. k
          BY <3>1, <2>1
        <4>2. g[n - 1] = f[k]
          BY <4>1, <2>3
        <4> QED BY <3>1, <4>1, <4>2, <2>4
      <3>2. CASE n # k + 1
        <4>1. n \in 0 .. k
          BY <3>2, <2>1
        <4>2. CASE n = 0
          BY <4>1, <4>2, <2>2, <2>3
        <4>3. CASE n # 0
          <5>1. n - 1 \in 0 .. k
            BY <4>1, <4>3
          <5> QED BY <4>1, <4>3, <5>1, <2>2, <2>3
        <4> QED BY <4>2, <4>3
      <3> QED BY <3>1, <3>2
    <2> HIDE DEF g, At
    <2> QED BY <2>1, <2>5
  <1> HIDE DEF Upto
  <1>3. T = Nat
    BY <1>1, <1>2, SetInduction
  <1>4. Upto(Len(s))
    BY <1>3
  <1>5. PICK f : \A n \in 0 .. Len(s) : f[n] = At(f, n)
    BY <1>4 DEF Upto
  <1> DEFINE g == [n \in 0 .. Len(s) |-> f[n]]
  <1>6. ASSUME NEW n \in 0 .. Len(s) PROVE g[n] = At(g, n)
    <2>1. CASE n = 0
      BY <2>1, <1>5
    <2>2. CASE n # 0
      <3>1. n - 1 \in 0 .. Len(s)
        BY <2>2
      <3>2. g[n - 1] = f[n - 1] /\ g[n] = f[n]
        BY <3>1
      <3> QED BY <3>2, <2>2, <1>5
    <2> QED BY <2>1, <2>2
  <1>7. g = [n \in 0 .. Len(s) |-> At(g, n)]
    BY <1>6
  <1>8. Tallies(g, s, tools)
    BY <1>7 DEF Tallies
  <1> QED BY <1>8

LEMMA TallyOf ==
  ASSUME NEW s, NEW tools, Len(s) \in Nat
  PROVE  \E f : Tallies(f, s, tools) /\ Tally(s, tools) = f[Len(s)]
  <1> DEFINE f == CHOOSE g : Tallies(g, s, tools)
  <1>1. Tally(s, tools) = f[Len(s)]
    BY DEF Tally, Tallies
  <1>2. Tallies(f, s, tools)
    BY TalliesExist
  <1> QED BY <1>1, <1>2

TallyAt(s, n, tools) == Tally(SubSeq(s, 1, n), tools)

LEMMA NothingFed ==
  ASSUME NEW s \in Seq(Line), NEW tools
  PROVE  TallyAt(s, 0, tools) = NoTally
  <1>1. PICK N \in Nat : N = Len(s)
    OBVIOUS
  <1>2. PICK a : a = SubSeq(s, 1, 0)
    OBVIOUS
  <1>3. Len(a) = 0
    <2>1. 1 \in 1 .. N + 1 /\ 0 \in 1 - 1 .. N /\ 0 - 1 + 1 = 0
      OBVIOUS
    <2>2. Len(a) = 0 - 1 + 1
      BY <2>1, <1>1, <1>2, SliceIs
    <2> QED BY <2>1, <2>2
  <1>4. PICK f : Tallies(f, a, tools) /\ Tally(a, tools) = f[0]
    BY <1>3, TallyOf
  <1> QED BY <1>2, <1>3, <1>4 DEF Tallies, TallyAt

LEMMA TallyMore ==
  ASSUME NEW s \in Seq(Line), NEW tools, NEW n \in Nat, n + 1 <= Len(s)
  PROVE  TallyAt(s, n + 1, tools) = Feed(TallyAt(s, n, tools), s[n + 1], tools)
  <1>1. PICK a : a = SubSeq(s, 1, n)
    OBVIOUS
  <1>2. PICK b : b = SubSeq(s, 1, n + 1)
    OBVIOUS
  <1>3. Len(a) = n /\ \A i \in 1 .. n : a[i] = s[i]
    <2>1. 1 \in 1 .. Len(s) + 1 /\ n \in 1 - 1 .. Len(s) /\ n - 1 + 1 = n
      OBVIOUS
    <2>2. Len(a) = n - 1 + 1 /\ \A i \in 1 .. n - 1 + 1 : a[i] = s[1 + i - 1]
      BY <2>1, <1>1, SliceIs
    <2> QED BY <2>1, <2>2
  <1>4. Len(b) = n + 1 /\ \A i \in 1 .. n + 1 : b[i] = s[i]
    <2>1. 1 \in 1 .. Len(s) + 1 /\ n + 1 \in 1 - 1 .. Len(s) /\ (n + 1) - 1 + 1 = n + 1
      OBVIOUS
    <2>2. Len(b) = (n + 1) - 1 + 1 /\ \A i \in 1 .. (n + 1) - 1 + 1 : b[i] = s[1 + i - 1]
      BY <2>1, <1>2, SliceIs
    <2> QED BY <2>1, <2>2
  <1>5. PICK f : Tallies(f, a, tools) /\ Tally(a, tools) = f[n]
    BY <1>3, TallyOf
  <1>6. PICK g : Tallies(g, b, tools) /\ Tally(b, tools) = g[n + 1]
    BY <1>4, TallyOf
  <1>7. /\ f[0] = NoTally
        /\ \A k \in 0 .. n : k # 0 => f[k] = Fed(f[k - 1], a[k], tools)
    BY <1>3, <1>5 DEF Tallies
  <1>8. /\ g[0] = NoTally
        /\ \A k \in 0 .. n + 1 : k # 0 => g[k] = Fed(g[k - 1], b[k], tools)
    BY <1>4, <1>6 DEF Tallies
  <1> DEFINE T == {k \in Nat : k <= n => f[k] = g[k]}
  <1>9. 0 \in T
    BY <1>7, <1>8
  <1>10. ASSUME NEW k \in T PROVE k + 1 \in T
    <2>1. ASSUME k + 1 <= n PROVE f[k + 1] = g[k + 1]
      <3>1. /\ k + 1 \in 0 .. n /\ k + 1 \in 0 .. n + 1 /\ k + 1 # 0 /\ (k + 1) - 1 = k
            /\ k + 1 \in 1 .. n /\ k + 1 \in 1 .. n + 1 /\ k <= n
        BY <2>1
      <3>2. a[k + 1] = b[k + 1] /\ f[k] = g[k]
        BY <3>1, <1>3, <1>4
      <3> QED BY <3>1, <3>2, <1>7, <1>8
    <2> QED BY <2>1
  <1>11. T = Nat
    BY <1>9, <1>10, SetInduction
  <1>12. f[n] = g[n]
    BY <1>11
  <1>13. g[n + 1] = Fed(g[n], b[n + 1], tools)
    <2>1. n + 1 \in 0 .. n + 1 /\ n + 1 # 0 /\ (n + 1) - 1 = n
      OBVIOUS
    <2> QED BY <2>1, <1>8
  <1>14. b[n + 1] = s[n + 1]
    BY <1>4
  <1> QED BY <1>1, <1>2, <1>5, <1>6, <1>12, <1>13, <1>14, FedIs DEF TallyAt

-----------------------------------------------------------------------------
(* What a tally says of the events it was fed.                               *)

Shape(t) ==
  t = [calls |-> t.calls, depths |-> t.depths, oosEmit |-> t.oosEmit, oosExec |-> t.oosExec,
       pending |-> t.pending, unresolved |-> t.unresolved, complete |-> t.complete]

OpenIds(P) == {u.id : u \in {v \in Uses(P) : ResultsOf(P, v.id) = {}}}
OffIds(P, tools) ==
  {u.id : u \in {v \in Uses(P) : v.tool \notin tools /\ ResultsOf(P, v.id) = {}}}
Escaped(P, tools) == \E u \in RanIn(P) : u.tool \notin tools

TallySays(t, P, tools) ==
  /\ Shape(t)
  /\ t.complete <=> HasEnd(P)
  /\ t.unresolved = OpenIds(P) /\ t.pending = OffIds(P, tools)
  /\ t.oosExec \in Nat /\ (t.oosExec > 0 <=> Escaped(P, tools))

Fresh(P, e) ==
  /\ e \in UseLine => \A f \in P : f \in UseLine \cup ResultLine => f.id # e.id
  /\ e \in ResultLine => (\E u \in Uses(P) : u.id = e.id) /\ ResultsOf(P, e.id) = {}

LEMMA FeedUse ==
  ASSUME NEW t, Shape(t), NEW e \in UseLine, NEW tools, NEW r, r = Feed(t, e, tools)
  PROVE  /\ Shape(r) /\ r.complete = t.complete /\ r.oosExec = t.oosExec
         /\ r.unresolved = t.unresolved \cup {e.id}
         /\ e.tool \notin tools => r.pending = t.pending \cup {e.id}
         /\ e.tool \in tools => r.pending = t.pending
  <1>1. r = [t EXCEPT !.calls = @ + 1,
                      !.depths = @ \cup {[id |-> e.id, depth |-> DepthSeen(t, e.parent)]},
                      !.unresolved = @ \cup {e.id},
                      !.oosEmit = IF e.tool \notin tools THEN @ + 1 ELSE @,
                      !.pending = IF e.tool \notin tools THEN @ \cup {e.id} ELSE @]
    BY DEF Feed, UseLine
  <1>2. r = [calls |-> t.calls + 1,
             depths |-> t.depths \cup {[id |-> e.id, depth |-> DepthSeen(t, e.parent)]},
             oosEmit |-> IF e.tool \notin tools THEN t.oosEmit + 1 ELSE t.oosEmit,
             oosExec |-> t.oosExec,
             pending |-> IF e.tool \notin tools THEN t.pending \cup {e.id} ELSE t.pending,
             unresolved |-> t.unresolved \cup {e.id}, complete |-> t.complete]
    BY <1>1 DEF Shape
  <1> QED BY <1>2 DEF Shape

LEMMA FeedResult ==
  ASSUME NEW t, Shape(t), NEW e \in ResultLine, NEW tools, NEW r, r = Feed(t, e, tools)
  PROVE  /\ Shape(r) /\ r.complete = t.complete
         /\ r.unresolved = t.unresolved \ {e.id} /\ r.pending = t.pending \ {e.id}
         /\ r.oosExec = IF e.id \in t.pending /\ ~e.error THEN t.oosExec + 1 ELSE t.oosExec
  <1>1. r = [t EXCEPT !.unresolved = @ \ {e.id}, !.pending = @ \ {e.id},
                      !.oosExec = IF e.id \in t.pending /\ ~e.error THEN @ + 1 ELSE @]
    BY DEF Feed, ResultLine
  <1>2. r = [calls |-> t.calls, depths |-> t.depths, oosEmit |-> t.oosEmit,
             oosExec |-> IF e.id \in t.pending /\ ~e.error THEN t.oosExec + 1 ELSE t.oosExec,
             pending |-> t.pending \ {e.id}, unresolved |-> t.unresolved \ {e.id},
             complete |-> t.complete]
    BY <1>1 DEF Shape
  <1> QED BY <1>2 DEF Shape

LEMMA FeedEnd ==
  ASSUME NEW t, Shape(t), NEW e \in EndLine, NEW tools, NEW r, r = Feed(t, e, tools)
  PROVE  /\ Shape(r) /\ r.complete /\ r.oosExec = t.oosExec
         /\ r.unresolved = t.unresolved /\ r.pending = t.pending
  <1>1. r = [t EXCEPT !.complete = TRUE]
    BY DEF Feed, EndLine
  <1>2. r = [calls |-> t.calls, depths |-> t.depths, oosEmit |-> t.oosEmit,
             oosExec |-> t.oosExec, pending |-> t.pending, unresolved |-> t.unresolved,
             complete |-> TRUE]
    BY <1>1 DEF Shape
  <1> QED BY <1>2 DEF Shape

LEMMA FeedSays ==
  ASSUME NEW P \in SUBSET Line, Told(Uses(P)), NEW e \in Line, Fresh(P, e),
         NEW tools, NEW t, TallySays(t, P, tools)
  PROVE  TallySays(Feed(t, e, tools), P \cup {e}, tools)
  <1>0. PICK Q : Q = P \cup {e}
    OBVIOUS
  <1>1. PICK r : r = Feed(t, e, tools)
    OBVIOUS
  <1>2. /\ Shape(t) /\ (t.complete <=> HasEnd(P))
        /\ t.unresolved = OpenIds(P) /\ t.pending = OffIds(P, tools)
        /\ t.oosExec \in Nat /\ (t.oosExec > 0 <=> Escaped(P, tools))
    BY DEF TallySays
  <1>8. Shape(t)
    BY <1>2
  <1>3. /\ \A id : id \in OpenIds(P) <=>
                     \E u \in Uses(P) : ResultsOf(P, u.id) = {} /\ id = u.id
        /\ \A id : id \in OffIds(P, tools) <=>
                     \E u \in Uses(P) : u.tool \notin tools /\ ResultsOf(P, u.id) = {} /\ id = u.id
    BY DEF OpenIds, OffIds
  <1>4. /\ \A id : id \in OpenIds(Q) <=>
                     \E u \in Uses(Q) : ResultsOf(Q, u.id) = {} /\ id = u.id
        /\ \A id : id \in OffIds(Q, tools) <=>
                     \E u \in Uses(Q) : u.tool \notin tools /\ ResultsOf(Q, u.id) = {} /\ id = u.id
    BY DEF OpenIds, OffIds
  <1>5. CASE e \in UseLine
    <2>1. e.kind = "use" /\ Uses(Q) = Uses(P) \cup {e} /\ (\A id : ResultsOf(Q, id) = ResultsOf(P, id))
          /\ (HasEnd(Q) <=> HasEnd(P))
      BY <1>0, <1>5 DEF UseLine, Uses, ResultsOf, HasEnd
    <2>2. ResultsOf(P, e.id) = {}
      <3>1. ASSUME NEW f \in ResultsOf(P, e.id) PROVE FALSE
        <4>1. f \in P /\ f \in ResultLine /\ f.id = e.id
          BY Kinds DEF ResultsOf
        <4> QED BY <4>1, <1>5 DEF Fresh
      <3> QED BY <3>1
    <2>3. RanIn(Q) = RanIn(P)
      BY <2>1, <2>2 DEF RanIn
    <2>4. /\ Shape(r) /\ r.complete = t.complete /\ r.oosExec = t.oosExec
          /\ r.unresolved = t.unresolved \cup {e.id}
          /\ e.tool \notin tools => r.pending = t.pending \cup {e.id}
          /\ e.tool \in tools => r.pending = t.pending
      BY <1>1, <1>8, <1>5, FeedUse
    <2>5. OpenIds(Q) = OpenIds(P) \cup {e.id}
      <3>1. \A id : id \in OpenIds(Q) <=> id \in OpenIds(P) \/ id = e.id
        BY <1>3, <1>4, <2>1, <2>2
      <3> QED BY <3>1
    <2>6. OffIds(Q, tools) = IF e.tool \notin tools THEN OffIds(P, tools) \cup {e.id}
                             ELSE OffIds(P, tools)
      <3>1. \A id : id \in OffIds(Q, tools) <=>
                      id \in OffIds(P, tools) \/ (id = e.id /\ e.tool \notin tools)
        BY <1>3, <1>4, <2>1, <2>2
      <3> QED BY <3>1
    <2>7. Escaped(Q, tools) <=> Escaped(P, tools)
      BY <2>3 DEF Escaped
    <2>8. TallySays(r, Q, tools)
      BY <1>2, <2>1, <2>4, <2>5, <2>6, <2>7 DEF TallySays
    <2> QED BY <2>8, <1>0, <1>1
  <1>6. CASE e \in ResultLine
    <2>1. /\ e.kind = "result" /\ Uses(Q) = Uses(P) /\ (HasEnd(Q) <=> HasEnd(P))
          /\ \A id : ResultsOf(Q, id) = IF id = e.id THEN ResultsOf(P, id) \cup {e} ELSE ResultsOf(P, id)
      BY <1>0, <1>6 DEF ResultLine, Uses, ResultsOf, HasEnd
    <2>2. PICK u \in Uses(P) : u.id = e.id
      BY <1>6 DEF Fresh
    <2>3. ResultsOf(P, e.id) = {}
      BY <1>6 DEF Fresh
    <2>4. \A v \in Uses(P) : v.id = e.id => v = u
      BY <2>2 DEF Told
    <2>5. /\ Shape(r) /\ r.complete = t.complete
          /\ r.unresolved = t.unresolved \ {e.id} /\ r.pending = t.pending \ {e.id}
          /\ r.oosExec = IF e.id \in t.pending /\ ~e.error THEN t.oosExec + 1 ELSE t.oosExec
      BY <1>1, <1>8, <1>6, FeedResult
    <2>6. OpenIds(Q) = OpenIds(P) \ {e.id}
      <3>1. \A id : id \in OpenIds(Q) <=> id \in OpenIds(P) /\ id # e.id
        <4>1. \A v \in Uses(P) : ResultsOf(Q, v.id) = {} <=> ResultsOf(P, v.id) = {} /\ v.id # e.id
          BY <2>1
        <4>2. ASSUME NEW id
              PROVE  id \in OpenIds(Q) <=>
                       \E w \in Uses(P) : ResultsOf(P, w.id) = {} /\ w.id # e.id /\ id = w.id
          BY <4>1, <1>4, <2>1
        <4>3. ASSUME NEW id PROVE id \in OpenIds(Q) <=> id \in OpenIds(P) /\ id # e.id
          BY <4>2, <1>3
        <4> QED BY <4>3
      <3> QED BY <3>1
    <2>7. OffIds(Q, tools) = OffIds(P, tools) \ {e.id}
      <3>1. \A id : id \in OffIds(Q, tools) <=> id \in OffIds(P, tools) /\ id # e.id
        BY <1>3, <1>4, <2>1
      <3> QED BY <3>1
    <2>8. \A v \in Uses(P) : v \in RanIn(Q) <=> v \in RanIn(P) \/ (v = u /\ ~e.error)
      BY <2>1, <2>2, <2>3, <2>4 DEF RanIn
    <2>9. e.id \in OffIds(P, tools) <=> u.tool \notin tools
      BY <1>3, <2>2, <2>3, <2>4
    <2>10. RanIn(P) \subseteq Uses(P) /\ RanIn(Q) \subseteq Uses(P)
      BY <2>1 DEF RanIn
    <2>11. Escaped(Q, tools) <=> Escaped(P, tools) \/ (e.id \in OffIds(P, tools) /\ ~e.error)
      BY <2>8, <2>9, <2>10 DEF Escaped
    <2>12. r.oosExec \in Nat /\ (r.oosExec > 0 <=> Escaped(Q, tools))
      BY <1>2, <2>5, <2>11
    <2>13. TallySays(r, Q, tools)
      BY <1>2, <2>1, <2>5, <2>6, <2>7, <2>12 DEF TallySays
    <2> QED BY <2>13, <1>0, <1>1
  <1>7. CASE e \in EndLine
    <2>1. /\ e.kind = "end" /\ Uses(Q) = Uses(P) /\ HasEnd(Q) /\ \A id : ResultsOf(Q, id) = ResultsOf(P, id)
      BY <1>0, <1>7 DEF EndLine, Uses, ResultsOf, HasEnd
    <2>2. OpenIds(Q) = OpenIds(P) /\ OffIds(Q, tools) = OffIds(P, tools) /\ RanIn(Q) = RanIn(P)
      BY <2>1 DEF OpenIds, OffIds, RanIn
    <2>3. /\ Shape(r) /\ r.complete /\ r.oosExec = t.oosExec
          /\ r.unresolved = t.unresolved /\ r.pending = t.pending
      BY <1>1, <1>8, <1>7, FeedEnd
    <2>4. TallySays(r, Q, tools)
      BY <1>2, <2>1, <2>2, <2>3 DEF TallySays, Escaped
    <2> QED BY <2>4, <1>0, <1>1
  <1> QED BY <1>5, <1>6, <1>7 DEF Line

-----------------------------------------------------------------------------
(* The stream in its order: every line is fresh to those before it, and      *)
(* nothing follows the end.  So a tally of its first lines says what they do.*)

Prefix(s, n) == {s[i] : i \in 1 .. n}
Ordered(s) == \A n \in Nat : n < Len(s) => Fresh(Prefix(s, n), s[n + 1]) /\ ~HasEnd(Prefix(s, n))
Matched(E) == \A f \in E : f \in ResultLine => \E u \in Uses(E) : u.id = f.id

LEMMA PrefixIs ==
  ASSUME NEW s \in Seq(Line), NEW n \in 0 .. Len(s)
  PROVE  /\ Prefix(s, n) \subseteq ToSet(s) /\ ToSet(s) \in SUBSET Line
         /\ Prefix(s, Len(s)) = ToSet(s) /\ Prefix(s, 0) = {}
         /\ n < Len(s) => Prefix(s, n + 1) = Prefix(s, n) \cup {s[n + 1]} /\ s[n + 1] \in Line
         /\ ToSet(SubSeq(s, 1, n)) = Prefix(s, n)
  <1>1. Len(s) \in Nat /\ DOMAIN s = 1 .. Len(s) /\ \A i \in 1 .. Len(s) : s[i] \in Line
    BY SeqTypes
  <1>2. PICK N \in Nat : N = Len(s)
    BY <1>1
  <1>3. ToSet(s) = Prefix(s, N) /\ ToSet(s) \in SUBSET Line
    BY <1>1, <1>2 DEF ToSet, Prefix
  <1>4. Prefix(s, n) \subseteq ToSet(s) /\ Prefix(s, 0) = {}
    BY <1>1, <1>2, <1>3 DEF Prefix
  <1>5. ASSUME n < N PROVE Prefix(s, n + 1) = Prefix(s, n) \cup {s[n + 1]} /\ s[n + 1] \in Line
    <2>1. n \in Nat /\ \A i : i \in 1 .. n + 1 <=> i \in 1 .. n \/ i = n + 1
      BY <1>2
    <2>2. n + 1 \in 1 .. N
      BY <2>1, <1>5
    <2> QED BY <2>1, <2>2, <1>1, <1>2 DEF Prefix
  <1>6. ToSet(SubSeq(s, 1, n)) = Prefix(s, n)
    <2>1. PICK a : a = SubSeq(s, 1, n)
      OBVIOUS
    <2>2. 1 \in 1 .. N + 1 /\ n \in 1 - 1 .. N /\ n - 1 + 1 = n
      BY <1>2
    <2>3. a \in Seq(Line) /\ Len(a) = n - 1 + 1 /\ \A i \in 1 .. n - 1 + 1 : a[i] = s[1 + i - 1]
      BY <2>1, <2>2, <1>2, SliceIs
    <2>4. a \in Seq(Line) /\ Len(a) = n /\ \A i \in 1 .. n : a[i] = s[i]
      BY <2>2, <2>3
    <2>5. DOMAIN a = 1 .. n
      BY <2>4, SeqTypes
    <2> QED BY <2>1, <2>4, <2>5 DEF ToSet, Prefix
  <1> QED BY <1>2, <1>3, <1>4, <1>5, <1>6

LEMMA OrderedMore ==
  ASSUME NEW s \in Seq(Line), NEW e \in Line, Ordered(s), Fresh(ToSet(s), e), ~HasEnd(ToSet(s))
  PROVE  Ordered(Append(s, e))
  <1>1. PICK N \in Nat : N = Len(s)
    OBVIOUS
  <1>2. PICK a : a = Append(s, e)
    OBVIOUS
  <1>3. Len(a) = N + 1 /\ (\A i \in 1 .. N : a[i] = s[i]) /\ a[N + 1] = e
    BY <1>1, <1>2, AppendIs
  <1>4. ToSet(s) = Prefix(s, N)
    BY <1>1, PrefixIs
  <1>5. ASSUME NEW n \in Nat, n < N + 1
        PROVE  Fresh(Prefix(a, n), a[n + 1]) /\ ~HasEnd(Prefix(a, n))
    <2>1. Prefix(a, n) = Prefix(s, n)
      <3>1. \A i \in 1 .. n : a[i] = s[i]
        BY <1>3, <1>5
      <3> QED BY <3>1 DEF Prefix
    <2>2. CASE n = N
      BY <2>1, <2>2, <1>3, <1>4
    <2>3. CASE n # N
      <3>1. n < N /\ n + 1 \in 1 .. N
        BY <2>3, <1>5
      <3> QED BY <3>1, <2>1, <1>1, <1>3 DEF Ordered
    <2> QED BY <2>2, <2>3
  <1> QED BY <1>2, <1>3, <1>5 DEF Ordered

LEMMA TallySaysAt ==
  ASSUME NEW s \in Seq(Line), Ordered(s), Told(Uses(ToSet(s))), NEW tools
  PROVE  \A n \in 0 .. Len(s) : TallySays(TallyAt(s, n, tools), Prefix(s, n), tools)
  <1>1. PICK N \in Nat : N = Len(s)
    OBVIOUS
  <1> DEFINE T == {n \in Nat : n <= N => TallySays(TallyAt(s, n, tools), Prefix(s, n), tools)}
  <1>2. 0 \in T
    <2>1. TallyAt(s, 0, tools) = NoTally
      BY NothingFed
    <2>2. Prefix(s, 0) = {}
      BY <1>1, PrefixIs
    <2>3. Uses({}) = {} /\ RanIn({}) = {} /\ ~HasEnd({})
      BY DEF Uses, RanIn, HasEnd
    <2>4. TallySays(NoTally, {}, tools)
      BY <2>3 DEF TallySays, NoTally, Shape, OpenIds, OffIds, Escaped
    <2> QED BY <2>1, <2>2, <2>4
  <1>3. ASSUME NEW n \in T PROVE n + 1 \in T
    <2>1. n \in Nat
      OBVIOUS
    <2>2. ASSUME n + 1 <= N
          PROVE  TallySays(TallyAt(s, n + 1, tools), Prefix(s, n + 1), tools)
      <3>1. n \in 0 .. N /\ n < N
        BY <2>1, <2>2
      <3>2. /\ Prefix(s, n + 1) = Prefix(s, n) \cup {s[n + 1]} /\ s[n + 1] \in Line
            /\ Prefix(s, n) \subseteq ToSet(s) /\ ToSet(s) \in SUBSET Line
        BY <3>1, <1>1, PrefixIs
      <3>3. TallyAt(s, n + 1, tools) = Feed(TallyAt(s, n, tools), s[n + 1], tools)
        BY <2>1, <2>2, <1>1, TallyMore
      <3>4. Fresh(Prefix(s, n), s[n + 1])
        BY <2>1, <3>1, <1>1 DEF Ordered
      <3>5. Told(Uses(Prefix(s, n)))
        BY <3>2 DEF Told, Uses
      <3>6. TallySays(TallyAt(s, n, tools), Prefix(s, n), tools)
        BY <3>1
      <3>7. Prefix(s, n) \in SUBSET Line
        BY <3>2
      <3>8. TallySays(Feed(TallyAt(s, n, tools), s[n + 1], tools), Prefix(s, n) \cup {s[n + 1]}, tools)
        BY <3>2, <3>4, <3>5, <3>6, <3>7, FeedSays
      <3> QED BY <3>2, <3>3, <3>8
    <2> QED BY <2>1, <2>2
  <1>4. T = Nat
    BY <1>2, <1>3, SetInduction
  <1> QED BY <1>1, <1>4

OrderIs == Ordered(stream) /\ Matched(Written)

LEMMA OrderInit == Init => OrderIs
  <1> SUFFICES ASSUME Init PROVE OrderIs
    OBVIOUS
  <1>1. stream = <<>>
    BY DEF Init
  <1>2. Written = {}
    BY <1>1 DEF Written, ToSet
  <1> QED BY <1>1, <1>2 DEF OrderIs, Ordered, Matched

LEMMA OrderStep ==
  ASSUME FileIs, StreamIs, OrderIs, [Next]_vars
  PROVE  OrderIs'
  <1>1. CASE UNCHANGED stream
    BY <1>1 DEF OrderIs, Written
  <1>2. CASE StartLine
    <2>1. PICK e \in Line : CanEmit(e) /\ stream' = Append(stream, e) /\ ~HasEnd(Written)
      BY <1>2 DEF StartLine
    <2>2. stream \in Seq(Line) /\ Sound(Written) /\ Numbered(Written)
      BY DEF FileIs, StreamIs
    <2>3. Ordered(stream) /\ Matched(Written)
      BY DEF OrderIs
    <2>4. Written' = Written \cup {e} /\ Written \in SUBSET Line
      BY <2>1, <2>2, AppendIs DEF Written, Sound
    <2>5. Uses(Written) \subseteq UseLine
      BY <2>4, Kinds
    <2>6. Fresh(Written, e)
      <3>1. ASSUME e \in UseLine, NEW f \in Written, f \in UseLine \cup ResultLine
            PROVE  f.id # e.id
        <4>1. e.id = Cardinality(Uses(Written)) + 1 /\ Cardinality(Uses(Written)) \in Nat
          BY <2>1, <2>2, <3>1, SoundTree, FS_CardinalityType DEF CanEmit, UseLine
        <4>2. PICK u \in Uses(Written) : u.id = f.id
          BY <3>1, <2>3, Kinds DEF Matched, Uses, UseLine
        <4>3. u.id <= Cardinality(Uses(Written)) /\ u.id \in Nat
          BY <2>2, <2>5, UseFields DEF Numbered
        <4> QED BY <4>1, <4>2, <4>3
      <3>2. ASSUME e \in ResultLine
            PROVE  (\E u \in Uses(Written) : u.id = e.id) /\ ResultsOf(Written, e.id) = {}
        BY <2>1, <3>2 DEF CanEmit, ResultLine
      <3> QED BY <3>1, <3>2 DEF Fresh
    <2>7. Ordered(stream')
      BY <2>1, <2>2, <2>3, <2>6, OrderedMore DEF Written
    <2>8. Matched(Written \cup {e})
      <3>1. ASSUME NEW f \in Written \cup {e}, f \in ResultLine
            PROVE  \E u \in Uses(Written) : u.id = f.id
        BY <3>1, <2>3, <2>6 DEF Matched, Fresh
      <3>2. Uses(Written) \subseteq Uses(Written \cup {e})
        BY DEF Uses
      <3> QED BY <3>1, <3>2 DEF Matched
    <2> QED BY <2>4, <2>7, <2>8 DEF OrderIs
  <1>3. UNCHANGED stream \/ StartLine
    BY DEF Next, FinishLine, ExecutorEnds, Build, Verify, Watch, Poll, Read, vars
  <1> QED BY <1>1, <1>2, <1>3

-----------------------------------------------------------------------------
(* The characters of a text without second bytes are its bytes.              *)

Decodes(f, bytes) ==
  f = [n \in 0 .. Len(bytes) |->
         IF n = 0 THEN <<>>
         ELSE IF IsTrail(bytes[n]) THEN f[n - 1] ELSE Append(f[n - 1], bytes[n])]

LEMMA FirstOf ==
  ASSUME NEW b \in Seq(Byte), NEW n \in Nat, n + 1 <= Len(b)
  PROVE  SubSeq(b, 1, n + 1) = Append(SubSeq(b, 1, n), b[n + 1])
  <1>1. PICK x : x = SubSeq(b, 1, n)
    OBVIOUS
  <1>2. PICK y : y = SubSeq(b, 1, n + 1)
    OBVIOUS
  <1>3. Len(b) \in Nat /\ \A i \in 1 .. Len(b) : b[i] \in Byte
    BY SeqTypes
  <1>4. x \in Seq(Byte) /\ Len(x) = n /\ \A i \in 1 .. n : x[i] = b[i]
    <2>1. 1 \in 1 .. Len(b) + 1 /\ n \in 1 - 1 .. Len(b) /\ n - 1 + 1 = n
      BY <1>3
    <2>2. x \in Seq(Byte) /\ Len(x) = n - 1 + 1 /\ \A i \in 1 .. n - 1 + 1 : x[i] = b[1 + i - 1]
      BY <2>1, <1>1, SliceIs
    <2> QED BY <2>1, <2>2
  <1>5. y \in Seq(Byte) /\ Len(y) = n + 1 /\ \A i \in 1 .. n + 1 : y[i] = b[i]
    <2>1. 1 \in 1 .. Len(b) + 1 /\ n + 1 \in 1 - 1 .. Len(b) /\ (n + 1) - 1 + 1 = n + 1
      BY <1>3
    <2>2. y \in Seq(Byte) /\ Len(y) = (n + 1) - 1 + 1 /\ \A i \in 1 .. (n + 1) - 1 + 1 : y[i] = b[1 + i - 1]
      BY <2>1, <1>2, SliceIs
    <2> QED BY <2>1, <2>2
  <1>6. PICK z : z = Append(x, b[n + 1])
    OBVIOUS
  <1>7. b[n + 1] \in Byte
    BY <1>3
  <1>8. /\ z \in Seq(Byte) /\ Len(z) = n + 1 /\ z[n + 1] = b[n + 1]
        /\ \A i \in 1 .. n : z[i] = x[i]
    BY <1>4, <1>6, <1>7
  <1>9. \A i \in 1 .. n + 1 : z[i] = y[i]
    <2>1. \A i \in 1 .. n + 1 : i \in 1 .. n \/ i = n + 1
      OBVIOUS
    <2> QED BY <2>1, <1>4, <1>5, <1>8
  <1>10. z = y
    BY <1>5, <1>8, <1>9, SeqEqual
  <1> QED BY <1>1, <1>2, <1>6, <1>10

LEMMA DecodedPlain ==
  ASSUME NEW b \in Seq(Byte), \A i \in 1 .. Len(b) : ~IsTrail(b[i])
  PROVE  Decoded(b) = b
  <1>1. PICK N \in Nat : N = Len(b)
    BY SeqTypes
  <1> DEFINE w == [n \in 0 .. N |-> SubSeq(b, 1, n)]
  <1>2. SubSeq(b, 1, 0) = <<>>
    <2>1. PICK x : x = SubSeq(b, 1, 0)
      OBVIOUS
    <2>2. 1 \in 1 .. N + 1 /\ 0 \in 1 - 1 .. N /\ 0 - 1 + 1 = 0
      OBVIOUS
    <2>3. x \in Seq(Byte) /\ Len(x) = 0 - 1 + 1
      BY <2>1, <2>2, <1>1, SliceIs
    <2> QED BY <2>1, <2>2, <2>3, SeqTypes
  <1>3. ASSUME NEW n \in 0 .. N, n # 0
        PROVE  /\ n - 1 \in 0 .. N /\ ~IsTrail(b[n])
               /\ w[n] = Append(w[n - 1], b[n])
    <2>1. n - 1 \in Nat /\ n - 1 \in 0 .. N /\ (n - 1) + 1 = n /\ n \in 1 .. N
      BY <1>3
    <2>2. SubSeq(b, 1, (n - 1) + 1) = Append(SubSeq(b, 1, n - 1), b[(n - 1) + 1])
      BY <2>1, <1>1, FirstOf
    <2> QED BY <2>1, <2>2, <1>1
  <1>4. w[0] = <<>>
    BY <1>2
  <1>5. w[N] = b
    <2>1. SubSeq(b, 1, Len(b)) = b
      <3>1. PICK x : x = SubSeq(b, 1, N)
        OBVIOUS
      <3>2. 1 \in 1 .. N + 1 /\ N \in 1 - 1 .. N /\ N - 1 + 1 = N
        OBVIOUS
      <3>3. x \in Seq(Byte) /\ Len(x) = N - 1 + 1 /\ \A i \in 1 .. N - 1 + 1 : x[i] = b[1 + i - 1]
        BY <3>1, <3>2, <1>1, SliceIs
      <3>4. Len(x) = N /\ \A i \in 1 .. N : x[i] = b[i]
        BY <3>2, <3>3
      <3>5. x = b
        BY <3>3, <3>4, <1>1, SeqEqual
      <3> QED BY <3>1, <3>5, <1>1
    <2> QED BY <2>1, <1>1
  <1> HIDE DEF w
  <1> DEFINE At(f, n) == IF n = 0 THEN <<>>
                         ELSE IF IsTrail(b[n]) THEN f[n - 1] ELSE Append(f[n - 1], b[n])
  <1>6. \A n \in 0 .. N : w[n] = At(w, n)
    BY <1>3, <1>4
  <1>7. w = [n \in 0 .. N |-> At(w, n)]
    BY <1>6 DEF w
  <1>8. Decodes(w, b)
    BY <1>1, <1>7 DEF Decodes
  <1>9. PICK f : f = CHOOSE g : Decodes(g, b)
    OBVIOUS
  <1>10. Decodes(f, b) /\ Decoded(b) = f[N]
    <2>1. Decodes(f, b)
      BY <1>8, <1>9
    <2>2. Decoded(b) = f[Len(b)]
      BY <1>9 DEF Decoded, Decodes
    <2> QED BY <2>1, <2>2, <1>1
  <1>11. f[0] = <<>> /\ \A n \in 0 .. N : n # 0 => f[n] = Append(f[n - 1], b[n])
    <2>1. f = [n \in 0 .. N |-> At(f, n)]
      BY <1>1, <1>10 DEF Decodes
    <2>2. \A n \in 0 .. N : f[n] = At(f, n)
      BY <2>1
    <2>3. f[0] = <<>>
      BY <2>2
    <2>4. ASSUME NEW n \in 0 .. N, n # 0 PROVE f[n] = Append(f[n - 1], b[n])
      <3>1. ~IsTrail(b[n])
        BY <2>4, <1>3
      <3>2. f[n] = At(f, n)
        BY <2>2
      <3> QED BY <3>1, <3>2, <2>4
    <2> QED BY <2>3, <2>4
  <1> DEFINE T == {n \in Nat : n <= N => f[n] = w[n]}
  <1>12. 0 \in T
    BY <1>4, <1>11
  <1>13. ASSUME NEW n \in T PROVE n + 1 \in T
    <2>1. ASSUME n + 1 <= N PROVE f[n + 1] = w[n + 1]
      <3>1. n + 1 \in 0 .. N /\ n + 1 # 0 /\ (n + 1) - 1 = n /\ n <= N
        BY <2>1
      <3>2. f[n] = w[n]
        BY <3>1
      <3>3. w[n + 1] = Append(w[(n + 1) - 1], b[n + 1]) /\ f[n + 1] = Append(f[(n + 1) - 1], b[n + 1])
        BY <3>1, <1>3, <1>11
      <3> QED BY <3>1, <3>2, <3>3
    <2> QED BY <2>1
  <1>14. T = Nat
    BY <1>12, <1>13, SetInduction
  <1>15. f[N] = w[N]
    BY <1>14
  <1> QED BY <1>5, <1>10, <1>15

-----------------------------------------------------------------------------
(* A text read from the start of line m + 1 of a plain stream: its line ends *)
(* are every LineSize characters, and what precedes each is an event.        *)

PlainText(text, m) ==
  /\ text \in Seq(Byte) /\ m \in Nat /\ LineSize * m + Len(text) <= LineSize * Len(stream)
  /\ \A n \in 1 .. Len(text) : text[n] = ByteOf(stream, LineSize * m + n)

LEMMA WholeLines ==
  ASSUME NEW m \in Nat, NEW z \in Nat, LineSize * m <= z
  PROVE  /\ m + (z - LineSize * m) \div LineSize = z \div LineSize
         /\ (z - LineSize * m) % LineSize = z % LineSize
  BY DEF LineSize

LEMMA PlainByte ==
  ASSUME AllPlain, stream \in Seq(Line), NEW m \in Nat, NEW n \in Nat, n >= 1,
         LineSize * m + n <= LineSize * Len(stream)
  PROVE  LET b == ByteOf(stream, LineSize * m + n)
         IN  /\ ~IsTrail(b) /\ (EndsLine(b) <=> n % LineSize = 0)
             /\ b[1] = m + Pos(n)
             /\ Part(n) = 1 => b = <<m + Pos(n), "first">>
             /\ Part(n) = 2 => b = <<m + Pos(n), "rest">>
  <1>1. PICK N \in Nat : N = Len(stream)
    BY SeqTypes
  <1>2. PICK p \in Nat : p = LineSize * m + n
    BY DEF LineSize
  <1>3. Pos(p) = m + Pos(n) /\ Part(p) = Part(n) /\ Pos(p) \in 1 .. N
    BY <1>1, <1>2 DEF Pos, Part, LineSize
  <1>4. Part(n) \in {1, 2, 3} /\ (n % LineSize = 0 <=> Part(n) = 3)
    BY DEF Part, LineSize
  <1>5. PICK i \in Nat : i = Pos(p)
    BY <1>3
  <1>6. Plain(stream[i])
    BY <1>1, <1>3, <1>5, SeqTypes DEF AllPlain
  <1>7. PICK b : b = BytesOf(stream[i], i)
    OBVIOUS
  <1>8. b[1] = <<i, "first">> /\ b[2] = <<i, "rest">> /\ b[3] = <<i, "newline">>
    BY <1>6, <1>7, BytesAre
  <1>9. PICK c : c = b[Part(n)]
    OBVIOUS
  <1>10. /\ ~IsTrail(c) /\ (EndsLine(c) <=> Part(n) = 3) /\ c[1] = i
         /\ Part(n) = 1 => c = <<i, "first">>
         /\ Part(n) = 2 => c = <<i, "rest">>
    BY <1>4, <1>8, <1>9 DEF IsTrail, EndsLine
  <1>11. ByteOf(stream, p) = c
    BY <1>3, <1>5, <1>7, <1>9 DEF ByteOf
  <1> QED BY <1>2, <1>3, <1>4, <1>5, <1>10, <1>11

LEMMA PlainPart ==
  ASSUME stream \in Seq(Line), NEW text, NEW m, PlainText(text, m), NEW k \in 0 .. Len(text)
  PROVE  PlainText(SubSeq(text, 1, k), m) /\ Len(SubSeq(text, 1, k)) = k
  <1>1. PICK x : x = SubSeq(text, 1, k)
    OBVIOUS
  <1>2. text \in Seq(Byte) /\ m \in Nat
    BY DEF PlainText
  <1>3. PICK N \in Nat : N = Len(text)
    BY <1>2, SeqTypes
  <1>4. 1 \in 1 .. N + 1 /\ k \in 1 - 1 .. N /\ k - 1 + 1 = k /\ k \in Nat /\ k <= N
    BY <1>3
  <1>5. x \in Seq(Byte) /\ Len(x) = k - 1 + 1 /\ \A i \in 1 .. k - 1 + 1 : x[i] = text[1 + i - 1]
    BY <1>1, <1>2, <1>3, <1>4, SliceIs
  <1>6. x \in Seq(Byte) /\ Len(x) = k /\ \A i \in 1 .. k : x[i] = text[i]
    BY <1>4, <1>5
  <1>7. LineSize * m + k <= LineSize * Len(stream)
    <2>1. PICK M \in Nat : M = Len(stream)
      BY SeqTypes
    <2>2. LineSize * m + N <= LineSize * M
      BY <2>1, <1>3 DEF PlainText
    <2>3. LineSize * m + k <= LineSize * M
      BY <2>2, <1>2, <1>4 DEF LineSize
    <2> QED BY <2>1, <2>3
  <1>8. \A i \in 1 .. k : x[i] = ByteOf(stream, LineSize * m + i)
    BY <1>3, <1>4, <1>6 DEF PlainText
  <1> QED BY <1>1, <1>2, <1>6, <1>7, <1>8 DEF PlainText

LEMMA LastEndIs ==
  ASSUME AllPlain, stream \in Seq(Line), NEW text, NEW m, PlainText(text, m)
  PROVE  LastEnd(text) = LineSize * (Len(text) \div LineSize)
  <1>1. text \in Seq(Byte) /\ m \in Nat /\ Len(stream) \in Nat
    BY SeqTypes DEF PlainText
  <1>2. PICK N \in Nat : N = Len(text)
    BY <1>1, SeqTypes
  <1>3. DOMAIN text = 1 .. N
    BY <1>1, <1>2, SeqTypes
  <1>4. ASSUME NEW n \in 1 .. N PROVE EndsLine(text[n]) <=> n % LineSize = 0
    <2>1. n \in Nat /\ n >= 1 /\ LineSize * m + n <= LineSize * Len(stream)
      BY <1>1, <1>2 DEF PlainText, LineSize
    <2>2. text[n] = ByteOf(stream, LineSize * m + n)
      BY <1>2 DEF PlainText
    <2> QED BY <1>1, <2>1, <2>2, PlainByte
  <1>5. PICK S : S = {0} \cup {n \in DOMAIN text : EndsLine(text[n])}
    OBVIOUS
  <1>6. \A n : n \in S <=> n = 0 \/ (n \in 1 .. N /\ n % LineSize = 0)
    BY <1>3, <1>4, <1>5
  <1>7. S \in SUBSET Nat /\ S # {} /\ \A n \in S : n <= N
    BY <1>6
  <1>8. Max(S) \in S /\ \A n \in S : n <= Max(S)
    BY <1>7, MaxOf
  <1>9. PICK x \in S : x = Max(S)
    BY <1>8
  <1>10. PICK y \in Nat : y = LineSize * (N \div LineSize)
    BY DEF LineSize
  <1>11. y \in S
    BY <1>6, <1>10 DEF LineSize
  <1>12. y <= x /\ x \in Nat /\ x <= N /\ x % LineSize = 0
    BY <1>6, <1>7, <1>8, <1>9, <1>11 DEF LineSize
  <1>13. x = y
    BY <1>10, <1>12 DEF LineSize
  <1> QED BY <1>2, <1>5, <1>9, <1>10, <1>13 DEF LastEnd

LEMMA RestIs ==
  ASSUME AllPlain, stream \in Seq(Line), NEW text, NEW m, PlainText(text, m)
  PROVE  /\ PlainText(RestOf(text), m + Len(text) \div LineSize)
         /\ Len(RestOf(text)) = Len(text) % LineSize
  <1>1. text \in Seq(Byte) /\ m \in Nat
    BY DEF PlainText
  <1>2. PICK N \in Nat : N = Len(text)
    BY <1>1, SeqTypes
  <1>3. PICK M \in Nat : M = Len(stream)
    BY SeqTypes
  <1>4. PICK q \in Nat : q = N \div LineSize
    BY DEF LineSize
  <1>5. LastEnd(text) = LineSize * q
    BY <1>2, <1>4, LastEndIs
  <1>6. PICK z \in Nat : z = LineSize * q
    BY DEF LineSize
  <1>7. z + 1 \in 1 .. N + 1 /\ N \in (z + 1) - 1 .. N /\ N - (z + 1) + 1 = N - z /\ N - z = N % LineSize
    BY <1>4, <1>6 DEF LineSize
  <1>8. PICK r : r = RestOf(text)
    OBVIOUS
  <1>9. r = SubSeq(text, z + 1, N)
    BY <1>2, <1>5, <1>6, <1>8 DEF RestOf
  <1>10. /\ r \in Seq(Byte) /\ Len(r) = N - (z + 1) + 1
         /\ \A i \in 1 .. N - (z + 1) + 1 : r[i] = text[(z + 1) + i - 1]
    <2>1. PICK k \in Nat : k = z + 1
      BY <1>6
    <2>2. k \in 1 .. Len(text) + 1 /\ N \in k - 1 .. Len(text) /\ r = SubSeq(text, k, N)
      BY <2>1, <1>2, <1>7, <1>9
    <2>3. r \in Seq(Byte) /\ Len(r) = N - k + 1 /\ \A i \in 1 .. N - k + 1 : r[i] = text[k + i - 1]
      BY <2>2, <1>1, SliceIs
    <2> QED BY <2>1, <2>3
  <1>11. Len(r) = N - z /\ \A i \in 1 .. N - z : r[i] = text[z + i]
    <2>1. \A i \in 1 .. N - z : (z + 1) + i - 1 = z + i
      OBVIOUS
    <2> QED BY <2>1, <1>7, <1>10
  <1>12. /\ LineSize * m + N <= LineSize * M
         /\ \A n \in 1 .. N : text[n] = ByteOf(stream, LineSize * m + n)
    BY <1>2, <1>3 DEF PlainText
  <1>13. LineSize * (m + q) + (N - z) <= LineSize * M
    BY <1>1, <1>6, <1>12 DEF LineSize
  <1>14. ASSUME NEW i \in 1 .. N - z PROVE r[i] = ByteOf(stream, LineSize * (m + q) + i)
    <2>1. z + i \in 1 .. N /\ LineSize * m + (z + i) = LineSize * (m + q) + i
      BY <1>1, <1>6 DEF LineSize
    <2> QED BY <2>1, <1>11, <1>12
  <1>15. m + q \in Nat
    BY <1>1
  <1>16. PlainText(r, m + q)
    BY <1>3, <1>10, <1>11, <1>13, <1>14, <1>15 DEF PlainText
  <1> QED BY <1>2, <1>4, <1>7, <1>8, <1>11, <1>16

\* Every LineSize-th character ends the event of its line.
LEMMA EndsEventIs ==
  ASSUME AllPlain, stream \in Seq(Line), NEW text, NEW m, PlainText(text, m),
         NEW n \in 1 .. Len(text)
  PROVE  /\ EndsEvent(text, n) <=> n % LineSize = 0
         /\ n % LineSize = 0 => text[n][1] = m + n \div LineSize
  <1>1. text \in Seq(Byte) /\ m \in Nat
    BY DEF PlainText
  <1>2. PICK N \in Nat : N = Len(text)
    BY <1>1, SeqTypes
  <1>3. PICK M \in Nat : M = Len(stream)
    BY SeqTypes
  <1>4. n \in Nat /\ n >= 1 /\ LineSize * m + n <= LineSize * M /\ n <= N
    BY <1>1, <1>2, <1>3 DEF PlainText, LineSize
  <1>5. text[n] = ByteOf(stream, LineSize * m + n)
    BY DEF PlainText
  <1>6. (EndsLine(text[n]) <=> n % LineSize = 0) /\ text[n][1] = m + Pos(n)
    BY <1>1, <1>3, <1>4, <1>5, PlainByte
  <1>7. CASE n % LineSize # 0
    BY <1>6, <1>7 DEF EndsEvent
  <1>8. CASE n % LineSize = 0
    <2>1. PICK k \in Nat : n = LineSize * k /\ k >= 1 /\ k = n \div LineSize
      <3>1. n \div LineSize \in Nat /\ n = LineSize * (n \div LineSize) /\ n \div LineSize >= 1
        BY <1>4, <1>8 DEF LineSize
      <3> QED BY <3>1
    <2>2. PICK i \in Nat : i = m + k /\ i >= 1 /\ i <= M
      BY <2>1, <1>1, <1>4 DEF LineSize
    <2>3. Pos(n) = k
      BY <2>1 DEF Pos, LineSize
    <2>4. text[n][1] = i
      BY <2>2, <2>3, <1>6
    <2>5. PICK q : q = SubSeq(text, 1, n - 1)
      OBVIOUS
    <2>6. PlainText(q, m) /\ Len(q) = n - 1
      <3>1. n - 1 \in 0 .. Len(text)
        BY <1>2, <1>4
      <3> QED BY <3>1, <2>5, PlainPart
    <2>7. PICK r : r = RestOf(q)
      OBVIOUS
    <2>8. (n - 1) \div LineSize = k - 1 /\ (n - 1) % LineSize = 2
      BY <2>1 DEF LineSize
    <2>9. PlainText(r, m + (k - 1)) /\ Len(r) = 2
      BY <2>6, <2>7, <2>8, RestIs
    <2>10. m + (k - 1) = i - 1 /\ i - 1 \in Nat
      BY <2>1, <2>2, <1>1
    <2>11. /\ r \in Seq(Byte) /\ r[1] = ByteOf(stream, LineSize * (i - 1) + 1)
           /\ r[2] = ByteOf(stream, LineSize * (i - 1) + 2)
      BY <2>9, <2>10 DEF PlainText
    <2>12. r[1] = <<i, "first">> /\ r[2] = <<i, "rest">>
      <3>1. LineSize * (i - 1) + 1 <= LineSize * M /\ LineSize * (i - 1) + 2 <= LineSize * M
        BY <2>2 DEF LineSize
      <3>2. Pos(1) = 1 /\ Part(1) = 1 /\ Pos(2) = 1 /\ Part(2) = 2 /\ (i - 1) + 1 = i
        BY <2>2 DEF Pos, Part, LineSize
      <3>3. r[1] = <<(i - 1) + Pos(1), "first">>
        BY <3>1, <3>2, <2>10, <2>11, <1>3, PlainByte
      <3>4. r[2] = <<(i - 1) + Pos(2), "rest">>
        BY <3>1, <3>2, <2>10, <2>11, <1>3, PlainByte
      <3> QED BY <3>2, <3>3, <3>4
    <2>13. PICK b : b = BytesOf(stream[i], i)
      OBVIOUS
    <2>14. /\ b \in Seq(Byte) /\ Len(b) = 3 /\ b[1] = <<i, "first">>
           /\ b[2] = <<i, "rest">>
      <3>1. i \in DOMAIN stream
        BY <2>2, <1>3, SeqTypes
      <3>2. Plain(stream[i])
        BY <3>1 DEF AllPlain
      <3> QED BY <3>2, <2>13, BytesAre DEF LineSize
    <2>15. PICK c : c = Front(b)
      OBVIOUS
    <2>16. c \in Seq(Byte) /\ Len(c) = 2 /\ c[1] = b[1] /\ c[2] = b[2]
      <3>1. c = SubSeq(b, 1, 2)
        BY <2>14, <2>15 DEF Front
      <3> QED BY <3>1, <2>14, FirstTwo
    <2>17. r = c
      <3>1. \A j \in 1 .. 2 : r[j] = c[j]
        <4>1. r[1] = c[1] /\ r[2] = c[2]
          BY <2>12, <2>14, <2>16
        <4>2. \A j \in 1 .. 2 : j = 1 \/ j = 2
          OBVIOUS
        <4> QED BY <4>1, <4>2
      <3> QED BY <3>1, <2>9, <2>11, <2>16, SeqEqual
    <2>18. Decoded(c) = c
      <3>1. \A j \in 1 .. Len(c) : ~IsTrail(c[j])
        BY <2>14, <2>16 DEF IsTrail
      <3> QED BY <3>1, <2>16, DecodedPlain
    <2>19. EndsEvent(text, n)
      BY <2>4, <2>5, <2>7, <2>13, <2>15, <2>17, <2>18, <1>6, <1>8 DEF EndsEvent
    <2> QED BY <2>1, <2>2, <2>4, <2>19, <1>8
  <1> QED BY <1>7, <1>8

-----------------------------------------------------------------------------
(* Feeding a text: what was tallied of m lines, and then of m more as the    *)
(* text has line ends.                                                       *)

Feeds(f, text) ==
  f = [n \in 0 .. Len(text) |->
         IF n = 0 THEN state
         ELSE IF EndsEvent(text, n) THEN Fed(f[n - 1], stream[text[n][1]], decl.tools)
         ELSE f[n - 1]]

LEMMA FeedAllIs ==
  ASSUME AllPlain, stream \in Seq(Line), NEW text, NEW m, PlainText(text, m),
         state = TallyAt(stream, m, decl.tools)
  PROVE  FeedAll(text) = TallyAt(stream, m + Len(text) \div LineSize, decl.tools)
  <1>1. text \in Seq(Byte) /\ m \in Nat
    BY DEF PlainText
  <1>2. PICK N \in Nat : N = Len(text)
    BY <1>1, SeqTypes
  <1>3. PICK M \in Nat : M = Len(stream)
    BY SeqTypes
  <1>4. PICK tools : tools = decl.tools
    OBVIOUS
  <1> DEFINE w == [n \in 0 .. N |-> TallyAt(stream, m + n \div LineSize, tools)]
             At(f, n) == IF n = 0 THEN state
                         ELSE IF EndsEvent(text, n) THEN Fed(f[n - 1], stream[text[n][1]], tools)
                         ELSE f[n - 1]
  <1>5. LineSize * m + N <= LineSize * M
    BY <1>2, <1>3 DEF PlainText
  <1>6. ASSUME NEW f, NEW n \in 0 .. N, n # 0,
               f[n - 1] = TallyAt(stream, m + (n - 1) \div LineSize, tools)
        PROVE  At(f, n) = TallyAt(stream, m + n \div LineSize, tools)
    <2>1. n \in 1 .. N /\ n \in Nat
      BY <1>6
    <2>2. /\ EndsEvent(text, n) <=> n % LineSize = 0
          /\ n % LineSize = 0 => text[n][1] = m + n \div LineSize
      BY <2>1, <1>2, EndsEventIs
    <2>3. CASE n % LineSize = 0
      <3>1. PICK k \in Nat : k = n \div LineSize /\ k >= 1 /\ (n - 1) \div LineSize = k - 1
                              /\ n = LineSize * k
        <4>1. /\ n \div LineSize \in Nat /\ n \div LineSize >= 1
              /\ (n - 1) \div LineSize = n \div LineSize - 1 /\ n = LineSize * (n \div LineSize)
          BY <2>1, <2>3, <1>6 DEF LineSize
        <4> QED BY <4>1
      <3>2. PICK j \in Nat : j = m + (k - 1) /\ j + 1 = m + k /\ j + 1 <= M
        <4>1. m + (k - 1) \in Nat /\ (m + (k - 1)) + 1 = m + k /\ m + k <= M
          BY <3>1, <2>1, <1>1, <1>5 DEF LineSize
        <4> QED BY <4>1
      <3>3. TallyAt(stream, j + 1, tools) = Feed(TallyAt(stream, j, tools), stream[j + 1], tools)
        BY <3>2, <1>3, TallyMore
      <3>4. At(f, n) = Fed(f[n - 1], stream[j + 1], tools)
        BY <3>1, <3>2, <2>2, <2>3, <1>6
      <3>5. f[n - 1] = TallyAt(stream, j, tools)
        BY <3>1, <3>2, <1>6
      <3> QED BY <3>1, <3>2, <3>3, <3>4, <3>5, FedIs
    <2>4. CASE n % LineSize # 0
      <3>1. (n - 1) \div LineSize = n \div LineSize
        BY <2>1, <2>4, <1>6 DEF LineSize
      <3> QED BY <3>1, <2>2, <2>4, <1>6
    <2> QED BY <2>3, <2>4
  <1>7. state = TallyAt(stream, m + 0 \div LineSize, tools)
    <2>1. m + 0 \div LineSize = m
      BY <1>1 DEF LineSize
    <2> QED BY <2>1, <1>4
  <1>8. Feeds(w, text)
    <2>1. ASSUME NEW n \in 0 .. N PROVE w[n] = At(w, n)
      <3>1. CASE n = 0
        BY <3>1, <1>7
      <3>2. CASE n # 0
        <4>1. n - 1 \in 0 .. N /\ w[n - 1] = TallyAt(stream, m + (n - 1) \div LineSize, tools)
          BY <3>2
        <4>2. w[n] = TallyAt(stream, m + n \div LineSize, tools)
          OBVIOUS
        <4> HIDE DEF w, At
        <4> QED BY <4>1, <4>2, <3>2, <1>6
      <3> QED BY <3>1, <3>2
    <2>2. w = [n \in 0 .. N |-> At(w, n)]
      BY <2>1
    <2> HIDE DEF w
    <2> QED BY <2>2, <1>2, <1>4 DEF Feeds
  <1>9. PICK f : f = CHOOSE g : Feeds(g, text)
    OBVIOUS
  <1>10. Feeds(f, text) /\ FeedAll(text) = f[N]
    <2> HIDE DEF w
    <2>1. Feeds(f, text)
      BY <1>8, <1>9
    <2>2. FeedAll(text) = f[Len(text)]
      BY <1>9 DEF FeedAll, Feeds
    <2> QED BY <2>1, <2>2, <1>2
  <1>11. \A n \in 0 .. N : f[n] = At(f, n)
    <2>1. f = [n \in 0 .. N |-> At(f, n)]
      BY <1>2, <1>4, <1>10 DEF Feeds
    <2> HIDE DEF At
    <2> QED BY <2>1
  <1> DEFINE T == {n \in Nat : n <= N => f[n] = TallyAt(stream, m + n \div LineSize, tools)}
  <1>12. 0 \in T
    BY <1>7, <1>11
  <1>13. ASSUME NEW n \in T PROVE n + 1 \in T
    <2>1. ASSUME n + 1 <= N
          PROVE  f[n + 1] = TallyAt(stream, m + (n + 1) \div LineSize, tools)
      <3>1. n + 1 \in 0 .. N /\ n + 1 # 0 /\ (n + 1) - 1 = n /\ n <= N
        BY <2>1
      <3>2. f[(n + 1) - 1] = TallyAt(stream, m + ((n + 1) - 1) \div LineSize, tools)
        BY <3>1
      <3>3. f[n + 1] = At(f, n + 1)
        BY <3>1, <1>11
      <3> HIDE DEF At
      <3> QED BY <3>1, <3>2, <3>3, <1>6
    <2> QED BY <2>1
  <1>14. T = Nat
    BY <1>12, <1>13, SetInduction
  <1>15. f[N] = TallyAt(stream, m + N \div LineSize, tools)
    BY <1>14
  <1> QED BY <1>2, <1>4, <1>10, <1>15

-----------------------------------------------------------------------------
(* The watcher, of a plain stream: it has tallied the lines that end before  *)
(* its offset, and keeps the characters of the next one.                     *)

Done == watch.offset \div LineSize

WatchIs ==
  /\ watch = [pc |-> watch.pc, size |-> watch.size, offset |-> watch.offset, buf |-> watch.buf]
  /\ watch.pc \in {"poll", "read", "done"} /\ watch.offset \in Nat /\ watch.size \in Nat
  /\ watch.offset <= Len(file)
  /\ watch.pc = "read" => watch.offset < watch.size /\ watch.size <= Len(file)
  /\ PlainText(watch.buf, Done) /\ Len(watch.buf) = watch.offset % LineSize
  /\ state = TallyAt(stream, Done, decl.tools)
  /\ watch.pc = "done" <=> HasEnd(Prefix(stream, Done))

WatchInv == AllPlain => WatchIs

\* What a text reads on is what the file has after it.
LEMMA TextReads ==
  ASSUME AllPlain, FileIs, NEW o \in Nat, NEW z \in Nat, o <= z, z <= Len(file),
         NEW buf, PlainText(buf, o \div LineSize), Len(buf) = o % LineSize,
         NEW got \in Seq(Byte), Len(got) = z - o, \A k \in 1 .. z - o : got[k] = file[o + k],
         NEW t, Joins(Byte, t, buf, got)
  PROVE  /\ PlainText(t, o \div LineSize)
         /\ o \div LineSize + Len(t) \div LineSize = z \div LineSize
         /\ Len(t) % LineSize = z % LineSize
  <1>1. PICK M \in Nat : M = Len(stream)
    BY SeqTypes DEF FileIs
  <1>2. PICK F \in Nat : F = Len(file) /\ F <= LineSize * M
    BY <1>1, SeqTypes DEF FileIs
  <1>3. z <= F /\ z \in Nat /\ o <= z
    BY <1>2
  <1>4. PICK m \in Nat : m = o \div LineSize
    BY DEF LineSize
  <1>5. PICK x \in Nat : x = o % LineSize /\ o = LineSize * m + x
    BY <1>4 DEF LineSize
  <1>6. buf \in Seq(Byte) /\ \A n \in 1 .. x : buf[n] = ByteOf(stream, LineSize * m + n)
    BY <1>4, <1>5 DEF PlainText
  <1>7. Len(buf) = x /\ Len(got) = z - o
    BY <1>5
  <1>8. /\ t \in Seq(Byte) /\ Len(t) = x + (z - o)
        /\ \A i \in 1 .. x : t[i] = buf[i]
        /\ \A i \in 1 .. z - o : t[x + i] = got[i]
    BY <1>7 DEF Joins
  <1>9. x + (z - o) = z - LineSize * m
    <2>1. PICK w \in Nat : w = LineSize * m
      BY DEF LineSize
    <2>2. o = w + x
      BY <2>1, <1>5
    <2>3. x + (z - o) = z - w
      <3>1. z \in Nat /\ o \in Nat /\ x \in Nat
        OBVIOUS
      <3> QED BY <2>2, <3>1
    <2> QED BY <2>1, <2>3
  <1>10. \A p \in 1 .. F : file[p] = ByteOf(stream, p)
    BY <1>2 DEF FileIs, Holding
  <1>11. ASSUME NEW n \in 1 .. x + (z - o) PROVE t[n] = ByteOf(stream, LineSize * m + n)
    <2>1. CASE n <= x
      <3>1. n \in 1 .. x
        BY <2>1
      <3> QED BY <3>1, <1>6, <1>8
    <2>2. CASE n > x
      <3>1. PICK i \in 1 .. z - o : n = x + i
        <4>1. n - x \in 1 .. z - o /\ n = x + (n - x)
          BY <2>2, <1>3
        <4> QED BY <4>1
      <3>2. t[n] = file[o + i]
        BY <3>1, <1>8
      <3>3. o + i \in 1 .. F /\ o + i = LineSize * m + n
        BY <3>1, <1>3, <1>5 DEF LineSize
      <3> QED BY <3>2, <3>3, <1>10
    <2>3. n <= x \/ n > x
      BY <1>3
    <2> QED BY <2>1, <2>2, <2>3
  <1>12. LineSize * m + (x + (z - o)) <= LineSize * M
    BY <1>2, <1>3, <1>5 DEF LineSize
  <1>13. PlainText(t, m)
    BY <1>1, <1>8, <1>11, <1>12 DEF PlainText
  <1>14. /\ m + (z - LineSize * m) \div LineSize = z \div LineSize
         /\ (z - LineSize * m) % LineSize = z % LineSize
    <2>1. LineSize * m <= z
      BY <1>3, <1>5 DEF LineSize
    <2> QED BY <2>1, WholeLines
  <1> QED BY <1>4, <1>8, <1>9, <1>13, <1>14

LEMMA GotIs ==
  ASSUME AllPlain, FileIs, WatchIs, watch.pc = "read"
  PROVE  /\ ~Cut /\ Got \in Seq(Byte) /\ Len(Got) = watch.size - watch.offset
         /\ \A k \in 1 .. watch.size - watch.offset : Got[k] = file[watch.offset + k]
  <1>1. PICK M \in Nat : M = Len(stream)
    BY SeqTypes DEF FileIs
  <1>2. PICK F \in Nat : F = Len(file)
    BY SeqTypes DEF FileIs
  <1>3. PICK o \in Nat : o = watch.offset
    BY DEF WatchIs
  <1>4. PICK z \in Nat : z = watch.size
    BY DEF WatchIs
  <1>5. o < z /\ z <= F /\ file \in Seq(Byte) /\ stream \in Seq(Line) /\ F <= LineSize * M
    BY <1>1, <1>2, <1>3, <1>4 DEF WatchIs, FileIs
  <1>6. ~TornChar
    <2>1. SUFFICES ASSUME Torn = 1 PROVE Plain(Last(stream))
      BY DEF TornChar
    <2>2. M >= 1
      BY <2>1, <1>2, <1>5 DEF Torn, LineSize
    <2>3. Last(stream) = stream[M] /\ M \in DOMAIN stream
      BY <2>2, <1>1, <1>5, SeqTypes DEF Last
    <2> QED BY <2>3 DEF AllPlain
  <1>7. PICK a : a = Ahead
    OBVIOUS
  <1>8. a \in Seq(Byte) /\ Len(a) = F - o /\ \A i \in 1 .. F - o : a[i] = file[o + i]
    <2>1. o <= F
      BY <1>5
    <2>2. a = SubSeq(file, o + 1, F)
      BY <1>2, <1>3, <1>7 DEF Ahead
    <2>3. file \in Seq(Byte) /\ F = Len(file)
      BY <1>2, <1>5
    <2> QED BY <2>1, <2>2, <2>3, SliceBehind
  <1>9. ASSUME NEW i \in 1 .. F - o PROVE ~IsTrail(a[i])
    <2>1. o + i \in 1 .. F /\ o + i \in Nat /\ o + i >= 1 /\ o + i <= LineSize * M
      BY <1>5 DEF LineSize
    <2>2. a[i] = ByteOf(stream, o + i)
      BY <2>1, <1>2, <1>8 DEF FileIs, Holding
    <2>3. LineSize * 0 + (o + i) = o + i
      BY DEF LineSize
    <2> QED BY <2>1, <2>2, <2>3, <1>1, <1>5, PlainByte
  <1>10. Chars = a
    <2>1. \A i \in 1 .. Len(a) : ~IsTrail(a[i])
      BY <1>8, <1>9
    <2>2. Decoded(a) = a
      BY <2>1, <1>8, DecodedPlain
    <2> QED BY <2>2, <1>6, <1>7 DEF Chars
  <1>11. ~Cut
    <2>1. 1 \in 1 .. F - o
      BY <1>5
    <2> QED BY <2>1, <1>6, <1>7, <1>9 DEF Cut
  <1>12. PICK g : g = Got
    OBVIOUS
  <1>13. g = SubSeq(a, 1, z - o)
    <2>1. z - o \in Nat /\ F - o \in Nat /\ z - o <= F - o
      BY <1>5
    <2>2. Min({z - o, F - o}) = z - o
      <3>1. PICK x \in Nat : x = z - o
        BY <2>1
      <3>2. PICK y \in Nat : y = F - o
        BY <2>1
      <3>3. x <= y
        BY <2>1, <3>1, <3>2
      <3>4. \E k \in {x, y} : \A j \in {x, y} : k <= j
        BY <3>3
      <3>5. Min({x, y}) \in {x, y} /\ Min({x, y}) <= x
        BY <3>4 DEF Min
      <3>6. Min({x, y}) = x
        BY <3>3, <3>5
      <3> QED BY <3>1, <3>2, <3>6
    <2>3. Got = SubSeq(Chars, 1, Min({z - o, Len(a)}))
      BY <1>3, <1>4, <1>10 DEF Got
    <2> QED BY <2>2, <2>3, <1>8, <1>10, <1>12
  <1>14. /\ g \in Seq(Byte) /\ Len(g) = z - o
         /\ \A k \in 1 .. z - o : g[k] = file[o + k]
    <2>1. /\ 1 \in 1 .. Len(a) + 1 /\ z - o \in 1 - 1 .. Len(a)
          /\ (z - o) - 1 + 1 = z - o
      BY <1>5, <1>8
    <2>2. /\ g \in Seq(Byte) /\ Len(g) = (z - o) - 1 + 1
          /\ \A i \in 1 .. (z - o) - 1 + 1 : g[i] = a[1 + i - 1]
      BY <2>1, <1>8, <1>13, SliceIs
    <2>3. \A i \in 1 .. z - o : 1 + i - 1 = i /\ i \in 1 .. F - o
      BY <1>5
    <2> QED BY <2>1, <2>2, <2>3, <1>8
  <1> QED BY <1>3, <1>4, <1>11, <1>12, <1>14

LEMMA ReadStep ==
  ASSUME AllPlain, FileIs, OrderIs, Told(Uses(Written)), WatchIs, Read
  PROVE  WatchIs'
  <1>1. watch.pc = "read" /\ stream' = stream /\ file' = file /\ decl' = decl
    BY DEF Read
  <1>2. PICK o \in Nat : o = watch.offset
    BY DEF WatchIs
  <1>3. PICK z \in Nat : z = watch.size
    BY DEF WatchIs
  <1>4. PICK F \in Nat : F = Len(file) /\ o < z /\ z <= F
    BY <1>1, <1>2, <1>3, SeqTypes DEF FileIs, WatchIs
  <1>5. stream \in Seq(Line) /\ Ordered(stream) /\ Told(Uses(ToSet(stream)))
    BY DEF FileIs, OrderIs, Written
  <1>6. PICK M \in Nat : M = Len(stream) /\ F <= LineSize * M
    BY <1>4, <1>5, SeqTypes DEF FileIs
  <1>7. PICK t : t = watch.buf \o Got
    OBVIOUS
  <1>8. PICK m \in Nat : m = o \div LineSize
    BY DEF LineSize
  <1>9. PICK k \in Nat : k = z \div LineSize /\ k <= M
    <2>1. z \div LineSize \in Nat /\ z \div LineSize <= M
      BY <1>4, <1>6 DEF LineSize
    <2> QED BY <2>1
  <1>10. PlainText(watch.buf, m) /\ Len(watch.buf) = o % LineSize
    BY <1>2, <1>8 DEF WatchIs, Done
  <1>11. /\ ~Cut /\ Got \in Seq(Byte) /\ Len(Got) = z - o
         /\ \A i \in 1 .. z - o : Got[i] = file[o + i]
    BY <1>1, <1>2, <1>3, GotIs
  <1>12. /\ PlainText(t, m) /\ m + Len(t) \div LineSize = k
         /\ Len(t) % LineSize = z % LineSize
    <2>1. o <= z /\ z <= Len(file)
      BY <1>4
    <2>2. PICK b : b = watch.buf
      OBVIOUS
    <2>3. PlainText(b, o \div LineSize) /\ Len(b) = o % LineSize
      BY <2>2, <1>8, <1>10
    <2>4. PICK g : g = Got
      OBVIOUS
    <2>5. g \in Seq(Byte) /\ Len(g) = z - o /\ \A i \in 1 .. z - o : g[i] = file[o + i]
      BY <2>4, <1>11
    <2>6. Joins(Byte, t, b, g)
      <3>1. b \in Seq(Byte)
        BY <2>3 DEF PlainText
      <3>2. t = b \o g
        BY <2>2, <2>4, <1>7
      <3> QED BY <3>1, <3>2, <2>5, Joined
    <2>7. /\ PlainText(t, o \div LineSize)
          /\ o \div LineSize + Len(t) \div LineSize = z \div LineSize
          /\ Len(t) % LineSize = z % LineSize
      BY <2>1, <2>3, <2>5, <2>6, TextReads
    <2> QED BY <2>7, <1>8, <1>9
  <1>13. state = TallyAt(stream, m, decl.tools)
    BY <1>2, <1>8 DEF WatchIs, Done
  <1>14. FeedAll(t) = TallyAt(stream, k, decl.tools)
    BY <1>5, <1>12, <1>13, FeedAllIs
  <1>15. PlainText(RestOf(t), k) /\ Len(RestOf(t)) = z % LineSize
    BY <1>5, <1>12, RestIs
  <1>16. state' = TallyAt(stream, k, decl.tools)
    BY <1>7, <1>11, <1>14 DEF Read
  <1>17. TallySays(state', Prefix(stream, k), decl.tools)
    BY <1>5, <1>6, <1>9, <1>16, TallySaysAt
  <1>18. state'.complete <=> HasEnd(Prefix(stream, k))
    BY <1>17 DEF TallySays
  <1>19. PICK p : p = IF state'.complete THEN "done" ELSE "poll"
    OBVIOUS
  <1>20. watch' = [pc |-> p, size |-> z, offset |-> z, buf |-> RestOf(t)]
    <2>1. watch' = [watch EXCEPT !.offset = watch.size, !.buf = RestOf(t), !.pc = p]
      BY <1>7, <1>11, <1>19 DEF Read
    <2>2. watch = [pc |-> watch.pc, size |-> watch.size, offset |-> watch.offset, buf |-> watch.buf]
      BY DEF WatchIs
    <2> QED BY <2>1, <2>2, <1>3
  <1>21. /\ watch'.pc = p /\ watch'.size = z /\ watch'.offset = z /\ watch'.buf = RestOf(t)
         /\ watch' = [pc |-> watch'.pc, size |-> watch'.size, offset |-> watch'.offset,
                      buf |-> watch'.buf]
    BY <1>20
  <1>22. p \in {"poll", "read", "done"} /\ p # "read" /\ (p = "done" <=> HasEnd(Prefix(stream, k)))
    BY <1>18, <1>19
  <1>23. Done' = k
    BY <1>9, <1>21 DEF Done
  <1>24. PlainText(watch.buf, Done)' /\ Len(watch'.buf) = z % LineSize
    BY <1>1, <1>15, <1>21, <1>23 DEF PlainText
  <1>25. (Prefix(stream, Done))' = Prefix(stream, k)
    BY <1>1, <1>23 DEF Prefix
  <1>26. (TallyAt(stream, Done, decl.tools))' = TallyAt(stream, k, decl.tools)
    BY <1>1, <1>23
  <1>27. z <= Len(file')
    BY <1>1, <1>4
  <1> QED BY <1>16, <1>21, <1>22, <1>24, <1>25, <1>26, <1>27 DEF WatchIs

\* A tally depends on the lines it was fed only.
LEMMA SameTally ==
  ASSUME NEW s \in Seq(Line), NEW r \in Seq(Line), NEW n \in Nat, n <= Len(s), n <= Len(r),
         \A i \in 1 .. n : r[i] = s[i], NEW tools
  PROVE  TallyAt(r, n, tools) = TallyAt(s, n, tools)
  <1> DEFINE T == {k \in Nat : k <= n => TallyAt(r, k, tools) = TallyAt(s, k, tools)}
  <1>1. 0 \in T
    BY NothingFed
  <1>2. ASSUME NEW k \in T PROVE k + 1 \in T
    <2>1. k \in Nat
      OBVIOUS
    <2>2. ASSUME k + 1 <= n PROVE TallyAt(r, k + 1, tools) = TallyAt(s, k + 1, tools)
      <3>1. k + 1 <= Len(s) /\ k + 1 <= Len(r) /\ k + 1 \in 1 .. n /\ k <= n
        BY <2>1, <2>2, SeqTypes
      <3>2. TallyAt(r, k + 1, tools) = Feed(TallyAt(r, k, tools), r[k + 1], tools)
        BY <2>1, <3>1, TallyMore
      <3>3. TallyAt(s, k + 1, tools) = Feed(TallyAt(s, k, tools), s[k + 1], tools)
        BY <2>1, <3>1, TallyMore
      <3> QED BY <3>1, <3>2, <3>3
    <2> QED BY <2>1, <2>2
  <1>3. T = Nat
    BY <1>1, <1>2, SetInduction
  <1> QED BY <1>3

LEMMA WatchInit == Init => WatchInv
  <1> SUFFICES ASSUME Init PROVE WatchIs
    BY DEF WatchInv
  <1>1. /\ stream = <<>> /\ file = <<>> /\ state = NoTally
        /\ watch = [pc |-> "poll", size |-> 0, offset |-> 0, buf |-> <<>>]
    BY DEF Init
  <1>2. Done = 0
    BY <1>1 DEF Done, LineSize
  <1>3. PlainText(<<>>, 0)
    BY <1>1 DEF PlainText, LineSize
  <1>4. Prefix(stream, 0) = {}
    BY DEF Prefix
  <1>5. ~HasEnd(Prefix(stream, Done))
    BY <1>2, <1>4 DEF HasEnd
  <1>6. TallyAt(stream, Done, decl.tools) = NoTally
    <2>1. stream \in Seq(Line)
      BY ConfInit DEF ConfInv, FileIs
    <2> QED BY <2>1, <1>2, NothingFed
  <1>7. watch.offset % LineSize = 0 /\ Len(file) = 0 /\ Len(watch.buf) = 0
    BY <1>1 DEF LineSize
  <1> QED BY <1>1, <1>2, <1>3, <1>5, <1>6, <1>7 DEF WatchIs

\* What the watcher has read stays as it is when the stream grows.
LEMMA WatchGrows ==
  ASSUME FileIs, WatchIs, NEW e \in Line, stream' = Append(stream, e),
         FileIs', UNCHANGED <<decl, watch, state>>
  PROVE  WatchIs'
  <1>1. stream \in Seq(Line)
    BY DEF FileIs
  <1>2. PICK M \in Nat : M = Len(stream)
    BY <1>1
  <1>3. PICK s : s = stream'
    OBVIOUS
  <1>4. s \in Seq(Line) /\ Len(s) = M + 1 /\ \A i \in 1 .. M : s[i] = stream[i]
    BY <1>1, <1>2, <1>3, AppendIs
  <1>5. PICK o \in Nat : o = watch.offset
    BY DEF WatchIs
  <1>6. PICK F \in Nat : F = Len(file) /\ F <= LineSize * M
    BY <1>2, SeqTypes DEF FileIs
  <1>7. PICK G \in Nat : G = Len(file') /\ F <= G
    <2>1. Len(file') \in Nat /\ LineSize * (Len(s) - 1) < Len(file')
      BY <1>3, SeqTypes DEF FileIs
    <2>2. LineSize * M < Len(file')
      BY <2>1, <1>4 DEF LineSize
    <2> QED BY <2>1, <2>2, <1>6 DEF LineSize
  <1>8. PICK k \in Nat : k = Done /\ k <= M
    <2>1. o \div LineSize \in Nat /\ o \div LineSize <= M
      BY <1>5, <1>6 DEF WatchIs, LineSize
    <2> QED BY <2>1, <1>5 DEF Done
  <1>9. Done' = k
    BY <1>8 DEF Done
  <1>10. Prefix(s, k) = Prefix(stream, k)
    <2>1. \A i \in 1 .. k : s[i] = stream[i]
      BY <1>4, <1>8
    <2> QED BY <2>1 DEF Prefix
  <1>11. TallyAt(s, k, decl.tools) = TallyAt(stream, k, decl.tools)
    <2>1. k <= Len(stream)
      BY <1>2, <1>8
    <2>2. k <= Len(s)
      BY <1>4, <1>8
    <2>3. \A i \in 1 .. k : s[i] = stream[i]
      BY <1>4, <1>8
    <2>4. stream \in Seq(Line) /\ s \in Seq(Line) /\ k \in Nat
      BY <1>1, <1>4
    <2> HIDE DEF TallyAt
    <2> QED BY <2>1, <2>2, <2>3, <2>4, SameTally, ZenonT(30)
  <1>12. PlainText(watch.buf, k)'
    <2>1. PICK b : b = watch.buf
      OBVIOUS
    <2>2. /\ b \in Seq(Byte) /\ LineSize * k + Len(b) <= LineSize * M
          /\ \A n \in 1 .. Len(b) : b[n] = ByteOf(stream, LineSize * k + n)
      BY <2>1, <1>2, <1>8 DEF WatchIs, PlainText
    <2>3. PICK B \in Nat : B = Len(b)
      BY <2>2, SeqTypes
    <2>4. LineSize * k + B <= LineSize * M /\ LineSize * k + B <= LineSize * (M + 1)
      BY <2>2, <2>3 DEF LineSize
    <2>5. ASSUME NEW n \in 1 .. B PROVE b[n] = ByteOf(s, LineSize * k + n)
      <3>1. PICK p \in Nat : p = LineSize * k + n /\ p >= 1 /\ p <= LineSize * M
        BY <2>4 DEF LineSize
      <3>2. Pos(p) \in 1 .. M
        BY <3>1, PosWithin
      <3>3. ByteOf(s, p) = ByteOf(stream, p)
        BY <3>2, <1>4 DEF ByteOf
      <3> QED BY <3>1, <3>3, <2>2, <2>3
    <2>6. PlainText(b, k)'
      BY <2>2, <2>3, <2>4, <2>5, <1>3, <1>4 DEF PlainText, ByteOf
    <2> QED BY <2>1, <2>6
  <1>13. watch' = watch /\ state' = state /\ decl' = decl
    OBVIOUS
  <1>14. (TallyAt(stream, Done, decl.tools))' = TallyAt(stream, k, decl.tools)
    BY <1>3, <1>9, <1>11, <1>13
  <1>15. (Prefix(stream, Done))' = Prefix(stream, k)
    BY <1>3, <1>9, <1>10
  <1>16. PlainText(watch.buf, Done)'
    BY <1>9, <1>12, <1>13 DEF PlainText
  <1>17. watch.offset <= Len(file') /\ (watch.size <= Len(file) => watch.size <= Len(file'))
    BY <1>5, <1>6, <1>7 DEF WatchIs
  <1> QED BY <1>8, <1>13, <1>14, <1>15, <1>16, <1>17 DEF WatchIs

\* ... and when the file grows by the end of a line, or the watcher looks at its size.
LEMMA WatchFinish ==
  ASSUME FileIs, WatchIs, FinishLine
  PROVE  WatchIs'
  <1>1. UNCHANGED <<decl, stream, watch, state>>
    BY DEF FinishLine
  <1>2. Len(file) <= Len(file') /\ Len(file) \in Nat /\ Len(file') \in Nat
    BY FinishGrows, SeqTypes DEF FileIs
  <1>3. /\ watch.offset <= Len(file')
        /\ watch.pc = "read" => watch.offset < watch.size /\ watch.size <= Len(file')
    BY <1>2 DEF WatchIs
  <1>4. PlainText(watch.buf, Done)' <=> PlainText(watch.buf, Done)
    BY <1>1 DEF PlainText, ByteOf, Done
  <1>5. Done' = Done /\ (Prefix(stream, Done))' = Prefix(stream, Done)
        /\ (TallyAt(stream, Done, decl.tools))' = TallyAt(stream, Done, decl.tools)
    BY <1>1 DEF Done
  <1> QED BY <1>1, <1>3, <1>4, <1>5 DEF WatchIs

LEMMA WatchPoll ==
  ASSUME FileIs, WatchIs, Poll
  PROVE  WatchIs'
  <1>1. UNCHANGED <<decl, stream, file, state>> /\ watch.pc = "poll" /\ Len(file) > watch.offset
    BY DEF Poll
  <1>2. PICK F \in Nat : F = Len(file) /\ F = Len(file')
    BY <1>1, SeqTypes DEF FileIs
  <1>3. watch' = [pc |-> "read", size |-> F, offset |-> watch.offset, buf |-> watch.buf]
    <2>1. watch' = [watch EXCEPT !.size = F, !.pc = "read"]
      BY <1>2 DEF Poll
    <2>2. watch = [pc |-> watch.pc, size |-> watch.size, offset |-> watch.offset, buf |-> watch.buf]
      BY DEF WatchIs
    <2> QED BY <2>1, <2>2
  <1>4. /\ watch'.pc = "read" /\ watch'.size = F /\ watch'.offset = watch.offset
        /\ watch'.buf = watch.buf
        /\ watch' = [pc |-> watch'.pc, size |-> watch'.size, offset |-> watch'.offset,
                     buf |-> watch'.buf]
    BY <1>3
  <1>5. Done' = Done
    BY <1>4 DEF Done
  <1>6. PlainText(watch.buf, Done)' <=> PlainText(watch.buf, Done)
    BY <1>1, <1>4, <1>5 DEF PlainText, ByteOf
  <1>7. /\ (Prefix(stream, Done))' = Prefix(stream, Done)
        /\ (TallyAt(stream, Done, decl.tools))' = TallyAt(stream, Done, decl.tools)
    BY <1>1, <1>5
  <1>8. watch.offset < F /\ watch.offset <= F /\ F <= F
    BY <1>1, <1>2 DEF WatchIs
  <1> QED BY <1>1, <1>2, <1>4, <1>5, <1>6, <1>7, <1>8 DEF WatchIs

LEMMA WatchStep ==
  ASSUME ConfInv, OrderIs, WatchInv, [Next]_vars
  PROVE  WatchInv'
  <1> SUFFICES ASSUME AllPlain' PROVE WatchIs'
    BY DEF WatchInv
  <1>1. FileIs /\ StreamIs /\ FileIs' /\ Told(Uses(Written))
    BY ConfStep DEF ConfInv, StreamIs, Sound
  <1>2. CASE StartLine
    <2>1. PICK e \in Line : stream' = Append(stream, e)
      BY <1>2 DEF StartLine
    <2>2. UNCHANGED <<decl, watch, state>>
      BY <1>2 DEF StartLine
    <2>3. AllPlain
      <3>1. PICK M \in Nat : M = Len(stream) /\ DOMAIN stream = 1 .. M
        BY <1>1, SeqTypes DEF FileIs
      <3>2. PICK s : s = stream'
        OBVIOUS
      <3>3. s \in Seq(Line) /\ Len(s) = M + 1 /\ \A i \in 1 .. M : s[i] = stream[i]
        BY <1>1, <2>1, <3>1, <3>2, AppendIs DEF FileIs
      <3>4. DOMAIN s = 1 .. M + 1 /\ \A i \in DOMAIN s : Plain(s[i])
        BY <3>2, <3>3, SeqTypes DEF AllPlain, Plain
      <3> QED BY <3>1, <3>3, <3>4 DEF AllPlain, Plain
    <2> QED BY <1>1, <2>1, <2>2, <2>3, WatchGrows DEF WatchInv
  <1>3. CASE UNCHANGED stream
    <2>1. AllPlain /\ WatchIs
      BY <1>3 DEF AllPlain, Plain, WatchInv
    <2>2. CASE FinishLine
      BY <1>1, <2>1, <2>2, WatchFinish
    <2>3. CASE Poll
      BY <1>1, <2>1, <2>3, WatchPoll
    <2>4. CASE Read
      BY <1>1, <2>1, <2>4, ReadStep
    <2>5. CASE UNCHANGED <<decl, stream, file, watch, state>>
      <3>1. (PlainText(watch.buf, Done)' <=> PlainText(watch.buf, Done)) /\ Done' = Done
        BY <2>5 DEF PlainText, ByteOf, Done
      <3>2. /\ (Prefix(stream, Done))' = Prefix(stream, Done)
            /\ (TallyAt(stream, Done, decl.tools))' = TallyAt(stream, Done, decl.tools)
        BY <2>5, <3>1
      <3> QED BY <2>1, <2>5, <3>1, <3>2 DEF WatchIs
    <2>6. FinishLine \/ Poll \/ Read \/ StartLine \/ UNCHANGED <<decl, stream, file, watch, state>>
      BY DEF Next, ExecutorEnds, Build, Verify, Watch, vars
    <2> QED BY <1>2, <2>2, <2>3, <2>4, <2>5, <2>6
  <1>4. StartLine \/ UNCHANGED stream
    BY DEF Next, FinishLine, ExecutorEnds, Build, Verify, Watch, Poll, Read, vars
  <1> QED BY <1>2, <1>3, <1>4

\* When it is done, the line that ended the stream is the last one.
LEMMA WholeRun ==
  ASSUME FileIs, OrderIs, WatchIs, watch.pc = "done"
  PROVE  BuilderLines = Prefix(stream, Done)
  <1>1. PICK M \in Nat : M = Len(stream)
    BY SeqTypes DEF FileIs
  <1>2. PICK F \in Nat : F = Len(file) /\ F <= LineSize * M
    BY <1>1, SeqTypes DEF FileIs
  <1>3. PICK o \in Nat : o = watch.offset /\ o <= F
    BY <1>2 DEF WatchIs
  <1>4. PICK k \in Nat : k = Done /\ k <= M /\ LineSize * k <= o
    <2>1. /\ o \div LineSize \in Nat /\ o \div LineSize <= M
          /\ LineSize * (o \div LineSize) <= o
      BY <1>2, <1>3 DEF LineSize
    <2> QED BY <2>1, <1>3 DEF Done
  <1>5. HasEnd(Prefix(stream, k))
    BY <1>4 DEF WatchIs
  <1>6. k = M
    <2>1. k < M => ~HasEnd(Prefix(stream, k))
      BY <1>1, <1>4 DEF OrderIs, Ordered
    <2> QED BY <2>1, <1>4, <1>5
  <1>7. F = LineSize * M
    BY <1>2, <1>3, <1>4, <1>6 DEF LineSize
  <1>8. F % LineSize = 0 /\ F \div LineSize = M /\ LineSize - 1 # 0
    BY <1>7 DEF LineSize
  <1>9. Torn = 0 /\ Torn # LineSize - 1
    BY <1>2, <1>8 DEF Torn
  <1>10. Lines = SubSeq(stream, 1, M)
    BY <1>2, <1>8 DEF Lines
  <1>11. BuilderLines = ToSet(SubSeq(stream, 1, M))
    BY <1>9, <1>10 DEF BuilderLines
  <1>12. stream \in Seq(Line) /\ M \in 0 .. Len(stream)
    BY <1>1 DEF FileIs
  <1> QED BY <1>4, <1>6, <1>11, <1>12, PrefixIs

LEMMA WatchOf == ConfInv /\ OrderIs /\ WatchInv => WatchMissesNothing
  <1> SUFFICES ASSUME ConfInv, OrderIs, WatchInv, AllPlain
               PROVE  /\ watch.pc # "crashed"
                      /\ state = Tally(Passed, decl.tools)
                      /\ watch.pc = "done" <=> HasEnd(ToSet(Passed))
                      /\ watch.pc = "done" => /\ state.oosExec > 0 <=> OffSurface
                                              /\ state.unresolved = {} <=> Answered
    BY DEF WatchMissesNothing
  <1>1. FileIs /\ WatchIs /\ Told(Uses(Written)) /\ Ordered(stream)
    BY DEF ConfInv, WatchInv, StreamIs, Sound, OrderIs
  <1>2. PICK M \in Nat : M = Len(stream)
    BY <1>1, SeqTypes DEF FileIs
  <1>3. PICK k \in Nat : k = Done /\ k <= M
    <2>1. PICK o \in Nat : o = watch.offset /\ o <= LineSize * M
      <3>1. PICK F \in Nat : F = Len(file) /\ F <= LineSize * M
        BY <1>1, <1>2, SeqTypes DEF FileIs
      <3> QED BY <3>1, <1>1 DEF WatchIs, LineSize
    <2>2. o \div LineSize \in Nat /\ o \div LineSize <= M
      BY <2>1 DEF LineSize
    <2> QED BY <2>1, <2>2 DEF Done
  <1>4. stream \in Seq(Line) /\ k \in 0 .. Len(stream)
    BY <1>1, <1>2, <1>3 DEF FileIs
  <1>5. PICK P : P = Prefix(stream, k)
    OBVIOUS
  <1>6. Passed = SubSeq(stream, 1, k) /\ ToSet(Passed) = P
    BY <1>3, <1>4, <1>5, PrefixIs DEF Passed, Done
  <1>7. state = Tally(Passed, decl.tools)
    BY <1>1, <1>3, <1>6 DEF WatchIs, TallyAt
  <1>8. watch.pc # "crashed" /\ (watch.pc = "done" <=> HasEnd(P))
    BY <1>1, <1>3, <1>5 DEF WatchIs
  <1>9. TallySays(state, P, decl.tools)
    <2>1. TallySays(TallyAt(stream, k, decl.tools), P, decl.tools)
      BY <1>1, <1>4, <1>5, TallySaysAt DEF Written
    <2> QED BY <2>1, <1>1, <1>3 DEF WatchIs
  <1>10. ASSUME watch.pc = "done"
         PROVE  (state.oosExec > 0 <=> OffSurface) /\ (state.unresolved = {} <=> Answered)
    <2>1. BuilderLines = P
      BY <1>1, <1>3, <1>5, <1>10, WholeRun
    <2>2. state.oosExec > 0 <=> Escaped(P, decl.tools)
      BY <1>9 DEF TallySays
    <2>3. Escaped(P, decl.tools) <=> OffSurface
      BY <2>1 DEF Escaped, OffSurface, Ran, RanIn
    <2>4. state.unresolved = OpenIds(P)
      BY <1>9 DEF TallySays
    <2>5. OpenIds(P) = {} <=> Answered
      BY <2>1 DEF OpenIds, Answered
    <2> QED BY <2>2, <2>3, <2>4, <2>5
  <1> QED BY <1>6, <1>7, <1>8, <1>10

-----------------------------------------------------------------------------
(* Publication: the tracked tree and the tree of its baseline.               *)

TreeIs(t) == t = [p \in Path |-> t[p]] /\ \A p \in Path : t[p] \in Content(p) \cup {NoFile}
PubInv == TreeIs(tree) /\ (base # NoBase => TreeIs(base))

LEMMA PubKept == PubSpec => []PubInv
  <1>1. PubInit => PubInv
    BY DEF PubInit, PubInv, TreeIs
  <1>2. PubInv /\ [PubNext]_pubVars => PubInv'
    <2> SUFFICES ASSUME PubInv, [PubNext]_pubVars PROVE PubInv'
      OBVIOUS
    <2>1. CASE Commit
      <3>1. PICK q \in Path : \E held \in Content(q) \cup {NoFile} : tree' = [tree EXCEPT ![q] = held]
        BY <2>1 DEF Commit
      <3>2. PICK held \in Content(q) \cup {NoFile} : tree' = [tree EXCEPT ![q] = held]
        BY <3>1
      <3>3. tree = [p \in Path |-> tree[p]] /\ \A p \in Path : tree[p] \in Content(p) \cup {NoFile}
        BY DEF PubInv, TreeIs
      <3>4. tree' = [p \in Path |-> IF p = q THEN held ELSE tree[p]]
        BY <3>2, <3>3
      <3>5. tree' = [p \in Path |-> tree'[p]] /\ \A p \in Path : tree'[p] \in Content(p) \cup {NoFile}
        BY <3>2, <3>3, <3>4
      <3>6. TreeIs(tree)'
        BY <3>5 DEF TreeIs, Content
      <3>7. base' = base
        BY <2>1 DEF Commit
      <3> QED BY <3>6, <3>7 DEF PubInv, TreeIs, Content
    <2>2. CASE Pin
      BY <2>2 DEF Pin, PubInv, TreeIs, Content
    <2>3. CASE AddRemote \/ UNCHANGED pubVars
      BY <2>3 DEF AddRemote, pubVars, PubInv, TreeIs, Content
    <2> QED BY <2>1, <2>2, <2>3 DEF PubNext
  <1> QED BY <1>1, <1>2, PTL DEF PubSpec

LEMMA FilesAre ==
  ASSUME NEW t, TreeIs(t)
  PROVE  /\ t.stream # NoFile => t.stream \in Seq(Token)
         /\ t.claims # NoFile => t.claims \in Seq(Token)
         /\ t.rule # NoFile => t.rule \in Rule /\ t.rule.pattern \in Token
                               /\ t.rule.replacement \in Token /\ t.rule.rest \in Seq(Token)
         /\ t.note # NoFile => t.note.bytes \in Seq(Token)
         /\ t.record # NoFile => t.record.measured \in Seq(Token)
                                 /\ t.record.cites \in Rule \cup {NoFile}
  <1>1. Path = {"stream", "record", "rule", "note", "claims"}
    BY DEF Path
  <1>2. /\ Content("stream") = Stream /\ Content("claims") = Claims /\ Content("rule") = Rule
        /\ Content("note") = Note
        /\ Content("record") = [measured : Stream, cites : Rule \cup {NoFile}]
    BY DEF Content
  <1>3. /\ t["stream"] \in Stream \cup {NoFile} /\ t["claims"] \in Claims \cup {NoFile}
        /\ t["rule"] \in Rule \cup {NoFile} /\ t["note"] \in Note \cup {NoFile}
        /\ t["record"] \in [measured : Stream, cites : Rule \cup {NoFile}] \cup {NoFile}
    BY <1>1, <1>2 DEF TreeIs
  <1>4. t.stream # NoFile => t.stream \in Seq(Token)
    BY <1>3, PublicationAssumption
  <1>5. t.claims # NoFile => t.claims \in Seq(Token)
    BY <1>3, PublicationAssumption
  <1>6. t.rule # NoFile => t.rule \in Rule /\ t.rule.pattern \in Token
                           /\ t.rule.replacement \in Token /\ t.rule.rest \in Seq(Token)
    BY <1>3, PublicationAssumption
  <1>7. t.note # NoFile => t.note.bytes \in Seq(Token)
    BY <1>3, PublicationAssumption
  <1>8. t.record # NoFile => t.record.measured \in Seq(Token) /\ t.record.cites \in Rule \cup {NoFile}
    BY <1>3, PublicationAssumption
  <1> QED BY <1>4, <1>5, <1>6, <1>7, <1>8

LEMMA BytesOfFile ==
  ASSUME NEW t, TreeIs(t), NEW p \in Path
  PROVE  Bytes(t, p) \in Seq(Token)
  <1>1. <<>> \in Seq(Token)
    BY EmptySeq
  <1>2. p = "stream" \/ p = "record" \/ p = "rule" \/ p = "note" \/ p = "claims"
    BY DEF Path
  <1>3. CASE t[p] = NoFile
    BY <1>1, <1>3 DEF Bytes
  <1>4. CASE t[p] # NoFile
    <2>1. CASE p = "stream" \/ p = "claims"
      BY <1>4, <2>1, FilesAre DEF Bytes
    <2>2. CASE p = "rule"
      <3>1. Bytes(t, p) = <<t.rule.pattern, t.rule.replacement>> \o t.rule.rest
        BY <1>4, <2>2 DEF Bytes
      <3>2. <<t.rule.pattern, t.rule.replacement>> \in Seq(Token) /\ t.rule.rest \in Seq(Token)
        BY <1>4, <2>2, FilesAre
      <3> QED BY <3>1, <3>2, ConcatSplit
    <2>3. CASE p = "note"
      BY <1>4, <2>3, FilesAre DEF Bytes
    <2>4. CASE p = "record"
      BY <1>1, <1>4, <2>4 DEF Bytes
    <2> QED BY <1>2, <2>1, <2>2, <2>3, <2>4
  <1> QED BY <1>3, <1>4

LEMMA HitsAre ==
  ASSUME NEW t, TreeIs(t), NEW p \in Path, NEW c \in Class
  PROVE  /\ IsFiniteSet(Hits(t, p, c)) /\ Count(t, p, c) \in Nat
         /\ Count(t, p, c) = 0 <=> Tokens(t, p) \cap Holds[c] = {}
  <1>1. PICK b : b = Bytes(t, p)
    OBVIOUS
  <1>2. Len(b) \in Nat /\ DOMAIN b = 1 .. Len(b)
    BY <1>1, BytesOfFile, SeqTypes
  <1>3. IsFiniteSet(DOMAIN b)
    BY <1>2, FS_Interval
  <1>4. Hits(t, p, c) \subseteq DOMAIN b
    BY <1>1 DEF Hits
  <1>5. IsFiniteSet(Hits(t, p, c)) /\ Count(t, p, c) \in Nat
    BY <1>3, <1>4, FS_Subset, FS_CardinalityType DEF Count
  <1>6. Count(t, p, c) = 0 <=> Hits(t, p, c) = {}
    BY <1>5, FS_EmptySet DEF Count
  <1>7. Hits(t, p, c) = {} <=> Tokens(t, p) \cap Holds[c] = {}
    BY <1>1 DEF Hits, Tokens, ToSet
  <1> QED BY <1>5, <1>6, <1>7

\* The occurrences of a class in one file that have no title to be there.
Untitled(p, c) == {i \in Hits(tree, p, c) : ~Entitled(<<p, i>>, c)}

\* A rule that is bare and exempt has the class in its slots alone.
LEMMA BareRule ==
  ASSUME TreeIs(tree), RuleIsBare, ExemptRule("rule"), NEW c \in Class
  PROVE  Untitled("rule", c) = {}
  <1>1. CASE tree.rule = NoFile
    <2>1. Bytes(tree, "rule") = <<>>
      BY <1>1 DEF Bytes
    <2> QED BY <2>1 DEF Untitled, Hits
  <1>2. CASE tree.rule # NoFile
    <2>1. PICK slots, rest : slots = <<tree.rule.pattern, tree.rule.replacement>> /\ rest = tree.rule.rest
      OBVIOUS
    <2>2. slots \in Seq(Token) /\ Len(slots) = 2 /\ rest \in Seq(Token) /\ Len(rest) \in Nat
      BY <1>2, <2>1, FilesAre
    <2>3. PICK all : all = slots \o rest
      OBVIOUS
    <2>4. Bytes(tree, "rule") = all
      BY <1>2, <2>1, <2>3 DEF Bytes
    <2>5. /\ all \in Seq(Token) /\ Len(all) = Len(slots) + Len(rest)
          /\ \A k \in 1 .. Len(rest) : all[Len(slots) + k] = rest[k]
      <3>1. slots \in Seq(Token) /\ rest \in Seq(Token)
        BY <2>2
      <3>2. Joins(Token, all, slots, rest)
        BY <2>3, <3>1, Joined
      <3> QED BY <3>2 DEF Joins
    <2>6. DOMAIN all = 1 .. 2 + Len(rest)
      BY <2>2, <2>5
    <2>7. ASSUME NEW i \in Hits(tree, "rule", c), i \notin Slot PROVE FALSE
      <3>1. i \in 1 .. 2 + Len(rest) /\ all[i] \in Holds[c] /\ all[i] \in Tokens(tree, "rule")
        BY <2>4, <2>6 DEF Hits, Tokens, ToSet
      <3>2. all[i] \in {tree.rule.pattern, tree.rule.replacement}
        BY <3>1 DEF ExemptRule
      <3>3. PICK k \in 1 .. Len(rest) : i = Len(slots) + k
        <4>1. i - 2 \in 1 .. Len(rest) /\ i = Len(slots) + (i - 2)
          BY <2>2, <2>7, <3>1 DEF Slot
        <4> QED BY <4>1
      <3>4. all[i] = rest[k] /\ rest[k] \in ToSet(rest)
        BY <2>2, <2>5, <3>3 DEF ToSet
      <3> QED BY <1>2, <2>1, <3>2, <3>4 DEF RuleIsBare
    <2> QED BY <2>7 DEF Untitled, Entitled
  <1> QED BY <1>1, <1>2

\* A file that is exempt is entitled to what it carries.
LEMMA ExemptIsEntitled ==
  ASSUME TreeIs(tree), RuleIsBare, NEW p \in Path, Exempt(p), NEW c \in Class
  PROVE  Untitled(p, c) = {}
  <1>1. CASE ExemptRule(p)
    <2>1. p = "rule"
      BY <1>1 DEF ExemptRule
    <2> QED BY <1>1, <2>1, BareRule
  <1>2. CASE ExemptDeclaration(p)
    <2>1. p = "claims" /\ (Count(tree, p, c) > 0 <=> c \in Quotable)
      BY <1>2 DEF ExemptDeclaration
    <2>2. CASE c \in Quotable
      BY <2>1, <2>2 DEF Untitled, Entitled
    <2>3. CASE c \notin Quotable
      <3>1. Count(tree, p, c) = 0
        BY <2>1, <2>3, HitsAre
      <3>2. Hits(tree, p, c) = {}
        BY <3>1, HitsAre, FS_EmptySet DEF Count
      <3> QED BY <3>2 DEF Untitled
    <2> QED BY <2>2, <2>3
  <1>3. CASE Pinned(p)
    BY <1>3 DEF Pinned, Entitled, Untitled
  <1> QED BY <1>1, <1>2, <1>3 DEF Exempt

-----------------------------------------------------------------------------
(* What a surface that passes says, file by file and over the tree.          *)

LEMMA OccurrencesAre ==
  ASSUME NEW t, TreeIs(t), NEW c \in Class
  PROVE  /\ IsFiniteSet(Occurrences(t, c))
         /\ \A h \in Occurrences(t, c) : h = <<h[1], h[2]>> /\ h[1] \in Path /\ h[2] \in Hits(t, h[1], c)
         /\ \A p \in Path : \A i \in Hits(t, p, c) : <<p, i>> \in Occurrences(t, c)
  <1>1. \A p \in Path : IsFiniteSet({p} \X Hits(t, p, c))
    <2>1. ASSUME NEW p \in Path PROVE IsFiniteSet({p} \X Hits(t, p, c))
      <3>1. IsFiniteSet({p}) /\ IsFiniteSet(Hits(t, p, c))
        BY HitsAre, FS_Singleton
      <3> QED BY <3>1, FS_Product
    <2> QED BY <2>1
  <1>2. PICK at : at = [p \in Path |-> {p} \X Hits(t, p, c)]
    OBVIOUS
  <1>3. IsFiniteSet(Occurrences(t, c))
    <2>1. \A p \in Path : IsFiniteSet(at[p])
      BY <1>1, <1>2
    <2>2. /\ IsFiniteSet(at["stream"]) /\ IsFiniteSet(at["record"]) /\ IsFiniteSet(at["rule"])
          /\ IsFiniteSet(at["note"]) /\ IsFiniteSet(at["claims"])
      BY <2>1 DEF Path
    <2>3. Occurrences(t, c) =
            (((at["stream"] \cup at["record"]) \cup at["rule"]) \cup at["note"]) \cup at["claims"]
      BY <1>2 DEF Occurrences, Path
    <2>4. IsFiniteSet((at["stream"] \cup at["record"]) \cup at["rule"])
      BY <2>2, FS_Union
    <2>5. IsFiniteSet(((at["stream"] \cup at["record"]) \cup at["rule"]) \cup at["note"])
      BY <2>2, <2>4, FS_Union
    <2>6. IsFiniteSet((((at["stream"] \cup at["record"]) \cup at["rule"]) \cup at["note"]) \cup at["claims"])
      BY <2>2, <2>5, FS_Union
    <2> QED BY <2>3, <2>6
  <1>4. ASSUME NEW h \in Occurrences(t, c)
        PROVE  h = <<h[1], h[2]>> /\ h[1] \in Path /\ h[2] \in Hits(t, h[1], c)
    BY DEF Occurrences
  <1>5. ASSUME NEW p \in Path, NEW i \in Hits(t, p, c) PROVE <<p, i>> \in Occurrences(t, c)
    BY DEF Occurrences
  <1> QED BY <1>3, <1>4, <1>5

\* What has no title is nothing, or stands in a file that was not charged.
LEMMA PassSays ==
  ASSUME TreeIs(tree), TreeIs(base), Surface = "pass", RuleIsBare, NEW p \in Path, NEW c \in Class
  PROVE  /\ IsFiniteSet(Untitled(p, c))
         /\ Cardinality(Untitled(p, c)) <= Count(base, p, c)
  <1>1. /\ IsFiniteSet(Hits(tree, p, c)) /\ Count(tree, p, c) \in Nat
        /\ Count(base, p, c) \in Nat
    BY HitsAre
  <1>2. /\ IsFiniteSet(Untitled(p, c)) /\ Cardinality(Untitled(p, c)) \in Nat
        /\ Cardinality(Untitled(p, c)) <= Count(tree, p, c)
    <2>1. Untitled(p, c) \subseteq Hits(tree, p, c)
      BY DEF Untitled
    <2> QED BY <1>1, <2>1, FS_Subset, FS_CardinalityType DEF Count
  <1>3. CASE Charged(p)
    <2>1. Exempt(p)
      BY <1>3 DEF Surface
    <2>2. Cardinality(Untitled(p, c)) = 0
      BY <2>1, ExemptIsEntitled, FS_EmptySet
    <2> QED BY <1>1, <1>2, <2>2
  <1>4. CASE ~Charged(p)
    <2>1. Count(tree, p, c) <= Count(base, p, c)
      BY <1>1, <1>4 DEF Charged
    <2> QED BY <1>1, <1>2, <2>1
  <1> QED BY <1>3, <1>4

\* The same of the stream, whatever the rule says.
LEMMA PassSaysOfStream ==
  ASSUME TreeIs(tree), TreeIs(base), Surface = "pass", NEW c \in Class, ~Pinned("stream")
  PROVE  Count(tree, "stream", c) <= Count(base, "stream", c)
  <1>1. "stream" \in Path
    BY DEF Path
  <1>2. Count(tree, "stream", c) \in Nat /\ Count(base, "stream", c) \in Nat
    BY <1>1, HitsAre
  <1>3. ~Exempt("stream")
    BY DEF Exempt, ExemptRule, ExemptDeclaration
  <1>4. ~Charged("stream")
    BY <1>1, <1>3 DEF Surface
  <1> QED BY <1>2, <1>4 DEF Charged

LEMMA NothingNewOf == PubInv => NothingNewTravels
  <1> SUFFICES ASSUME PubInv, Surface = "pass", RuleIsBare, NEW c \in Class, census[c] # Undeclared
               PROVE  Cardinality({h \in Occurrences(tree, c) : ~Entitled(h, c)})
                        <= census[c].occurrences
    BY DEF NothingNewTravels, WithinTheCensus
  <1>1. base # NoBase /\ Moved = {}
    BY DEF Surface
  <1>2. TreeIs(tree) /\ TreeIs(base)
    BY <1>1 DEF PubInv
  <1>3. census[c].occurrences = Cardinality(Occurrences(base, c))
    <2>1. census[c] = CensusOf(base)[c]
      BY <1>1 DEF Moved
    <2> QED BY <2>1 DEF CensusOf
  <1> DEFINE A == {h \in Occurrences(tree, c) : ~Entitled(h, c)}
             B == Occurrences(base, c)
             Into(p, f) == /\ f \in [Untitled(p, c) -> Hits(base, p, c)]
                           /\ \A x, y \in Untitled(p, c) : f[x] = f[y] => x = y
             into == [p \in Path |-> CHOOSE f : Into(p, f)]
             g == [h \in A |-> <<h[1], into[h[1]][h[2]]>>]
  <1>4. ASSUME NEW p \in Path PROVE Into(p, into[p])
    <2>1. /\ IsFiniteSet(Untitled(p, c)) /\ IsFiniteSet(Hits(base, p, c))
          /\ Cardinality(Untitled(p, c)) <= Cardinality(Hits(base, p, c))
      BY <1>2, <1>4, HitsAre, PassSays DEF Count
    <2>2. \E f : Into(p, f)
      BY <2>1, Embeds
    <2> QED BY <2>2
  <1>5. IsFiniteSet(B)
    BY <1>2, OccurrencesAre
  <1> HIDE DEF into
  <1>6. ASSUME NEW h \in A
        PROVE  /\ h = <<h[1], h[2]>> /\ h[1] \in Path /\ h[2] \in Untitled(h[1], c)
               /\ Into(h[1], into[h[1]]) /\ g[h] \in B
    <2>1. h \in Occurrences(tree, c) /\ ~Entitled(h, c)
      OBVIOUS
    <2>2. h = <<h[1], h[2]>> /\ h[1] \in Path /\ h[2] \in Hits(tree, h[1], c)
      BY <2>1, <1>2, OccurrencesAre
    <2>3. h[2] \in Untitled(h[1], c)
      <3>1. ~Entitled(<<h[1], h[2]>>, c)
        BY <2>1, <2>2, Zenon
      <3> QED BY <2>2, <3>1 DEF Untitled
    <2>4. Into(h[1], into[h[1]])
      BY <2>2, <1>4
    <2>5. into[h[1]][h[2]] \in Hits(base, h[1], c)
      BY <2>3, <2>4
    <2>6. g[h] \in B
      BY <2>2, <2>5, <1>2, OccurrencesAre
    <2> QED BY <2>2, <2>3, <2>4, <2>6
  <1>7. ASSUME NEW h \in A, NEW k \in A, g[h] = g[k] PROVE h = k
    <2>1. h[1] = k[1] /\ into[h[1]][h[2]] = into[k[1]][k[2]]
      BY <1>7
    <2>2. /\ h = <<h[1], h[2]>> /\ h[2] \in Untitled(h[1], c) /\ Into(h[1], into[h[1]])
          /\ k = <<k[1], k[2]>> /\ k[2] \in Untitled(k[1], c)
      BY <1>6
    <2>3. h[2] = k[2]
      BY <2>1, <2>2
    <2> QED BY <2>1, <2>2, <2>3
  <1>8. g \in Injection(A, B)
    <2>1. g \in [A -> B]
      BY <1>6
    <2> QED BY <2>1, <1>7 DEF Injection, IsInjective
  <1>9. Cardinality(A) <= Cardinality(B)
    BY <1>5, <1>8, FS_Injection
  <1> QED BY <1>3, <1>9

-----------------------------------------------------------------------------
(* Evidence and its transformation.                                          *)

\* Where nothing of the pattern is left, undoing and doing is nothing.
LEMMA DoneAgain ==
  ASSUME NEW s \in Seq(Token), NEW pat, NEW new, \A i \in DOMAIN s : s[i] # pat
  PROVE  s = Replaced(Replaced(s, new, pat), pat, new)
  <1>1. PICK r : r = Replaced(s, new, pat)
    OBVIOUS
  <1>2. r = [i \in DOMAIN s |-> IF s[i] = new THEN pat ELSE s[i]]
    BY <1>1 DEF Replaced
  <1>3. Replaced(r, pat, new) = [i \in DOMAIN s |-> IF r[i] = pat THEN new ELSE r[i]]
    BY <1>2 DEF Replaced
  <1>4. \A i \in DOMAIN s : (IF r[i] = pat THEN new ELSE r[i]) = s[i]
    BY <1>2
  <1>5. Replaced(r, pat, new) = [i \in DOMAIN s |-> s[i]]
    BY <1>3, <1>4
  <1>6. s = [i \in DOMAIN s |-> s[i]]
    <2>1. s \in [1 .. Len(s) -> Token] /\ DOMAIN s = 1 .. Len(s)
      BY SeqTypes
    <2> QED BY <2>1
  <1> QED BY <1>1, <1>5, <1>6

LEMMA EvidenceOf == PubInv => EvidenceIsWhole
  <1> SUFFICES ASSUME PubInv, Admitted,
                      \/ Transformed(tree.rule, tree.stream)
                      \/ /\ Surface = "pass" /\ base.stream = NoFile
                         /\ tree.stream \notin Pins(tree, "note"),
                      tree.stream # tree.record.measured
               PROVE  tree.stream = Replaced(tree.record.measured, tree.record.cites.pattern,
                                             tree.record.cites.replacement)
    BY DEF EvidenceIsWhole
  <1>1. /\ TreeIs(tree) /\ tree.record # NoFile /\ tree.stream # NoFile
        /\ tree.record.cites # NoFile /\ tree.rule = tree.record.cites
        /\ Replaced(tree.stream, tree.rule.replacement, tree.rule.pattern) = tree.record.measured
    BY DEF PubInv, Admitted
  <1>2. tree.stream \in Seq(Token) /\ tree.rule \in Rule /\ tree.rule # NoFile
    BY <1>1, FilesAre
  <1>3. Bytes(tree, "stream") = tree.stream
    BY <1>1 DEF Bytes, Path
  <1>4. ASSUME Surface = "pass", base.stream = NoFile, tree.stream \notin Pins(tree, "note")
        PROVE  tree.rule.pattern \notin Tokens(tree, "stream")
    <2>1. TreeIs(base)
      BY <1>4 DEF Surface, PubInv
    <2>2. PICK c \in Class : tree.rule.pattern \in Holds[c]
      BY <1>2, PublicationAssumption
    <2>3. Bytes(base, "stream") = <<>>
      BY <1>4 DEF Bytes
    <2>4. Tokens(base, "stream") = {} /\ "stream" \in Path
      BY <2>3 DEF Tokens, ToSet, Path
    <2>5. Count(base, "stream", c) = 0 /\ Count(tree, "stream", c) \in Nat
      BY <2>1, <2>4, <1>1, HitsAre
    <2>6. ~Pinned("stream")
      <3>1. ASSUME NEW o \in Path \ {"stream"} PROVE tree.stream \notin Pins(tree, o)
        <4>1. CASE o = "record"
          BY <1>1, <4>1 DEF Pins
        <4>2. CASE o = "note"
          BY <1>4, <4>2
        <4>3. CASE o = "rule" \/ o = "claims"
          BY <4>3 DEF Pins
        <4> QED BY <4>1, <4>2, <4>3 DEF Path
      <3> QED BY <3>1 DEF Pinned
    <2>7. Count(tree, "stream", c) = 0
      BY <1>1, <1>4, <2>1, <2>5, <2>6, PassSaysOfStream
    <2> QED BY <1>1, <2>2, <2>4, <2>7, HitsAre
  <1>5. tree.rule.pattern \notin Tokens(tree, "stream")
    BY <1>4 DEF Transformed
  <1>6. \A i \in DOMAIN tree.stream : tree.stream[i] # tree.rule.pattern
    BY <1>3, <1>5 DEF Tokens, ToSet
  <1> QED BY <1>1, <1>2, <1>6, DoneAgain

-----------------------------------------------------------------------------
(* The theorems.                                                             *)

WatchedInv == ConfInv /\ OrderIs /\ WatchInv

\* "Never a pass" (header of conformance_verify.py, lines 6-14): whatever the
\* number of calls, the text of the lines and the place where the stream was cut,
\* CONFORMANT is said only of a run that ended with every call answered and that
\* executed nothing outside its declaration.
THEOREM PassStaysEarned == Spec => []PassIsEarned
  BY ConfInductive, EarnedOf, PTL

\* "Two computations that must agree" (conformance_verify.py, lines 46-48): where
\* the two readers see the same lines, builder and verifier compute the same
\* facts, and the verdict is the run's own.
THEOREM VerdictStaysTrue == Spec => []VerdictIsTheRuns
  BY ConfInductive, TrueOf, PTL

\* What conformance_narrow.py proposes for a conformant run widens nothing, and
\* the run stays inside it.
THEOREM NarrowingStaysInside == Spec => []NarrowingHolds
  BY ConfInductive, NarrowOf, PTL

\* conformance_watch.py polls a file that grows under it and reads by positions in
\* bytes and lengths in characters: of a stream of plain text its tally is that of
\* the lines it has passed, each fed once and in order; it is done exactly when it
\* has passed the last one, and its alarm was then raised if and only if an executed
\* call was off the surface.
THEOREM WatchStaysComplete == Spec => []WatchMissesNothing
  <1>1. Init => WatchedInv
    BY ConfInit, OrderInit, WatchInit DEF WatchedInv
  <1>2. WatchedInv /\ [Next]_vars => WatchedInv'
    <2>1. ASSUME WatchedInv, [Next]_vars PROVE WatchedInv'
      <3>1. ConfInv /\ FileIs /\ StreamIs /\ OrderIs /\ WatchInv
        BY <2>1 DEF WatchedInv, ConfInv
      <3> QED BY <3>1, <2>1, ConfStep, OrderStep, WatchStep DEF WatchedInv
    <2> QED BY <2>1
  <1>3. WatchedInv => WatchMissesNothing
    BY WatchOf DEF WatchedInv
  <1> QED BY <1>1, <1>2, <1>3, PTL DEF Spec

\* "Zero on the surface a change ADDS" (statement_lint.py:424-426): for any history
\* of commits and baselines, any files and any bytes, a tree whose surface passes
\* and whose rule does not repeat its slots' strings beside them carries no more of
\* a class than the declared census, outside the places entitled to it: a rule's
\* two slots, evidence fixed by a digest, the declaration.
THEOREM NothingNewEver == PubSpec => []NothingNewTravels
  <1>1. PubInv => NothingNewTravels
    BY NothingNewOf
  <1> QED BY <1>1, PubKept, PTL

\* "Declared, or it is drift" (path_transform_verify.py:2): in every such history,
\* evidence that is admitted, and declared or new on a surface that passes, is what
\* was measured or the whole image of it.
THEOREM EvidenceStaysWhole == PubSpec => []EvidenceIsWhole
  <1>1. PubInv => EvidenceIsWhole
    BY EvidenceOf
  <1> QED BY <1>1, PubKept, PTL
=============================================================================
