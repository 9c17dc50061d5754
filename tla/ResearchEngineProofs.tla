------------------------ MODULE ResearchEngineProofs ------------------------
(***************************************************************************)
(* Proofs about ResearchEngine, for any pages, tree of levels, number of   *)
(* permits and cap: the types, among them that no more branches work than  *)
(* the semaphore has permits; that no page is crawled twice; that the      *)
(* report is written from everything the branches found, up to where its   *)
(* budget of tokens ends; and that a run over its cap winds down.          *)
(***************************************************************************)
EXTENDS ResearchEngine, FiniteSetTheorems, SequenceTheorems, WellFoundedInduction, TLAPS

-----------------------------------------------------------------------------
(* The tree of levels.                                                     *)

(***************************************************************************)
(* A set of numbers has a least one: 1..m shrinks with m, and no infinite  *)
(* descent through finite sets exists.                                     *)
(***************************************************************************)
LEMMA LeastNumber ==
    ASSUME NEW U, U \subseteq Nat, U # {}
    PROVE  \E m \in U : \A k \in U : m <= k
<1> DEFINE Intervals == {1..m : m \in U}
<1>1. Intervals # {}
  OBVIOUS
<1>2. Intervals \subseteq FiniteSubsetsOf(Nat)
  <2> SUFFICES ASSUME NEW m \in U PROVE 1..m \in FiniteSubsetsOf(Nat)
    OBVIOUS
  <2>1. IsFiniteSet(1..m)
    BY FS_Interval
  <2> QED BY <2>1 DEF FiniteSubsetsOf
<1>3. \E x \in Intervals : \A y \in Intervals : ~ (<<y, x>> \in StrictSubsetOrdering(Nat))
  <2> HIDE DEF Intervals
  <2> QED BY <1>1, <1>2, FS_StrictSubsetOrderingWellFounded, WFMin
<1>4. PICK m \in U : \A k \in U : ~ (<<1..k, 1..m>> \in StrictSubsetOrdering(Nat))
  BY <1>3
<1> SUFFICES ASSUME NEW k \in U, k < m PROVE FALSE
  OBVIOUS
<1>5. 1..k \subseteq Nat /\ 1..m \subseteq Nat /\ 1..k \subseteq 1..m /\ 1..k # 1..m
  <2>1. m \in 1..m /\ m \notin 1..k
    OBVIOUS
  <2> QED BY <2>1
<1>6. <<1..k, 1..m>> \in StrictSubsetOrdering(Nat)
  <2> DEFINE a == 1..k
             b == 1..m
  <2> HIDE DEF a, b
  <2>1. a \subseteq Nat /\ b \subseteq Nat /\ a \subseteq b /\ a # b
    BY <1>5 DEF a, b
  <2>2. <<a, b>> \in StrictSubsetOrdering(Nat)
    BY <2>1 DEF StrictSubsetOrdering
  <2> QED BY <2>2 DEF a, b
<1> QED
  BY <1>4, <1>6

Half(x) == (x + 1) \div 2

(***************************************************************************)
(* Half of a breadth, rounded up, is a breadth.                            *)
(***************************************************************************)
LEMMA HalfType == \A x \in 1..Breadth : Half(x) \in 1..Breadth
<1>1. Breadth \in Nat
  BY EngineAssumption
<1> SUFFICES ASSUME NEW x \in 1..Breadth PROVE (x + 1) \div 2 \in 1..Breadth
  BY DEF Half
<1> QED BY <1>1

\* The breadths of the levels down to a depth.
Halves(f, n) == \A i \in 0..n : f[i] = IF i = 0 THEN Breadth ELSE Half(f[i - 1])

(***************************************************************************)
(* There are such breadths, down to any depth,                             *)
(***************************************************************************)
LEMMA HalvesExist == \A n \in Nat : \E f \in [0..n -> 1..Breadth] : Halves(f, n)
<1> DEFINE U == {n \in Nat : ~\E f \in [0..n -> 1..Breadth] : Halves(f, n)}
<1> SUFFICES ASSUME U # {} PROVE FALSE
  OBVIOUS
<1>1. PICK m \in U : \A k \in U : m <= k
  BY LeastNumber
<1>2. Breadth \in 1..Breadth
  BY EngineAssumption
<1>3. CASE m = 0
  <2> DEFINE f == [i \in 0..0 |-> Breadth]
  <2>1. f \in [0..0 -> 1..Breadth] /\ Halves(f, 0)
    BY <1>2 DEF Halves
  <2> QED BY <1>3, <2>1
<1>4. CASE m # 0
  <2>1. m - 1 \in Nat /\ m - 1 \notin U
    <3>1. m \in Nat
      OBVIOUS
    <3> HIDE DEF U
    <3>2. m - 1 \in Nat /\ ~(m <= m - 1)
      BY <1>4, <3>1
    <3> QED BY <1>1, <3>2
  <2>2. PICK f \in [0..(m - 1) -> 1..Breadth] : Halves(f, m - 1)
    BY <2>1
  <2> DEFINE g == [i \in 0..m |-> IF i = m THEN Half(f[m - 1]) ELSE f[i]]
  <2>3. g \in [0..m -> 1..Breadth]
    BY <2>1, HalfType
  <2>4. Halves(g, m)
    <3> SUFFICES ASSUME NEW i \in 0..m
                 PROVE  g[i] = IF i = 0 THEN Breadth ELSE Half(g[i - 1])
      BY DEF Halves
    <3>1. CASE i = m
      BY <1>4, <2>1, <3>1
    <3>2. CASE i # m
      <4>1. i \in 0..(m - 1) /\ g[i] = f[i] /\ (i # 0 => g[i - 1] = f[i - 1])
        BY <2>1, <3>2
      <4> QED BY <2>2, <4>1 DEF Halves
    <3> QED BY <3>1, <3>2
  <2> QED BY <2>3, <2>4
<1> QED BY <1>3, <1>4

(***************************************************************************)
(* ... and they are the same ones, whatever depth they go down to.         *)
(***************************************************************************)
LEMMA HalvesAgree ==
    ASSUME NEW m \in Nat, NEW n \in Nat, NEW f, NEW g, Halves(f, m), Halves(g, n)
    PROVE  \A i \in Nat : i <= m /\ i <= n => f[i] = g[i]
<1> DEFINE U == {i \in Nat : i <= m /\ i <= n /\ f[i] # g[i]}
<1> SUFFICES ASSUME U # {} PROVE FALSE
  OBVIOUS
<1>1. PICK k \in U : \A i \in U : k <= i
  BY LeastNumber
<1>2. k \in 0..m /\ k \in 0..n
  OBVIOUS
<1>3. CASE k = 0
  BY <1>2, <1>3 DEF Halves
<1>4. CASE k # 0
  <2>1. k - 1 \in Nat /\ k - 1 <= m /\ k - 1 <= n /\ k - 1 \notin U
    BY <1>1, <1>2, <1>4
  <2>2. f[k - 1] = g[k - 1]
    BY <2>1
  <2> QED BY <1>2, <1>4, <2>2 DEF Halves
<1> QED BY <1>3, <1>4

(***************************************************************************)
(* No level is narrower than one query, or wider than the first.           *)
(***************************************************************************)
LEMMA WidthType == \A d \in Nat : Width[d] \in 1..Breadth
<1> DEFINE H(n) == CHOOSE f \in [0..n -> 1..Breadth] : Halves(f, n)
           F == [d \in Nat |-> H(d)[d]]
<1>1. \A n \in Nat : H(n) \in [0..n -> 1..Breadth] /\ Halves(H(n), n)
  BY HalvesExist
<1> HIDE DEF H
<1>2. F \in [Nat -> 1..Breadth]
  BY <1>1
<1>3. \A d \in Nat : F[d] = IF d = 0 THEN Breadth ELSE Half(F[d - 1])
  <2> SUFFICES ASSUME NEW d \in Nat
               PROVE  F[d] = IF d = 0 THEN Breadth ELSE Half(F[d - 1])
    OBVIOUS
  <2>1. H(d)[d] = IF d = 0 THEN Breadth ELSE Half(H(d)[d - 1])
    BY <1>1 DEF Halves
  <2>2. CASE d = 0
    BY <2>1, <2>2
  <2>3. CASE d # 0
    <3>1. d - 1 \in Nat /\ d - 1 <= d
      BY <2>3
    <3>2. H(d)[d - 1] = H(d - 1)[d - 1]
      BY <1>1, <3>1, HalvesAgree
    <3> QED BY <2>1, <2>3, <3>1, <3>2
  <2> QED BY <2>2, <2>3
<1> HIDE DEF F
<1>4. F = [d \in Nat |-> IF d = 0 THEN Breadth ELSE (F[d - 1] + 1) \div 2]
  BY <1>2, <1>3 DEF Half
<1>5. Width = [d \in Nat |-> IF d = 0 THEN Breadth ELSE (Width[d - 1] + 1) \div 2]
  BY <1>4 DEF Width
<1>6. Width \in [Nat -> 1..Breadth]
  <2> DEFINE U == {d \in Nat : Width[d] \notin 1..Breadth}
  <2> SUFFICES ASSUME U # {} PROVE FALSE
    BY <1>5
  <2>1. PICK k \in U : \A i \in U : k <= i
    BY LeastNumber
  <2>2. Breadth \in 1..Breadth
    BY EngineAssumption
  <2>3. k # 0
    BY <1>5, <2>2
  <2>4. k - 1 \in Nat /\ Width[k - 1] \in 1..Breadth
    BY <2>1, <2>3
  <2>5. Width[k] = Half(Width[k - 1])
    BY <1>5, <2>3 DEF Half
  <2> QED BY <2>4, <2>5, HalfType
<1> QED BY <1>6

\* The run and its branches, by their paths; p is q, or q belongs to its level.
Nodes == {<<>>} \cup Branches

Above(p, q) == Len(p) <= Len(q) /\ SubSeq(q, 1, Len(p)) = p

(***************************************************************************)
(* A branch is a sequence of indices, as long as it is deep.               *)
(***************************************************************************)
LEMMA BranchIsPath ==
    ASSUME NEW p
    PROVE  p \in Branches <=> /\ p \in Seq(1..Breadth)
                              /\ Len(p) \in 1..Depth
                              /\ \A i \in 1..Len(p) : p[i] <= Width[i - 1]
<1> DEFINE Of(n) == {q \in [1..n -> 1..Breadth] : \A i \in 1..n : q[i] <= Width[i - 1]}
<1>1. Branches = UNION {Of(n) : n \in 1..Depth}
  BY DEF Branches
<1>2. ASSUME p \in Branches
      PROVE  /\ p \in Seq(1..Breadth)
             /\ Len(p) \in 1..Depth
             /\ \A i \in 1..Len(p) : p[i] <= Width[i - 1]
  <2> PICK d \in 1..Depth : p \in Of(d)
    BY <1>1, <1>2
  <2>1. Len(p) = d /\ p \in Seq(1..Breadth)
    BY EngineAssumption
  <2> QED BY <2>1
<1>3. ASSUME p \in Seq(1..Breadth), Len(p) \in 1..Depth,
             \A i \in 1..Len(p) : p[i] <= Width[i - 1]
      PROVE  p \in Branches
  <2>1. p \in [1..Len(p) -> 1..Breadth]
    BY <1>3, LenProperties
  <2>2. p \in Of(Len(p))
    BY <1>3, <2>1
  <2> HIDE DEF Of
  <2> QED BY <1>1, <1>3, <2>2
<1> QED BY <1>2, <1>3

(***************************************************************************)
(* The branches and levels a branch belongs to are the beginnings of it.   *)
(***************************************************************************)
LEMMA Beginning ==
    ASSUME NEW q \in Branches, NEW n \in 1..Len(q)
    PROVE  /\ SubSeq(q, 1, n) \in Branches
           /\ Len(SubSeq(q, 1, n)) = n
           /\ n < Len(q) => SubSeq(q, 1, n) \in Levels
           /\ \A m \in 0..n : SubSeq(SubSeq(q, 1, n), 1, m) = SubSeq(q, 1, m)
<1> DEFINE b == SubSeq(q, 1, n)
<1>1. /\ q \in Seq(1..Breadth) /\ Len(q) \in 1..Depth
      /\ \A i \in 1..Len(q) : q[i] <= Width[i - 1]
  BY BranchIsPath
<1>2. b \in Seq(1..Breadth) /\ Len(b) = n /\ \A i \in 1..n : b[i] = q[i]
  <2>1. \A i \in 1..n : q[i] \in 1..Breadth
    BY <1>1, ElementOfSeq, EngineAssumption
  <2>2. 1 \in Int /\ n \in Int /\ 1 <= n
    BY <1>1
  <2> QED BY <2>1, <2>2, SubSeqProperties
<1>3. n \in 1..Depth /\ \A i \in 1..n : b[i] <= Width[i - 1]
  BY <1>1, <1>2, EngineAssumption
<1>4. b \in Branches
  <2> HIDE DEF b
  <2> QED BY <1>2, <1>3, BranchIsPath
<1>5. \A m \in 0..n : SubSeq(b, 1, m) = SubSeq(q, 1, m)
  <2> SUFFICES ASSUME NEW m \in 0..n PROVE SubSeq(b, 1, m) = SubSeq(q, 1, m)
    OBVIOUS
  <2>1. SubSeq(b, 1, m) = [i \in 1..m |-> b[i]] /\ SubSeq(q, 1, m) = [i \in 1..m |-> q[i]]
    <3> HIDE DEF b
    <3> QED BY <1>1, <1>2
  <2> QED BY <1>2, <2>1
<1>6. n < Len(q) => b \in Levels
  BY <1>1, <1>2, <1>4, EngineAssumption DEF Levels
<1> QED BY <1>2, <1>4, <1>5, <1>6

(***************************************************************************)
(* ... the empty one, those of its caller, and itself.                     *)
(***************************************************************************)
LEMMA AboveFacts ==
    ASSUME NEW q \in Branches
    PROVE  /\ Above(q, q) /\ Above(<<>>, q) /\ q # <<>>
           /\ Parent(q) \in Levels /\ Len(q) = Len(Parent(q)) + 1
           /\ \A p \in Nodes : Above(p, q) <=> p = q \/ Above(p, Parent(q))
           /\ \A p \in Nodes : Above(p, q) /\ p # q =>
                  /\ p \in Levels
                  /\ \E c \in Branches : Len(c) = Len(p) + 1 /\ Parent(c) = p /\ Above(c, q)
<1> DEFINE n == Len(q)
<1>1. q \in Seq(1..Breadth) /\ n \in 1..Depth /\ n \in Nat
  BY BranchIsPath, EngineAssumption
<1>2. SubSeq(q, 1, n) = q /\ SubSeq(q, 1, 0) = <<>>
  BY <1>1, SubSeqFull
<1>3. Above(q, q) /\ Above(<<>>, q) /\ q # <<>>
  BY <1>1, <1>2 DEF Above
<1>4. /\ Parent(q) \in Nodes /\ Parent(q) \in Levels /\ Len(Parent(q)) = n - 1
      /\ \A m \in 0..(n - 1) : SubSeq(Parent(q), 1, m) = SubSeq(q, 1, m)
  <2>1. CASE n = 1
    <3>1. Parent(q) = <<>>
      BY <1>2, <2>1 DEF Parent
    <3>2. SubSeq(<<>>, 1, 0) = <<>>
      OBVIOUS
    <3> QED BY <1>2, <2>1, <3>1, <3>2 DEF Nodes, Levels
  <2>2. CASE n # 1
    <3>1. n - 1 \in 1..n /\ n - 1 < n
      <4> HIDE DEF n
      <4>1. n \in 1..Depth /\ Depth \in Nat
        BY <1>1, EngineAssumption
      <4> QED BY <2>2, <4>1
    <3> QED BY <1>1, <3>1, Beginning DEF Parent, Nodes
  <2> QED BY <2>1, <2>2
<1>5. \A p \in Nodes : Len(p) \in 0..Depth
  BY BranchIsPath, EngineAssumption DEF Nodes
<1>6. ASSUME NEW p \in Nodes
      PROVE  Above(p, q) <=> p = q \/ Above(p, Parent(q))
  <2>1. Len(p) \in Nat
    BY <1>5
  <2>2. CASE Len(p) < n
    <3>1. Len(p) \in 0..(n - 1) /\ Len(p) <= n /\ p # q
      BY <1>1, <2>1, <2>2
    <3> QED BY <1>4, <3>1 DEF Above
  <2>3. CASE Len(p) >= n
    BY <1>1, <1>2, <1>4, <2>1, <2>3 DEF Above
  <2> QED BY <1>1, <2>1, <2>2, <2>3
<1>7. ASSUME NEW p \in Nodes, Above(p, q), p # q
      PROVE  /\ p \in Levels
             /\ \E c \in Branches : Len(c) = Len(p) + 1 /\ Parent(c) = p /\ Above(c, q)
  <2> DEFINE c == SubSeq(q, 1, Len(p) + 1)
  <2>1. Len(p) \in 0..(n - 1) /\ Len(p) + 1 \in 1..n /\ p = SubSeq(q, 1, Len(p))
    BY <1>1, <1>2, <1>5, <1>7 DEF Above
  <2>2. c \in Branches /\ Len(c) = Len(p) + 1 /\ SubSeq(c, 1, Len(p)) = p
    BY <2>1, Beginning
  <2>3. Above(c, q)
    BY <2>1, <2>2 DEF Above
  <2>4. p \in Levels
    BY <1>1, <2>1, Beginning, EngineAssumption DEF Levels, Nodes
  <2>5. Parent(c) = p
    BY <2>1, <2>2 DEF Parent
  <2> QED BY <2>2, <2>3, <2>4, <2>5
<1> QED BY <1>1, <1>3, <1>4, <1>6, <1>7

(***************************************************************************)
(* Nothing but the run itself is above the run.                            *)
(***************************************************************************)
LEMMA AboveRoot ==
    ASSUME NEW p \in Nodes, Above(p, <<>>)
    PROVE  p = <<>>
<1>1. Len(p) \in Nat
  BY BranchIsPath, EngineAssumption DEF Nodes
<1> QED BY <1>1 DEF Above

(***************************************************************************)
(* What is above a node that is above a branch is above that branch.       *)
(***************************************************************************)
LEMMA AboveAbove ==
    ASSUME NEW p \in Nodes, NEW r \in Branches, NEW q \in Branches, Above(p, r), Above(r, q)
    PROVE  Above(p, q)
<1>1. /\ q \in Seq(1..Breadth) /\ Len(q) \in 1..Depth /\ Len(r) \in 1..Depth
      /\ p = <<>> \/ Len(p) \in 1..Depth
  BY BranchIsPath DEF Nodes
<1>2. Len(r) \in 1..Len(q) /\ Len(p) \in 0..Len(r)
  BY <1>1, EngineAssumption DEF Above
<1>3. SubSeq(SubSeq(q, 1, Len(r)), 1, Len(p)) = SubSeq(q, 1, Len(p))
  BY <1>2, Beginning
<1> QED BY <1>2, <1>3 DEF Above

(***************************************************************************)
(* A level that may ask for a query has a place for its branch.            *)
(***************************************************************************)
LEMMA FirstChild ==
    ASSUME NEW p \in Levels, 1 <= Width[Len(p)]
    PROVE  \E c \in Branches : Len(c) = Len(p) + 1 /\ Parent(c) = p /\ c[Len(c)] = 1
<1> DEFINE c == Append(p, 1)
<1>1. /\ p \in Seq(1..Breadth) /\ Len(p) \in 0..(Depth - 1)
      /\ \A i \in 1..Len(p) : p[i] <= Width[i - 1]
  <2>1. CASE p = <<>>
    BY <2>1, EngineAssumption
  <2>2. CASE p # <<>>
    BY <2>2, BranchIsPath, EngineAssumption DEF Levels
  <2> QED BY <2>1, <2>2
<1>2. /\ c \in Seq(1..Breadth) /\ Len(c) = Len(p) + 1
      /\ c[Len(p) + 1] = 1 /\ \A i \in 1..Len(p) : c[i] = p[i]
  BY <1>1, EngineAssumption
<1>3. Len(c) \in 1..Depth /\ \A i \in 1..Len(c) : c[i] <= Width[i - 1]
  BY <1>1, <1>2, EngineAssumption
<1>4. c \in Branches
  <2> HIDE DEF c
  <2> QED BY <1>2, <1>3, BranchIsPath
<1>5. Parent(c) = p
  <2>1. Parent(c) = SubSeq(c, 1, Len(p))
    BY <1>1, <1>2 DEF Parent
  <2>2. SubSeq(c, 1, Len(p)) = [i \in 1..Len(p) |-> c[i]]
    BY <1>1, <1>2, SubSeqProperties
  <2>3. p = [i \in 1..Len(p) |-> p[i]]
    BY <1>1, LenProperties
  <2> QED BY <1>2, <2>1, <2>2, <2>3
<1> QED BY <1>2, <1>4, <1>5

-----------------------------------------------------------------------------
(* Types, permits and claims.                                              *)

Holders == {p \in Branches : pc[p] \in Inside}

\* TypeOK, with the finiteness that makes the count of the holders mean something.
Types ==
    /\ run \in {"starting", "exploring", "cancelling", "writing"} \cup RunOver
    /\ level \in [Levels -> {"none", "asking", "gathering", "over"}]
    /\ pc \in [Branches -> {"none"} \cup Alive \cup Ended]
    /\ doomed \subseteq Branches
    /\ offered \in [Branches -> SUBSET Urls]
    /\ visited \subseteq Urls
    /\ usage \in Nat
    /\ stopped \in BOOLEAN
    /\ carried \in [Branches -> SUBSET Branches]
    /\ result \subseteq Branches
    /\ found \subseteq Branches
    /\ barren \in BOOLEAN
    /\ fetches \in [Urls -> Nat]

Permits == IsFiniteSet(Holders) /\ Cardinality(Holders) <= Concurrency

\* A page has been crawled exactly when some branch has claimed it: the claim
\* and the decision to crawl are one step, whatever the branch saw before.
Claimed == \A u \in Urls : fetches[u] = IF u \in visited THEN 1 ELSE 0

IInv == Types /\ Permits /\ Claimed

(***************************************************************************)
(* A semaphore that loses holders stays within its permits.                *)
(***************************************************************************)
LEMMA FewerHolders ==
    ASSUME Permits, Holders' \subseteq Holders
    PROVE  Permits'
<1>1. /\ IsFiniteSet(Holders')
      /\ Cardinality(Holders') <= Cardinality(Holders)
  BY FS_Subset DEF Permits
<1>2. Cardinality(Holders) \in Nat /\ Cardinality(Holders') \in Nat
  BY <1>1, FS_CardinalityType DEF Permits
<1> QED
  BY <1>1, <1>2, EngineAssumption DEF Permits

(***************************************************************************)
(* ... and so does one with a free permit that takes one holder more.      *)
(***************************************************************************)
LEMMA OneMoreHolder ==
    ASSUME Permits, Free, NEW p, Holders' \subseteq Holders \cup {p}
    PROVE  Permits'
<1> DEFINE Most == Holders \cup {p}
<1>1. IsFiniteSet(Most) /\ Cardinality(Most) <= Cardinality(Holders) + 1
  <2>1. IsFiniteSet(Holders) /\ Cardinality(Holders) \in Nat
    BY FS_CardinalityType DEF Permits
  <2>2. /\ IsFiniteSet(Most)
        /\ Cardinality(Most) = IF p \in Holders THEN Cardinality(Holders)
                                               ELSE Cardinality(Holders) + 1
    BY <2>1, FS_AddElement
  <2> QED
    BY <2>1, <2>2
<1>2. Cardinality(Holders) < Concurrency
  BY DEF Free, Holders
<1>3. /\ IsFiniteSet(Holders')
      /\ Cardinality(Holders') <= Cardinality(Most)
  BY <1>1, FS_Subset
<1>4. /\ Cardinality(Holders) \in Nat
      /\ Cardinality(Holders') \in Nat
      /\ Cardinality(Most) \in Nat
  BY <1>1, <1>3, FS_CardinalityType DEF Permits
<1> HIDE DEF Most
<1> QED
  BY <1>1, <1>2, <1>3, <1>4, EngineAssumption DEF Permits

(***************************************************************************)
(* The first state of a run satisfies the invariant: nobody has a permit,  *)
(* nothing is claimed.                                                     *)
(***************************************************************************)
LEMMA InitHolds == Init => IInv
<1> SUFFICES ASSUME Init PROVE IInv
  OBVIOUS
<1>1. Types
  <2>1. usage \in Nat /\ fetches \in [Urls -> Nat]
    BY DEF Init
  <2>4. stopped \in BOOLEAN /\ barren \in BOOLEAN
    BY Zenon DEF Init
  <2>2. /\ level \in [Levels -> {"none", "asking", "gathering", "over"}]
        /\ pc \in [Branches -> {"none"} \cup Alive \cup Ended]
    BY DEF Init
  <2>3. /\ offered \in [Branches -> SUBSET Urls]
        /\ carried \in [Branches -> SUBSET Branches]
    BY DEF Init
  <2> QED
    BY <2>1, <2>2, <2>3, <2>4 DEF Init, Types
<1>2. Holders = {}
  BY DEF Init, Holders, Inside
<1>3. Permits
  <2>1. IsFiniteSet(Holders) /\ Cardinality(Holders) = 0
    BY <1>2, FS_EmptySet
  <2> QED
    BY <2>1, EngineAssumption DEF Permits
<1>4. Claimed
  BY DEF Init, Claimed
<1> QED
  BY <1>1, <1>3, <1>4 DEF IInv

(***************************************************************************)
(* What a level does to its caller keeps the types, and takes no permit.   *)
(***************************************************************************)
LEMMA ReturnTypes ==
    ASSUME Types, NEW p \in Levels, NEW findings \in SUBSET Branches, Return(p, findings)
    PROVE  /\ run' \in {"starting", "exploring", "cancelling", "writing"} \cup RunOver
           /\ pc' \in [Branches -> {"none"} \cup Alive \cup Ended]
           /\ carried' \in [Branches -> SUBSET Branches]
           /\ result' \subseteq Branches
           /\ Holders' \subseteq Holders
<1>1. CASE p = <<>>
  BY <1>1 DEF Types, Return, Holders
<1>2. CASE p # <<>>
  BY <1>2 DEF Types, Return, Holders, Inside, Alive, Ended
<1> QED
  BY <1>1, <1>2

(***************************************************************************)
(* ... and so does a level that raises.                                    *)
(***************************************************************************)
LEMMA FailTypes ==
    ASSUME Types, NEW p \in Levels, Fail(p)
    PROVE  /\ run' \in {"starting", "exploring", "cancelling", "writing"} \cup RunOver
           /\ pc' \in [Branches -> {"none"} \cup Alive \cup Ended]
           /\ carried' = carried /\ result' = result
           /\ Holders' \subseteq Holders
<1>1. CASE p = <<>>
  BY <1>1 DEF Types, Fail, Holders, RunOver
<1>2. CASE p # <<>>
  BY <1>2 DEF Types, Fail, Holders, Inside, Alive, Ended, RunOver
<1> QED
  BY <1>1, <1>2

(***************************************************************************)
(* What the steps of a level keep: it only moves itself, its branches into *)
(* the queue, or its caller.                                               *)
(***************************************************************************)
LEMMA LevelTypes ==
    ASSUME Types, NEW p \in Levels, LevelStep(p)
    PROVE  Types' /\ Holders' \subseteq Holders
<1>1. CASE Asked(p)
  <2>1. CASE Return(p, {}) /\ level' = [level EXCEPT ![p] = "over"] /\ barren' = TRUE
    <3>1. /\ run' \in {"starting", "exploring", "cancelling", "writing"} \cup RunOver
          /\ pc' \in [Branches -> {"none"} \cup Alive \cup Ended]
          /\ carried' \in [Branches -> SUBSET Branches]
          /\ result' \subseteq Branches
          /\ Holders' \subseteq Holders
      BY <2>1, ReturnTypes, {} \in SUBSET Branches
    <3> QED
      BY <1>1, <2>1, <3>1 DEF Asked, Types
  <2>2. CASE /\ level' = [level EXCEPT ![p] = "gathering"]
             /\ \E k \in 1..Width[Len(p)] :
                  pc' = [q \in Branches |->
                           IF Len(q) = Len(p) + 1 /\ Parent(q) = p /\ q[Len(q)] <= k
                           THEN "queued" ELSE pc[q]]
             /\ UNCHANGED <<run, carried, result, barren>>
    BY <1>1, <2>2 DEF Asked, Types, Holders, Inside, Alive
  <2> QED
    BY <1>1, <2>1, <2>2 DEF Asked
<1>2. CASE AskFails(p)
  BY <1>2, FailTypes DEF AskFails, Types
<1>3. CASE Gathered(p)
  <2> DEFINE findings == UNION {carried[q] : q \in Children(p)}
  <2>1. findings \in SUBSET Branches
    BY DEF Types, Children
  <2>2. Return(p, findings)
    BY <1>3 DEF Gathered
  <2> HIDE DEF findings
  <2> QED
    BY <1>3, <2>1, <2>2, ReturnTypes DEF Gathered, Types
<1>4. CASE Broken(p)
  BY <1>4, FailTypes DEF Broken, Types
<1> QED
  BY <1>1, <1>2, <1>3, <1>4 DEF LevelStep

(***************************************************************************)
(* What the steps of a branch keep: only Acquire takes a permit, and it    *)
(* needs a free one.                                                       *)
(***************************************************************************)
LEMMA BranchTypes ==
    ASSUME IInv, NEW p \in Branches, BranchStep(p)
    PROVE  Types' /\ Permits'
<1> USE DEF IInv
<1>1. CASE Acquire(p)
  <2>1. Types'
    <3>1. Inherited(Parent(p)) \in SUBSET Branches
      BY AboveFacts DEF Types, Inherited, Levels
    <3> QED
      BY <1>1, <3>1 DEF Acquire, Types, Inside, Alive, Ended
  <2>2. Holders' \subseteq Holders \cup {p}
    BY <1>1 DEF Acquire, Types, Holders, At
  <2> QED
    BY <1>1, <2>1, <2>2, OneMoreHolder DEF Acquire
<1>2. CASE Searched(p)
  <2>1. Types'
    BY <1>2 DEF Searched, Types, Inside, Alive
  <2>2. Holders' \subseteq Holders
    BY <1>2 DEF Searched, Types, Holders, At, Inside
  <2> QED
    BY <2>1, <2>2, FewerHolders
<1>3. CASE Ranked(p)
  <2>1. Types'
    <3> PICK pick \in SUBSET offered[p] :
          LET fresh == pick \ visited
          IN  /\ pick # {} /\ Cardinality(pick) <= TopK
              /\ visited' = visited \cup fresh
              /\ fetches' = [u \in Urls |-> IF u \in fresh THEN fetches[u] + 1 ELSE fetches[u]]
              /\ pc' = [pc EXCEPT ![p] = IF fresh = {} THEN "reporting" ELSE "reading"]
      BY <1>3 DEF Ranked
    <3>1. pick \subseteq Urls
      BY DEF Types
    <3>2. fetches' \in [Urls -> Nat]
      BY DEF Types
    <3>3. pc' \in [Branches -> {"none"} \cup Alive \cup Ended]
      BY DEF Types, Inside, Alive
    <3>4. visited' \subseteq Urls
      BY <3>1 DEF Types
    <3>5. usage' \in Nat /\ offered' \in [Branches -> SUBSET Urls]
      BY <1>3 DEF Ranked, Types
    <3> QED
      BY <1>3, <3>2, <3>3, <3>4, <3>5 DEF Ranked, Types
  <2>2. Holders' \subseteq Holders
    BY <1>3 DEF Ranked, Types, Holders, At, Inside
  <2> QED
    BY <2>1, <2>2, FewerHolders
<1>4. CASE Barren(p)
  <2>1. Types'
    BY <1>4 DEF Barren, Types, Inside, Alive
  <2>2. Holders' \subseteq Holders
    BY <1>4 DEF Barren, Types, Holders, At, Inside
  <2> QED
    BY <2>1, <2>2, FewerHolders
<1>5. CASE Read(p)
  <2>1. Types'
    BY <1>5 DEF Read, Types, Inside, Alive
  <2>2. Holders' \subseteq Holders
    BY <1>5 DEF Read, Types, Holders, At, Inside
  <2> QED
    BY <2>1, <2>2, FewerHolders
<1>6. CASE Reported(p)
  <2>1. Types'
    BY <1>6 DEF Reported, Types, OverBudget, Alive, Ended
  <2>2. Holders' \subseteq Holders
    BY <1>6 DEF Reported, Types, Holders, At, Inside
  <2> QED
    BY <2>1, <2>2, FewerHolders
<1>7. CASE Raise(p)
  <2>1. Types'
    BY <1>7 DEF Raise, Types, Ended
  <2>2. Holders' \subseteq Holders
    BY <1>7 DEF Raise, Types, Holders, Inside
  <2> QED
    BY <2>1, <2>2, FewerHolders
<1>8. CASE Unwind(p)
  <2>1. Types'
    BY <1>8 DEF Unwind, Types, Ended
  <2>2. Holders' \subseteq Holders
    BY <1>8 DEF Unwind, Types, Holders, Inside
  <2> QED
    BY <2>1, <2>2, FewerHolders
<1> QED
  BY <1>1, <1>2, <1>3, <1>4, <1>5, <1>6, <1>7, <1>8 DEF BranchStep

(***************************************************************************)
(* Every step keeps the types and the permits.                             *)
(***************************************************************************)
LEMMA StepTypes ==
    ASSUME IInv, [Next]_vars
    PROVE  Types' /\ Permits'
<1> USE DEF IInv
<1>1. CASE Start
  <2>1. Types'
    BY <1>1 DEF Start, Types
  <2>2. Holders' \subseteq Holders
    BY <1>1 DEF Start, Holders
  <2> QED
    BY <2>1, <2>2, FewerHolders
<1>2. CASE WriteReport
  <2>1. Types'
    BY <1>2 DEF WriteReport, Types, RunOver
  <2>2. Holders' \subseteq Holders
    BY <1>2 DEF WriteReport, Holders
  <2> QED
    BY <2>1, <2>2, FewerHolders
<1>3. CASE Cancel
  <2>1. Types'
    <3>1. Reached \subseteq Branches
      BY DEF Reached
    <3> QED
      BY <1>3, <3>1 DEF Cancel, Types, RunOver
  <2>2. Holders' \subseteq Holders
    BY <1>3 DEF Cancel, Holders
  <2> QED
    BY <2>1, <2>2, FewerHolders
<1>4. CASE RunUnwinds
  <2>1. Types'
    BY <1>4 DEF RunUnwinds, Types, RunOver
  <2>2. Holders' \subseteq Holders
    BY <1>4 DEF RunUnwinds, Holders
  <2> QED
    BY <2>1, <2>2, FewerHolders
<1>5. CASE \E p \in Levels : LevelStep(p)
  BY <1>5, LevelTypes, FewerHolders
<1>6. CASE \E p \in Branches : BranchStep(p)
  BY <1>6, BranchTypes
<1>7. CASE UNCHANGED vars
  <2>1. Types' /\ Holders' \subseteq Holders
    BY <1>7 DEF vars, Types, Holders
  <2> QED
    BY <2>1, FewerHolders
<1> QED
  BY <1>1, <1>2, <1>3, <1>4, <1>5, <1>6, <1>7 DEF Next, Work

(***************************************************************************)
(* Every step keeps claims and crawls in agreement: Ranked crawls what it  *)
(* claims and claims nothing twice, no other step does either.             *)
(***************************************************************************)
LEMMA StepClaimed ==
    ASSUME IInv, [Next]_vars
    PROVE  Claimed'
<1> USE DEF IInv
<1>1. CASE \E p \in Branches : Ranked(p)
  <2> PICK p \in Branches : Ranked(p)
    BY <1>1
  <2> PICK pick \in SUBSET offered[p] :
        LET fresh == pick \ visited
        IN  /\ visited' = visited \cup fresh
            /\ fetches' = [u \in Urls |-> IF u \in fresh THEN fetches[u] + 1 ELSE fetches[u]]
    BY DEF Ranked
  <2> SUFFICES ASSUME NEW u \in Urls
               PROVE  fetches'[u] = IF u \in visited' THEN 1 ELSE 0
    BY DEF Claimed
  <2> QED
    BY DEF Claimed, Types
<1>2. CASE ~\E p \in Branches : Ranked(p)
  <2>1. visited' = visited /\ fetches' = fetches
    BY <1>2 DEF Next, Work, vars, Start, WriteReport, Cancel, RunUnwinds, LevelStep, Asked, AskFails,
                Gathered, Broken, BranchStep, Acquire, Searched, Barren, Read, Reported, Raise,
                Unwind
  <2> QED
    BY <2>1 DEF Claimed
<1> QED
  BY <1>1, <1>2

(***************************************************************************)
(* The invariant holds throughout every run.                               *)
(***************************************************************************)
THEOREM EngineInvariant == Spec => []IInv
<1>1. IInv /\ [Next]_vars => IInv'
  BY StepTypes, StepClaimed DEF IInv
<1> QED
  BY InitHolds, <1>1, PTL DEF Spec

\* What the report is written from.
Fitted ==
    /\ report \subseteq Learnings(Branches)
    /\ run = "returned" => report = _fit_learnings(Learnings(result))

(***************************************************************************)
(* Only WriteReport writes the report, and what the run came back with is  *)
(* settled by then.                                                        *)
(***************************************************************************)
LEMMA StepFits ==
    ASSUME Types, Fitted, [Next]_vars
    PROVE  Fitted'
<1>1. CASE WriteReport
  <2>1. result' = result /\ result \subseteq Branches
    BY <1>1 DEF WriteReport, Types
  <2>2. _fit_learnings(Learnings(result)) \subseteq Learnings(Branches)
    BY <2>1 DEF _fit_learnings, Learnings
  <2>3. report' = _fit_learnings(Learnings(result)) \/ (report' = report /\ run' = "failed")
    BY <1>1 DEF WriteReport
  <2> QED BY <2>1, <2>2, <2>3 DEF Fitted
<1>2. CASE ~WriteReport
  <2>1. report' = report
    BY <1>2 DEF Next, Work, vars, Start, Cancel, RunUnwinds, LevelStep, Asked, AskFails,
                Gathered, Broken, BranchStep, Acquire, Searched, Ranked, Barren, Read, Reported,
                Raise, Unwind
  <2>2. run' = "returned" => run = "returned" /\ result' = result
    <3>1. CASE \E p \in Levels : LevelStep(p)
      BY <3>1 DEF LevelStep, Asked, AskFails, Gathered, Broken, Return, Fail
    <3>2. CASE \E p \in Branches : BranchStep(p)
      BY <3>2 DEF BranchStep, Acquire, Searched, Ranked, Barren, Read, Reported, Raise, Unwind
    <3>3. CASE Start \/ RunUnwinds \/ Cancel \/ UNCHANGED vars
      BY <3>3 DEF Start, RunUnwinds, Cancel, vars
    <3> QED BY <1>2, <3>1, <3>2, <3>3 DEF Next, Work
  <2> QED BY <2>1, <2>2 DEF Fitted
<1> QED
  BY <1>1, <1>2

(***************************************************************************)
(* The report fits what the run came back with, throughout every run.      *)
(***************************************************************************)
THEOREM FittedInvariant == Spec => []Fitted
<1>1. Init => Fitted
  BY DEF Init, Fitted
<1>2. IInv /\ Fitted /\ [Next]_vars => Fitted'
  BY StepFits DEF IInv
<1> QED
  BY EngineInvariant, <1>1, <1>2, PTL DEF Spec

(***************************************************************************)
(* Type correctness, with it the promise of the one semaphore of the run:  *)
(* whatever the tree of levels, no more than RESEARCH_CONCURRENCY branches *)
(* search, rank, crawl or read at once.                                    *)
(***************************************************************************)
THEOREM TypesHold == Spec => []TypeOK
<1>1. IInv /\ Fitted => TypeOK
  BY DEF IInv, Types, Permits, Holders, Fitted, TypeOK
<1> QED
  BY EngineInvariant, FittedInvariant, <1>1, PTL

(***************************************************************************)
(* No page is crawled twice in a run, though branches check visited before *)
(* they await the reranker and claim only afterwards.                      *)
(***************************************************************************)
THEOREM PagesCrawledOnce == Spec => []NoPageTwice
<1>1. IInv => NoPageTwice
  BY DEF IInv, Types, Claimed, NoPageTwice
<1> QED
  BY EngineInvariant, <1>1, PTL

-----------------------------------------------------------------------------
(* What the report is written from.                                        *)

\* The branch, or the run, has what its level returned, or ended without one.
Returned(p) == IF p = <<>> THEN run \in {"writing", "returned"} ELSE pc[p] = "done"

\* ... and this is what it has.
Kept(p) == IF p = <<>> THEN result ELSE carried[p]

\* A branch was started by a level that gathers, or did, of a branch that was.
Rooted ==
    \A q \in Branches : pc[q] # "none" =>
        /\ \A p \in Branches : Above(p, q) => pc[p] # "none"
        /\ \A p \in Levels : Above(p, q) /\ p # q => level[p] \in {"gathering", "over"}

\* A level is opened once, and while it is at work its caller waits for it; it
\* gathers at least one branch.
Called ==
    /\ run = "starting" => level[<<>>] = "none"
    /\ level[<<>>] \in {"asking", "gathering"} => run \in {"exploring", "cancelling"}
    /\ \A p \in Levels \ {<<>>} :
         /\ pc[p] \in {"none", "queued"} \cup Inside => level[p] = "none"
         /\ level[p] \in {"asking", "gathering"} => pc[p] = "recursing"
    /\ \A p \in Levels : level[p] = "gathering" => Children(p) # {}

\* Who found something has read.
HaveRead == \A p \in found : pc[p] \in {"reporting", "recursing"} \cup Ended

\* Nothing is carried, or reported, that nobody found.
NothingInvented == result \subseteq found /\ \A p \in Branches : carried[p] \subseteq found

\* A branch keeps what it found itself, whatever its own level returned,
OwnKept == ~barren => \A p \in found : p \in carried[p]

\* ... and what its caller had found before it.
HandedDown ==
    ~barren => \A q \in Branches :
        level[Parent(q)] = "gathering" /\ pc[q] \in Inside \cup {"recursing", "done"}
            => Inherited(Parent(q)) \subseteq carried[q]

\* Below a branch that returned nothing is at work any more, and it has
\* everything that was found there; the same goes for the run.
Closed ==
    \A p \in Nodes : Returned(p) => \A q \in Branches : Above(p, q) =>
        /\ pc[q] \in {"none", "done"}
        /\ ~barren /\ q \in found => q \in Kept(p)

Reports == /\ Rooted /\ Called /\ HaveRead /\ NothingInvented
           /\ OwnKept /\ HandedDown /\ Closed

(***************************************************************************)
(* Before a run starts, nothing is found and no branch is there.           *)
(***************************************************************************)
LEMMA InitReports == Init => Reports
<1> SUFFICES ASSUME Init PROVE Reports
  OBVIOUS
<1>1. \A p \in Branches : pc[p] = "none" /\ carried[p] = {}
  BY DEF Init
<1>2. \A p \in Levels : level[p] = "none"
  BY DEF Init
<1>3. <<>> \in Levels /\ \A p \in Levels \ {<<>>} : p \in Branches
  BY DEF Levels
<1>4. \A q \in Branches : Parent(q) \in Levels
  BY AboveFacts
<1>5. run = "starting" /\ found = {} /\ result = {}
  BY DEF Init
<1> QED
  BY <1>1, <1>2, <1>3, <1>4, <1>5
     DEF Reports, Rooted, Called, HaveRead, NothingInvented, OwnKept, HandedDown, Closed,
         Returned, Inside

\* The facts about paths that the steps need.
Paths ==
    /\ <<>> \in Levels /\ Levels \subseteq Nodes /\ Nodes = {<<>>} \cup Branches
    /\ <<>> \notin Branches
    /\ \A q \in Branches : Parent(q) \in Levels /\ Len(q) = Len(Parent(q)) + 1 /\ Parent(q) # q
    /\ \A q \in Branches, p \in Nodes : Above(p, q) <=> p = q \/ Above(p, Parent(q))
    /\ \A q \in Branches, p \in Nodes : Above(p, q) /\ p # q =>
           /\ p \in Levels
           /\ \E c \in Branches : Len(c) = Len(p) + 1 /\ Parent(c) = p /\ Above(c, q)
    /\ \A q \in Branches : Above(q, q) /\ Above(<<>>, q)
    /\ \A p \in Nodes : Above(p, <<>>) => p = <<>>

(***************************************************************************)
(* They hold: a branch has one caller, and what is above it is above its   *)
(* caller, or it.                                                          *)
(***************************************************************************)
LEMMA PathFacts == Paths
<1>1. \A q \in Branches : Parent(q) # q
  <2> SUFFICES ASSUME NEW q \in Branches, Parent(q) = q PROVE FALSE
    OBVIOUS
  <2>1. Len(q) = Len(q) + 1 /\ Len(q) \in Nat
    BY AboveFacts, BranchIsPath, EngineAssumption
  <2> QED BY <2>1
<1>2. <<>> \in Levels /\ Levels \subseteq Nodes /\ Nodes = {<<>>} \cup Branches
  BY DEF Levels, Nodes
<1> QED BY <1>1, <1>2, AboveFacts, AboveRoot DEF Paths

(***************************************************************************)
(* A branch that goes on, whatever it reads, or returns without a level of *)
(* its own: nothing was started below it, so it has what was found there   *)
(* as long as it keeps what it was handed and what it found itself.        *)
(***************************************************************************)
LEMMA MoveReports ==
    ASSUME Types, Reports, NEW p \in Branches, pc[p] \in {"queued"} \cup Inside,
           NEW at \in Inside \cup {"done"}, pc' = [pc EXCEPT ![p] = at],
           UNCHANGED <<run, level, result, barren>>,
           found \subseteq found', found' \subseteq found \cup {p},
           NEW findings \in SUBSET found', carried' = [carried EXCEPT ![p] = findings],
           p \in found' => at \in {"reporting", "done"} /\ (~barren => p \in findings),
           ~barren /\ level[Parent(p)] = "gathering" => Inherited(Parent(p)) \subseteq findings
    PROVE  Reports'
<1> USE DEF Reports
<1>1. /\ \A q \in Branches : pc'[q] = IF q = p THEN at ELSE pc[q]
      /\ \A q \in Branches : carried'[q] = IF q = p THEN findings ELSE carried[q]
  BY DEF Types
<1>2. p \in Nodes /\ p # <<>> /\ Parent(p) # p /\ (p \in Levels => level[p] = "none")
  BY PathFacts DEF Called, Paths
<1>3. at # "none" /\ pc[p] # "none" /\ pc[p] # "done"
  BY DEF Inside
<1>4. Rooted'
  BY <1>1, <1>3 DEF Rooted
<1>5. Called'
  <2>1. \A r \in Levels : Children(r)' = Children(r)
    BY <1>1, <1>3 DEF Children
  <2>2. \A r \in Levels \ {<<>>} : r \in Branches
    BY PathFacts DEF Paths
  <2> QED BY <1>1, <1>2, <2>1, <2>2 DEF Called
<1>6. HaveRead'
  BY <1>1 DEF HaveRead, Types, Ended
<1>7. NothingInvented' /\ OwnKept'
  BY <1>1 DEF NothingInvented, OwnKept, Types
<1>8. HandedDown'
  <2> SUFFICES ASSUME ~barren, NEW q \in Branches, level[Parent(q)] = "gathering",
                      pc'[q] \in Inside \cup {"recursing", "done"}
               PROVE  Inherited(Parent(q))' \subseteq carried'[q]
    BY DEF HandedDown
  <2>1. Parent(q) \in Levels /\ Parent(q) # p /\ (Parent(q) # <<>> => Parent(q) \in Branches)
    BY <1>2, PathFacts DEF Paths
  <2>2. Inherited(Parent(q))' = Inherited(Parent(q))
    BY <1>1, <2>1 DEF Inherited
  <2> QED BY <1>1, <2>2 DEF HandedDown
<1>9. Closed'
  <2> SUFFICES ASSUME NEW r \in Nodes, Returned(r)', NEW q \in Branches, Above(r, q)
               PROVE  /\ pc'[q] \in {"none", "done"}
                      /\ ~barren /\ q \in found' => q \in Kept(r)'
    BY DEF Closed
  <2>1. CASE r = p /\ q = p
    BY <1>1, <1>2, <2>1 DEF Returned, Kept
  <2>2. CASE r = p /\ q # p
    <3>1. pc[q] = "none"
      BY <1>2, <2>2, PathFacts DEF Rooted, Paths
    <3> QED BY <1>1, <2>2, <3>1 DEF HaveRead, Ended
  <2>3. CASE r # p
    <3>1. Returned(r) /\ Kept(r)' = Kept(r)
      BY <1>1, <2>3, PathFacts DEF Returned, Kept, Paths
    <3>2. q # p
      BY <1>3, <3>1 DEF Closed
    <3> QED BY <1>1, <3>1, <3>2 DEF Closed
  <2> QED BY <2>1, <2>2, <2>3
<1> QED BY <1>4, <1>5, <1>6, <1>7, <1>8, <1>9

(***************************************************************************)
(* A branch that fails or is cancelled, its level over, returns nothing.   *)
(***************************************************************************)
LEMMA StopReports ==
    ASSUME Types, Reports, NEW p \in Branches, pc[p] \in Alive,
           NEW end \in {"failed", "cancelled"}, pc' = [pc EXCEPT ![p] = end],
           \/ level' = [level EXCEPT ![p] = "over"] /\ pc[p] = "recursing"
           \/ level' = level /\ pc[p] # "recursing",
           UNCHANGED <<run, carried, result, found, barren>>
    PROVE  Reports'
<1> USE DEF Reports
<1>1. \A q \in Branches : pc'[q] = IF q = p THEN end ELSE pc[q]
  BY DEF Types
<1>2. \A r \in Levels : level'[r] = IF r = p /\ pc[p] = "recursing" THEN "over" ELSE level[r]
  BY DEF Types
<1>3. Rooted'
  BY <1>1, <1>2 DEF Rooted, Alive, Inside
<1>4. Called'
  <2>1. \A r \in Levels : Children(r)' = Children(r)
    BY <1>1 DEF Children, Alive, Inside
  <2>2. p # <<>>
    BY PathFacts DEF Paths
  <2>3. level'[<<>>] = level[<<>>]
    BY <1>2, <2>2, PathFacts DEF Paths
  <2>4. \A r \in Levels \ {<<>>} : r \in Branches
    BY PathFacts DEF Paths
  <2> QED BY <1>1, <1>2, <2>1, <2>3, <2>4 DEF Called, Inside, Alive
<1>5. HaveRead' /\ NothingInvented' /\ OwnKept'
  BY <1>1 DEF HaveRead, NothingInvented, OwnKept, Ended, Types
<1>6. HandedDown'
  <2>1. \A q \in Branches : Inherited(Parent(q))' = Inherited(Parent(q))
    BY DEF Inherited
  <2>2. \A q \in Branches : Parent(q) \in Levels
    BY PathFacts DEF Paths
  <2> QED BY <1>1, <1>2, <2>1, <2>2 DEF HandedDown, Inside
<1>7. Closed'
  <2>1. \A r \in Nodes : Returned(r)' => Returned(r)
    BY <1>1, PathFacts DEF Returned, Paths
  <2>2. \A r \in Nodes : Returned(r) => ~Above(r, p)
    BY DEF Closed, Alive, Inside
  <2> QED BY <1>1, <2>1, <2>2 DEF Closed, Kept
<1> QED BY <1>3, <1>4, <1>5, <1>6, <1>7

(***************************************************************************)
(* The run writes its report, fails or is cancelled.                       *)
(***************************************************************************)
LEMMA RunReports ==
    ASSUME Types, Reports, UNCHANGED <<pc, carried, result, found, barren>>,
           run' # "starting", run' \in {"writing", "returned"} => Returned(<<>>),
           level' = level \/ level' = [level EXCEPT ![<<>>] = "over"],
           level'[<<>>] \in {"asking", "gathering"} => run' \in {"exploring", "cancelling"}
    PROVE  Reports'
<1> USE DEF Reports
<1>1. /\ level'[<<>>] = level[<<>>] \/ level'[<<>>] = "over"
      /\ \A r \in Levels \ {<<>>} : level'[r] = level[r]
  BY PathFacts DEF Types, Paths
<1>2. Rooted'
  BY <1>1 DEF Rooted
<1>3. Called'
  <2>1. \A r \in Levels : Children(r)' = Children(r)
    BY DEF Children
  <2> QED BY <1>1, <2>1 DEF Called
<1>4. HaveRead' /\ NothingInvented' /\ OwnKept'
  BY DEF HaveRead, NothingInvented, OwnKept
<1>5. HandedDown'
  <2>1. \A q \in Branches : Inherited(Parent(q))' = Inherited(Parent(q))
    BY DEF Inherited
  <2>2. \A q \in Branches : Parent(q) \in Levels
    BY PathFacts DEF Paths
  <2> QED BY <1>1, <2>1, <2>2 DEF HandedDown
<1>6. Closed'
  <2>1. \A r \in Nodes : Returned(r)' => Returned(r)
    BY DEF Returned
  <2> QED BY <2>1 DEF Closed, Kept
<1> QED BY <1>2, <1>3, <1>4, <1>5, <1>6

(***************************************************************************)
(* The run opens its level, or has no budget for it.                       *)
(***************************************************************************)
LEMMA StartReports ==
    ASSUME Types, Reports, Start
    PROVE  Reports'
<1> USE DEF Reports
<1>1. /\ UNCHANGED <<pc, carried, result, found, barren>>
      /\ run = "starting" /\ level[<<>>] = "none"
  BY DEF Start, Called
<1>2. \A q \in Branches : pc[q] = "none"
  BY <1>1, PathFacts DEF Rooted, Paths
<1>3. \/ level' = level /\ run' = "writing"
      \/ level' = [level EXCEPT ![<<>>] = "asking"] /\ run' = "exploring"
  BY DEF Start
<1>4. /\ \/ level'[<<>>] = level[<<>>] /\ run' = "writing"
         \/ level'[<<>>] = "asking" /\ run' = "exploring"
      /\ \A r \in Levels \ {<<>>} : level'[r] = level[r]
  BY <1>3, PathFacts DEF Types, Paths
<1>5. Called'
  <2>1. \A r \in Levels : Children(r)' = Children(r)
    BY <1>1 DEF Children
  <2> QED BY <1>1, <1>4, <2>1 DEF Called
<1>6. Rooted' /\ HandedDown'
  BY <1>1, <1>2 DEF Rooted, HandedDown, Inside
<1>7. found = {}
  BY <1>2 DEF HaveRead, Types, Inside, Ended
<1>8. HaveRead' /\ NothingInvented' /\ OwnKept'
  BY <1>1 DEF HaveRead, NothingInvented, OwnKept
<1>9. Closed'
  BY <1>1, <1>2, <1>7 DEF Closed
<1> QED BY <1>5, <1>6, <1>8, <1>9

(***************************************************************************)
(* A level puts the branches of its queries in the queue: there were none, *)
(* and nothing it belongs to has returned.                                 *)
(***************************************************************************)
LEMMA QueueReports ==
    ASSUME Types, Reports, NEW p \in Levels, NEW k \in 1..Width[Len(p)],
           level[p] = "asking", Waiting(p), level' = [level EXCEPT ![p] = "gathering"],
           pc' = [q \in Branches |->
                    IF Len(q) = Len(p) + 1 /\ Parent(q) = p /\ q[Len(q)] <= k
                    THEN "queued" ELSE pc[q]],
           UNCHANGED <<run, carried, result, found, barren>>
    PROVE  Reports'
<1> USE DEF Reports
<1>1. /\ p \in Nodes
      /\ p # <<>> => p \in Branches /\ pc[p] = "recursing"
      /\ p = <<>> => run = "exploring"
  BY PathFacts DEF Called, Paths, Waiting
<1>2. \A q \in Branches : Parent(q) = p => pc[q] = "none" /\ q # p
  <2> SUFFICES ASSUME NEW q \in Branches, Parent(q) = p PROVE pc[q] = "none" /\ q # p
    OBVIOUS
  <2>1. Above(p, p)
    <3>1. SubSeq(<<>>, 1, 0) = <<>> /\ Len(<<>>) = 0
      OBVIOUS
    <3> QED BY <1>1, <3>1, PathFacts DEF Paths, Above
  <2>2. Above(p, q) /\ p # q
    BY <1>1, <2>1, PathFacts DEF Paths
  <2> QED BY <2>2 DEF Rooted
<1>3. \A q \in Branches : \/ pc'[q] = pc[q]
                          \/ pc'[q] = "queued" /\ pc[q] = "none" /\ Parent(q) = p
  BY <1>2
<1>4. \A r \in Levels : level'[r] = IF r = p THEN "gathering" ELSE level[r]
  BY DEF Types
<1>5. Rooted'
  <2>1. SUFFICES ASSUME NEW q \in Branches, pc'[q] # "none"
                 PROVE  /\ \A r \in Branches : Above(r, q) => pc'[r] # "none"
                        /\ \A r \in Levels : Above(r, q) /\ r # q =>
                               level'[r] \in {"gathering", "over"}
    BY DEF Rooted
  <2>2. CASE pc[q] # "none"
    BY <1>3, <1>4, <2>2 DEF Rooted
  <2>3. CASE pc[q] = "none"
    <3>1. Parent(q) = p /\ pc'[q] = "queued"
      BY <1>3, <2>1, <2>3
    <3>2. CASE p = <<>>
      BY <1>4, <2>1, <3>1, <3>2, PathFacts DEF Paths
    <3>3. CASE p # <<>>
      <4>1. /\ \A r \in Branches : Above(r, p) => pc[r] # "none"
            /\ \A r \in Levels : Above(r, p) /\ r # p => level[r] \in {"gathering", "over"}
        BY <1>1, <3>3 DEF Rooted
      <4> QED BY <1>3, <1>4, <2>1, <3>1, <4>1, PathFacts DEF Paths
    <3> QED BY <3>2, <3>3
  <2> QED BY <2>2, <2>3
<1>6. Called'
  <2>1. \A r \in Levels : Children(r) # {} => Children(r)' # {}
    BY <1>3 DEF Children
  <2>2. Children(p)' # {}
    <3>1. 1 <= Width[Len(p)] /\ 1 <= k
      <4>1. Len(p) \in Nat
        BY <1>1, BranchIsPath, EngineAssumption DEF Nodes
      <4>2. Width[Len(p)] \in 1..Breadth
        BY <4>1, WidthType
      <4> QED BY <4>2, EngineAssumption
    <3>2. PICK c \in Branches : Len(c) = Len(p) + 1 /\ Parent(c) = p /\ c[Len(c)] = 1
      BY <3>1, FirstChild
    <3>3. pc'[c] = "queued"
      BY <3>1, <3>2
    <3> QED BY <3>2, <3>3 DEF Children
  <2>3. <<>> \in Levels /\ \A r \in Levels \ {<<>>} : r \in Branches
    BY PathFacts DEF Paths
  <2>4. ASSUME NEW r \in Levels \ {<<>>}
        PROVE  /\ pc'[r] \in {"none", "queued"} \cup Inside => level'[r] = "none"
               /\ level'[r] \in {"asking", "gathering"} => pc'[r] = "recursing"
    <3>1. CASE r = p
      BY <1>1, <1>2, <1>3, <2>3, <3>1 DEF Inside
    <3>2. CASE r # p
      BY <1>3, <1>4, <2>3, <3>2 DEF Called
    <3> QED BY <3>1, <3>2
  <2> QED BY <1>1, <1>4, <2>1, <2>2, <2>3, <2>4 DEF Called
<1>7. HaveRead' /\ NothingInvented' /\ OwnKept'
  BY <1>3 DEF HaveRead, NothingInvented, OwnKept, Types, Ended
<1>8. HandedDown'
  <2>1. \A q \in Branches : Inherited(Parent(q))' = Inherited(Parent(q))
    BY DEF Inherited
  <2>2. \A q \in Branches : Parent(q) \in Levels
    BY PathFacts DEF Paths
  <2> QED BY <1>2, <1>3, <1>4, <2>1, <2>2 DEF HandedDown, Inside
<1>9. Closed'
  <2>1. \A r \in Nodes : Returned(r)' => Returned(r) /\ ~Above(r, p)
    <3> SUFFICES ASSUME NEW r \in Nodes, Returned(r)' PROVE Returned(r) /\ ~Above(r, p)
      OBVIOUS
    <3>1. Returned(r)
      BY <1>3, PathFacts DEF Returned, Paths
    <3>2. CASE p = <<>>
      BY <1>1, <3>1, <3>2, PathFacts DEF Returned, Paths
    <3>3. CASE p # <<>>
      BY <1>1, <3>1, <3>3 DEF Closed
    <3> QED BY <3>1, <3>2, <3>3
  <2>2. \A r \in Nodes, q \in Branches : Returned(r)' /\ Above(r, q) => pc'[q] = pc[q]
    <3> SUFFICES ASSUME NEW r \in Nodes, NEW q \in Branches, Returned(r)', Above(r, q),
                        pc'[q] # pc[q]
                 PROVE  FALSE
      OBVIOUS
    <3>1. Parent(q) = p /\ pc[q] = "none" /\ pc'[q] = "queued"
      BY <1>3
    <3>2. r = q
      BY <2>1, <3>1, PathFacts DEF Paths
    <3> QED BY <3>1, <3>2, PathFacts DEF Returned, Paths
  <2> QED BY <2>1, <2>2 DEF Closed, Kept
<1> QED BY <1>5, <1>6, <1>7, <1>8, <1>9

(***************************************************************************)
(* A level that returns what it was handed, and everything that was found  *)
(* below it, loses nothing; one that is barren may lose anything.          *)
(***************************************************************************)
LEMMA ReturnReports ==
    ASSUME Types, Reports, NEW p \in Levels, level[p] \in {"asking", "gathering"}, Waiting(p),
           level' = [level EXCEPT ![p] = "over"], NEW findings \in SUBSET found,
           Return(p, findings), found' = found, barren => barren',
           \A q \in Branches : Above(p, q) /\ q # p =>
               pc[q] \in {"none", "done"} /\ (~barren' /\ q \in found => q \in findings),
           ~barren' => Inherited(p) \subseteq findings
    PROVE  Reports'
<1> USE DEF Reports
<1>1. /\ p \in Nodes
      /\ p # <<>> => p \in Branches /\ pc[p] = "recursing"
      /\ p = <<>> => run = "exploring"
  BY PathFacts DEF Called, Paths, Waiting
<1>2. \A r \in Levels : level'[r] = IF r = p THEN "over" ELSE level[r]
  BY DEF Types
<1>3. /\ \A q \in Branches : pc'[q] = IF q = p THEN "done" ELSE pc[q]
      /\ \A q \in Branches : carried'[q] = IF q = p THEN findings ELSE carried[q]
      /\ p = <<>> => run' = "writing" /\ result' = findings
      /\ p # <<>> => run' = run /\ result' = result
  BY <1>1, PathFacts DEF Types, Return, Paths
<1>4. <<>> \in Levels /\ \A r \in Levels \ {<<>>} : r \in Branches
  BY PathFacts DEF Paths
<1>5. Rooted'
  <2>1. \A q \in Branches : pc'[q] # "none" <=> pc[q] # "none"
    BY <1>1, <1>3, PathFacts DEF Paths
  <2> QED BY <1>2, <2>1 DEF Rooted
<1>6. Called'
  <2>1. \A r \in Levels : Children(r)' = Children(r)
    BY <1>1, <1>3 DEF Children
  <2>2. \A r \in Levels \ {<<>>} :
            /\ pc'[r] \in {"none", "queued"} \cup Inside => level'[r] = "none"
            /\ level'[r] \in {"asking", "gathering"} => pc'[r] = "recursing"
    BY <1>2, <1>3, <1>4 DEF Called, Inside
  <2>3. run' = "starting" => level'[<<>>] = "none"
    BY <1>1, <1>2, <1>3, <1>4 DEF Called
  <2>4. level'[<<>>] \in {"asking", "gathering"} => run' \in {"exploring", "cancelling"}
    BY <1>1, <1>2, <1>3, <1>4 DEF Called
  <2> QED BY <1>2, <2>1, <2>2, <2>3, <2>4 DEF Called
<1>7. HaveRead'
  BY <1>3 DEF HaveRead, Types, Ended
<1>8. NothingInvented'
  BY <1>3 DEF NothingInvented
<1>9. OwnKept'
  <2>1. ~barren' /\ p \in found => p \in findings
    BY <1>1, PathFacts DEF OwnKept, Inherited, Types, Paths
  <2> QED BY <1>3, <2>1 DEF OwnKept, Types
<1>10. HandedDown'
  <2> SUFFICES ASSUME ~barren', NEW q \in Branches, level'[Parent(q)] = "gathering",
                      pc'[q] \in Inside \cup {"recursing", "done"}
               PROVE  Inherited(Parent(q))' \subseteq carried'[q]
    BY DEF HandedDown
  <2>1. Parent(q) \in Levels /\ Parent(q) # p /\ level[Parent(q)] = "gathering"
    BY <1>2, PathFacts DEF Paths
  <2>2. Inherited(Parent(q))' = Inherited(Parent(q))
    BY <1>3, <1>4, <2>1 DEF Inherited
  <2>3. pc[q] \in Inside \cup {"recursing", "done"}
    BY <1>1, <1>3, PathFacts DEF Paths
  <2>4. Inherited(Parent(q)) \subseteq carried[q]
    BY <2>1, <2>3 DEF HandedDown
  <2>5. CASE q = p
    <3>1. carried[p] = Inherited(p)
      BY <2>5, PathFacts DEF Inherited, Paths
    <3> QED BY <1>3, <2>2, <2>4, <2>5, <3>1
  <2>6. CASE q # p
    BY <1>3, <2>2, <2>4, <2>6
  <2> QED BY <2>5, <2>6
<1>11. Closed'
  <2> SUFFICES ASSUME NEW r \in Nodes, Returned(r)', NEW q \in Branches, Above(r, q)
               PROVE  /\ pc'[q] \in {"none", "done"}
                      /\ ~barren' /\ q \in found => q \in Kept(r)'
    BY DEF Closed
  <2>1. CASE r = p
    <3>1. Kept(r)' = findings
      BY <1>1, <1>3, <2>1, PathFacts DEF Kept, Paths
    <3>2. CASE q = p
      BY <1>3, <3>1, <3>2, PathFacts DEF OwnKept, Inherited, Paths
    <3>3. CASE q # p
      BY <1>3, <2>1, <3>1, <3>3
    <3> QED BY <3>2, <3>3
  <2>2. CASE r # p
    <3>1. Returned(r) /\ Kept(r)' = Kept(r)
      BY <1>1, <1>3, <2>2, PathFacts DEF Returned, Kept, Paths
    <3> QED BY <1>3, <3>1 DEF Closed
  <2> QED BY <2>1, <2>2
<1> QED BY <1>5, <1>6, <1>7, <1>8, <1>9, <1>10, <1>11

(***************************************************************************)
(* All the branches of a level returned: together they carry what was      *)
(* found below it, and each of them what the level was handed.             *)
(***************************************************************************)
LEMMA GatheredReports ==
    ASSUME Types, Reports, NEW p \in Levels, Gathered(p)
    PROVE  Reports'
<1> USE DEF Reports
<1> DEFINE findings == UNION {carried[q] : q \in Children(p)}
<1>1. findings \in SUBSET found
  BY DEF NothingInvented, Children
<1>2. /\ level[p] = "gathering" /\ Waiting(p) /\ Return(p, findings)
      /\ level' = [level EXCEPT ![p] = "over"] /\ found' = found /\ barren' = barren
      /\ \A c \in Children(p) : pc[c] = "done" /\ c \in Branches /\ Parent(c) = p
  BY DEF Gathered, Children
<1>3. p \in Nodes
  BY PathFacts DEF Paths
<1>4. ASSUME NEW q \in Branches, Above(p, q), q # p
      PROVE  pc[q] \in {"none", "done"} /\ (~barren /\ q \in found => q \in findings)
  <2> PICK c \in Branches : Len(c) = Len(p) + 1 /\ Parent(c) = p /\ Above(c, q)
    BY <1>3, <1>4, PathFacts DEF Paths
  <2>1. CASE pc[q] = "none"
    BY <2>1 DEF HaveRead, Ended
  <2>2. CASE pc[q] # "none"
    <3>1. pc[c] # "none"
      BY <2>2 DEF Rooted
    <3>2. c \in Children(p) /\ c \in Nodes /\ c # <<>>
      BY <3>1, PathFacts DEF Children, Paths
    <3>3. pc[q] \in {"none", "done"} /\ (~barren /\ q \in found => q \in carried[c])
      BY <1>2, <3>2 DEF Closed, Returned, Kept
    <3> QED BY <3>2, <3>3
  <2> QED BY <2>1, <2>2
<1>5. ASSUME ~barren PROVE Inherited(p) \subseteq findings
  <2> PICK c \in Children(p) : TRUE
    BY <1>2 DEF Called
  <2>1. Inherited(p) \subseteq carried[c]
    BY <1>2, <1>5 DEF HandedDown
  <2> QED BY <2>1
<1> HIDE DEF findings
<1> QED BY <1>1, <1>2, <1>4, <1>5, ReturnReports

(***************************************************************************)
(* The model proposed no query: no branch was started.                     *)
(***************************************************************************)
LEMMA NothingAskedReports ==
    ASSUME Types, Reports, NEW p \in Levels, level[p] = "asking", Waiting(p), Return(p, {}),
           level' = [level EXCEPT ![p] = "over"], found' = found, barren' = TRUE
    PROVE  Reports'
<1>1. p \in Nodes /\ {} \in SUBSET found
  BY PathFacts DEF Paths
<1>2. \A q \in Branches : Above(p, q) /\ q # p => pc[q] \in {"none", "done"}
  BY <1>1, PathFacts DEF Reports, Rooted, Paths
<1> QED BY <1>1, <1>2, ReturnReports

(***************************************************************************)
(* A branch opens a level of its own.                                      *)
(***************************************************************************)
LEMMA RecurseReports ==
    ASSUME Types, Reports, NEW p \in Branches, p \in Levels, pc[p] = "reporting",
           pc' = [pc EXCEPT ![p] = "recursing"], level' = [level EXCEPT ![p] = "asking"],
           UNCHANGED <<run, carried, result, found, barren>>
    PROVE  Reports'
<1> USE DEF Reports
<1>1. p \in Nodes /\ p # <<>> /\ level[p] = "none"
  BY PathFacts DEF Called, Paths, Inside
<1>2. /\ \A q \in Branches : pc'[q] = IF q = p THEN "recursing" ELSE pc[q]
      /\ \A r \in Levels : level'[r] = IF r = p THEN "asking" ELSE level[r]
  BY DEF Types
<1>3. Rooted'
  BY <1>1, <1>2 DEF Rooted
<1>4. Called'
  <2>1. \A r \in Levels : Children(r)' = Children(r)
    BY <1>2 DEF Children
  <2>2. <<>> \in Levels /\ \A r \in Levels \ {<<>>} : r \in Branches
    BY PathFacts DEF Paths
  <2>3. \A r \in Levels \ {<<>>} :
            /\ pc'[r] \in {"none", "queued"} \cup Inside => level'[r] = "none"
            /\ level'[r] \in {"asking", "gathering"} => pc'[r] = "recursing"
    BY <1>2, <2>2 DEF Called, Inside
  <2> QED BY <1>1, <1>2, <2>1, <2>2, <2>3 DEF Called
<1>5. HaveRead' /\ NothingInvented' /\ OwnKept'
  BY <1>2 DEF HaveRead, NothingInvented, OwnKept, Types
<1>6. HandedDown'
  <2>1. \A q \in Branches : Inherited(Parent(q))' = Inherited(Parent(q))
    BY DEF Inherited
  <2>2. \A q \in Branches : Parent(q) \in Levels
    BY PathFacts DEF Paths
  <2> QED BY <1>2, <2>1, <2>2 DEF HandedDown, Inside
<1>7. Closed'
  <2>1. \A r \in Nodes : Returned(r)' => Returned(r)
    BY <1>2, PathFacts DEF Returned, Paths
  <2>2. \A r \in Nodes : Returned(r) => ~Above(r, p)
    BY DEF Closed
  <2> QED BY <1>2, <2>1, <2>2 DEF Closed, Kept
<1> QED BY <1>3, <1>4, <1>5, <1>6, <1>7

(***************************************************************************)
(* The steps of a branch.                                                  *)
(***************************************************************************)
LEMMA BranchReports ==
    ASSUME Types, Reports, NEW p \in Branches, BranchStep(p)
    PROVE  Reports'
<1>1. carried = [carried EXCEPT ![p] = carried[p]] /\ carried[p] \in SUBSET found
  BY DEF Types, Reports, NothingInvented
<1>2. ~barren /\ level[Parent(p)] = "gathering" /\ pc[p] \in Inside
          => Inherited(Parent(p)) \subseteq carried[p]
  BY DEF Reports, HandedDown
<1>3. ASSUME pc[p] \in {"searching", "ranking", "reading"},
             NEW at \in {"ranking", "reading", "reporting"}, pc' = [pc EXCEPT ![p] = at],
             UNCHANGED <<run, level, carried, result, found, barren>>
      PROVE  Reports'
  <2>1. p \notin found
    BY <1>3 DEF Reports, HaveRead, Ended
  <2>2. at \in Inside \cup {"done"} /\ pc[p] \in Inside
    BY <1>3 DEF Inside
  <2> QED BY <1>1, <1>2, <1>3, <2>1, <2>2, MoveReports
<1>4. CASE Acquire(p)
  <2> DEFINE inherited == Inherited(Parent(p))
  <2>1. inherited \in SUBSET found
    BY PathFacts DEF Reports, NothingInvented, Inherited, Paths
  <2>2. p \notin found
    BY <1>4 DEF Acquire, At, Reports, HaveRead, Ended
  <2>3. PICK at \in {"searching", "done"} : pc' = [pc EXCEPT ![p] = at]
    BY <1>4 DEF Acquire
  <2>4. /\ pc[p] = "queued" /\ carried' = [carried EXCEPT ![p] = inherited]
        /\ UNCHANGED <<run, level, result, found, barren>>
    BY <1>4 DEF Acquire, At
  <2>5. at \in Inside \cup {"done"}
    BY <2>3 DEF Inside
  <2> HIDE DEF inherited
  <2>6. ~barren /\ level[Parent(p)] = "gathering" => Inherited(Parent(p)) \subseteq inherited
    BY DEF inherited
  <2> QED BY <2>1, <2>2, <2>3, <2>4, <2>5, <2>6, MoveReports
<1>5. CASE Searched(p)
  <2>1. PICK at \in {"ranking", "reporting"} : pc' = [pc EXCEPT ![p] = at]
    BY <1>5 DEF Searched
  <2> QED BY <1>3, <1>5, <2>1 DEF Searched, At
<1>6. CASE Ranked(p)
  <2>1. PICK at \in {"reading", "reporting"} : pc' = [pc EXCEPT ![p] = at]
    BY <1>6 DEF Ranked
  <2> QED BY <1>3, <1>6, <2>1 DEF Ranked, At
<1>7. CASE Barren(p)
  BY <1>3, <1>7 DEF Barren, At
<1>8. CASE Read(p)
  <2> DEFINE findings == carried[p] \cup {p}
  <2>1. /\ pc[p] = "reading" /\ pc[p] \in Inside /\ found' = found \cup {p}
        /\ carried' = [carried EXCEPT ![p] = findings]
        /\ pc' = [pc EXCEPT ![p] = "reporting"] /\ UNCHANGED <<run, level, result, barren>>
    BY <1>8 DEF Read, At, Inside
  <2>2. findings \in SUBSET found' /\ p \in findings
    BY <1>1, <2>1
  <2>3. ~barren /\ level[Parent(p)] = "gathering" => Inherited(Parent(p)) \subseteq findings
    BY <1>2, <2>1
  <2>4. "reporting" \in Inside \cup {"done"}
    BY DEF Inside
  <2> HIDE DEF findings
  <2> QED BY <2>1, <2>2, <2>3, <2>4, MoveReports
<1>9. CASE Reported(p)
  <2>1. /\ pc[p] = "reporting" /\ pc[p] \in Inside
        /\ UNCHANGED <<run, carried, result, found, barren>>
    BY <1>9 DEF Reported, At, Inside
  <2>2. CASE pc' = [pc EXCEPT ![p] = "done"] /\ UNCHANGED level
    <3>1. p \in found /\ ~barren => p \in carried[p]
      BY DEF Reports, OwnKept
    <3> QED BY <1>1, <1>2, <2>1, <2>2, <3>1, MoveReports
  <2>3. CASE /\ Len(p) < Depth /\ pc' = [pc EXCEPT ![p] = "recursing"]
             /\ level' = [level EXCEPT ![p] = "asking"]
    <3>1. p \in Levels
      BY <2>3 DEF Levels
    <3> QED BY <2>1, <2>3, <3>1, RecurseReports
  <2> QED BY <1>9, <2>2, <2>3 DEF Reported
<1>10. CASE Raise(p)
  BY <1>10, StopReports DEF Raise, Alive, Inside
<1>11. CASE Unwind(p)
  BY <1>11, StopReports DEF Unwind
<1> QED
  BY <1>4, <1>5, <1>6, <1>7, <1>8, <1>9, <1>10, <1>11 DEF BranchStep

(***************************************************************************)
(* A level that raises returns nothing, and so does its caller.            *)
(***************************************************************************)
LEMMA FailReports ==
    ASSUME Types, Reports, NEW p \in Levels, level[p] \in {"asking", "gathering"}, Waiting(p),
           Fail(p), level' = [level EXCEPT ![p] = "over"], UNCHANGED <<found, barren>>
    PROVE  Reports'
<1>1. CASE p = <<>>
  <2>1. /\ UNCHANGED <<pc, carried, result, found, barren>> /\ run' = "failed"
        /\ level' = [level EXCEPT ![<<>>] = "over"]
    BY <1>1 DEF Fail
  <2>2. level'[<<>>] = "over"
    BY <1>1, <2>1 DEF Types
  <2> QED BY <2>1, <2>2, RunReports
<1>2. CASE p # <<>>
  <2>1. p \in Branches /\ pc[p] = "recursing" /\ pc[p] \in Alive
    BY <1>2, PathFacts DEF Reports, Called, Paths, Alive
  <2> QED BY <1>2, <2>1, StopReports DEF Fail
<1> QED BY <1>1, <1>2

(***************************************************************************)
(* The steps of a level.                                                   *)
(***************************************************************************)
LEMMA LevelReports ==
    ASSUME Types, Reports, NEW p \in Levels, LevelStep(p)
    PROVE  Reports'
<1>1. CASE Asked(p)
  BY <1>1, QueueReports, NothingAskedReports DEF Asked
<1>2. CASE AskFails(p)
  BY <1>2, FailReports DEF AskFails
<1>3. CASE Gathered(p)
  BY <1>3, GatheredReports
<1>4. CASE Broken(p)
  BY <1>4, FailReports DEF Broken
<1> QED BY <1>1, <1>2, <1>3, <1>4 DEF LevelStep

(***************************************************************************)
(* Every step keeps track of the findings.                                 *)
(***************************************************************************)
LEMMA StepReports ==
    ASSUME Types, Reports, [Next]_vars
    PROVE  Reports'
<1>0. level[<<>>] \in {"asking", "gathering"} => run \in {"exploring", "cancelling"}
  BY DEF Reports, Called
<1>1. CASE Start
  BY <1>1, StartReports
<1>2. CASE WriteReport
  <2>1. /\ UNCHANGED <<level, pc, carried, result, found, barren>>
        /\ run = "writing" /\ run' \in {"returned", "failed"}
    BY <1>2 DEF WriteReport
  <2> QED BY <1>0, <2>1, RunReports DEF Returned
<1>3. CASE RunUnwinds
  <2>1. level'[<<>>] = "over"
    BY <1>3, PathFacts DEF RunUnwinds, Types, Paths
  <2>2. /\ UNCHANGED <<pc, carried, result, found, barren>> /\ run' = "cancelled"
        /\ level' = [level EXCEPT ![<<>>] = "over"]
    BY <1>3 DEF RunUnwinds
  <2> QED BY <2>1, <2>2, RunReports
<1>4. CASE Cancel
  <2>1. /\ UNCHANGED <<pc, carried, result, found, barren>>
        /\ run' \in {"cancelling", "cancelled"}
        /\ run' = "cancelled" =>
               level'[<<>>] = "over" \/ (run = "writing" /\ level' = level)
        /\ level' = level \/ level' = [level EXCEPT ![<<>>] = "over"]
    BY <1>4, PathFacts DEF Cancel, Types, Paths
  <2> QED BY <1>0, <2>1, RunReports
<1>5. CASE \E p \in Levels : LevelStep(p)
  BY <1>5, LevelReports
<1>6. CASE \E p \in Branches : BranchStep(p)
  BY <1>6, BranchReports
<1>7. CASE UNCHANGED vars
  BY <1>7 DEF vars, Reports, Rooted, Called, HaveRead, NothingInvented, OwnKept, HandedDown,
              Closed, Returned, Kept, Inherited, Children
<1> QED
  BY <1>1, <1>2, <1>3, <1>4, <1>5, <1>6, <1>7 DEF Next, Work

(***************************************************************************)
(* The invariant of the findings holds throughout every run.               *)
(***************************************************************************)
THEOREM ReportsInvariant == Spec => []Reports
<1>1. IInv /\ Reports /\ [Next]_vars => Reports'
  BY StepReports DEF IInv
<1> QED
  BY InitReports, EngineInvariant, <1>1, PTL DEF Spec

(***************************************************************************)
(* The order of the branches is transitive: where two paths part decides,  *)
(* or the one is above the other.                                          *)
(***************************************************************************)
LEMMA EarlierIsTransitive ==
    ASSUME NEW p \in Branches, NEW q \in Branches, NEW r \in Branches,
           Earlier(p, q), Earlier(q, r)
    PROVE  Earlier(p, r)
<1>1. /\ Len(p) \in Nat /\ Len(q) \in Nat /\ Len(r) \in Nat
      /\ DOMAIN p = 1..Len(p) /\ DOMAIN q = 1..Len(q) /\ DOMAIN r = 1..Len(r)
      /\ \A i \in DOMAIN p : p[i] \in Nat
      /\ \A i \in DOMAIN q : q[i] \in Nat
      /\ \A i \in DOMAIN r : r[i] \in Nat
  <2>1. \A b \in Branches : Len(b) \in Nat /\ DOMAIN b = 1..Len(b) /\ b \in Seq(1..Breadth)
    BY BranchIsPath
  <2> QED BY <2>1, EngineAssumption
<1>2. CASE /\ Len(p) < Len(q) /\ \A k \in DOMAIN p : p[k] = q[k]
           /\ Len(q) < Len(r) /\ \A k \in DOMAIN q : q[k] = r[k]
  BY <1>1, <1>2 DEF Earlier
<1>3. ASSUME Len(p) < Len(q), \A k \in DOMAIN p : p[k] = q[k],
             NEW i \in DOMAIN q \cap DOMAIN r, q[i] < r[i], \A k \in 1..(i - 1) : q[k] = r[k]
      PROVE  Earlier(p, r)
  <2>1. CASE i <= Len(p)
    <3>1. i \in DOMAIN p \cap DOMAIN r /\ p[i] < r[i]
      BY <1>1, <1>3, <2>1
    <3>2. \A k \in 1..(i - 1) : p[k] = r[k]
      BY <1>1, <1>3, <2>1
    <3> QED BY <3>1, <3>2 DEF Earlier
  <2>2. CASE ~(i <= Len(p))
    <3>1. Len(p) < Len(r) /\ \A k \in DOMAIN p : p[k] = r[k]
      BY <1>1, <1>3, <2>2
    <3> QED BY <3>1 DEF Earlier
  <2> QED BY <2>1, <2>2
<1>4. ASSUME NEW i \in DOMAIN p \cap DOMAIN q, p[i] < q[i], \A k \in 1..(i - 1) : p[k] = q[k],
             Len(q) < Len(r), \A k \in DOMAIN q : q[k] = r[k]
      PROVE  Earlier(p, r)
  <2>1. i \in DOMAIN p \cap DOMAIN r /\ p[i] < r[i]
    BY <1>1, <1>4
  <2>2. \A k \in 1..(i - 1) : p[k] = r[k]
    BY <1>1, <1>4
  <2> QED BY <2>1, <2>2 DEF Earlier
<1>5. ASSUME NEW i \in DOMAIN p \cap DOMAIN q, p[i] < q[i], \A k \in 1..(i - 1) : p[k] = q[k],
             NEW j \in DOMAIN q \cap DOMAIN r, q[j] < r[j], \A k \in 1..(j - 1) : q[k] = r[k]
      PROVE  Earlier(p, r)
  <2>1. CASE i < j
    <3>1. i \in DOMAIN p \cap DOMAIN r /\ p[i] < r[i]
      BY <1>1, <1>5, <2>1
    <3>2. \A k \in 1..(i - 1) : p[k] = r[k]
      BY <1>1, <1>5, <2>1
    <3> QED BY <3>1, <3>2 DEF Earlier
  <2>2. CASE ~(i < j)
    <3>1. j \in DOMAIN p \cap DOMAIN r /\ p[j] < r[j]
      BY <1>1, <1>5, <2>2
    <3>2. \A k \in 1..(j - 1) : p[k] = r[k]
      BY <1>1, <1>5, <2>2
    <3> QED BY <3>1, <3>2 DEF Earlier
  <2> QED BY <2>1, <2>2
<1> QED
  BY <1>2, <1>3, <1>4, <1>5 DEF Earlier

(***************************************************************************)
(* So is that of the learnings: what comes before one that comes before    *)
(* another comes before that.                                              *)
(***************************************************************************)
LEMMA UpToIsTransitive ==
    ASSUME NEW S \in SUBSET Branches, NEW l \in Learnings(S), NEW k \in UpTo(l, Learnings(S))
    PROVE  UpTo(k, Learnings(S)) \subseteq UpTo(l, Learnings(S))
<1> SUFFICES ASSUME NEW m \in UpTo(k, Learnings(S)) PROVE m = l \/ Before(m, l)
  BY DEF UpTo
<1>1. \A n \in Learnings(S) : n[1] \in Branches /\ n[2] \in DOMAIN Tokens[n[1]]
                              /\ n = <<n[1], n[2]>>
  BY DEF Learnings
<1>2. \A n \in Learnings(S) : n[2] \in Nat
  <2> SUFFICES ASSUME NEW n \in Learnings(S) PROVE n[2] \in Nat
    OBVIOUS
  <2>1. Tokens[n[1]] \in Seq(Nat)
    BY <1>1, TokensAssumption
  <2>2. DOMAIN Tokens[n[1]] \subseteq Nat
    BY <2>1
  <2> QED BY <1>1, <2>2
<1>3. /\ k \in Learnings(S) /\ m \in Learnings(S)
      /\ k = l \/ Before(k, l)
      /\ m = k \/ Before(m, k)
  BY DEF UpTo
<1>4. CASE m = k \/ k = l
  BY <1>3, <1>4
<1>5. CASE Before(m, k) /\ Before(k, l)
  <2>1. CASE Earlier(m[1], k[1]) /\ Earlier(k[1], l[1])
    BY <1>1, <1>3, <2>1, EarlierIsTransitive DEF Before
  <2>2. CASE m[1] = k[1] \/ k[1] = l[1]
    BY <1>2, <1>3, <1>5, <2>2 DEF Before
  <2> QED BY <1>5, <2>1, <2>2 DEF Before
<1> QED
  BY <1>3, <1>4, <1>5

(***************************************************************************)
(* The report of a run that returns is written from what its branches      *)
(* found and nothing else, for any tree of levels and any order of their   *)
(* steps, unless the model proposed no query for a level.  For any budget  *)
(* and any lengths of the learnings, only a tail of them can be missing,   *)
(* from where the budget is exceeded.                                      *)
(***************************************************************************)
THEOREM ReportsAreComplete == Spec => []AllFindingsReported
<1>1. Types /\ Reports /\ Fitted => AllFindingsReported
  <2> SUFFICES ASSUME Types, Reports, Fitted, run = "returned", ~barren
               PROVE  AllFindingsReported
    BY DEF AllFindingsReported
  <2>1. \A q \in Branches : Above(<<>>, q) /\ <<>> \in Nodes
    BY PathFacts DEF Paths
  <2>2. found \subseteq result
    BY <2>1 DEF Types, Reports, Closed, Returned, Kept
  <2>3. result = found /\ found \in SUBSET Branches
    BY <2>2 DEF Reports, NothingInvented, Types
  <2> DEFINE learnt == Learnings(found)
  <2>4. report = _fit_learnings(learnt) /\ Room \in Nat
    BY <2>3, EngineAssumption DEF Fitted
  <2>5. report \subseteq learnt
    BY <2>4 DEF _fit_learnings
  <2>6. \A l \in learnt : l \in UpTo(l, learnt) /\ UpTo(l, learnt) \subseteq learnt
    BY DEF UpTo
  <2>7. \A l \in learnt : \A k \in UpTo(l, learnt) : UpTo(k, learnt) \subseteq UpTo(l, learnt)
    BY <2>3, UpToIsTransitive
  <2> HIDE DEF learnt
  <2>8. \A l \in report : UpTo(l, learnt) \subseteq report
    BY <2>4, <2>5, <2>6, <2>7 DEF _fit_learnings
  <2>9. \A l \in learnt \ report :
          /\ Room > 0
          /\ \E k \in UpTo(l, learnt) :
                UpTo(k, learnt) # {k} /\ ~(Cost(UpTo(k, learnt)) <= Room)
    BY <2>4 DEF _fit_learnings, Fits
  <2> QED BY <2>5, <2>8, <2>9 DEF AllFindingsReported, learnt
<1> QED
  BY EngineInvariant, ReportsInvariant, FittedInvariant, <1>1, PTL DEF IInv

-----------------------------------------------------------------------------
(* What is still to be spent.                                              *)

Searchers == {p \in Branches : pc[p] \in {"searching", "ranking"}}
Readers   == {p \in Branches : pc[p] = "reading"}
Asking    == {p \in Levels : level[p] = "asking"}

\* The call for the report.
Report == IF run \in {"returned", "failed", "cancelled", "cancelling"} THEN 0 ELSE 1

(***************************************************************************)
(* What is counted is finite: searchers and readers have a permit, and a   *)
(* step opens at most one level.                                           *)
(***************************************************************************)
LEMMA OneMoreAsks ==
    ASSUME Types, [Next]_vars
    PROVE  \E p \in Levels : Asking' \subseteq Asking \cup {p}
<1>0. <<>> \in Levels
  BY DEF Levels
<1>1. CASE \E p \in Branches : Reported(p)
  <2> PICK p \in Branches : Reported(p)
    BY <1>1
  <2>1. CASE p \in Levels
    <3>1. Asking' \subseteq Asking \cup {p}
      BY DEF Reported, Asking, Types
    <3> QED BY <2>1, <3>1
  <2>2. CASE p \notin Levels
    <3>1. level' = level
      BY <2>2 DEF Reported, Levels
    <3> QED BY <1>0, <3>1 DEF Asking
  <2> QED BY <2>1, <2>2
<1>2. CASE \E p \in Branches : BranchStep(p) /\ ~Reported(p)
  <2>1. Asking' \subseteq Asking
    BY <1>2 DEF BranchStep, Acquire, Searched, Ranked, Barren, Read, Raise, Unwind, Asking, Types
  <2> QED BY <1>0, <2>1
<1>3. CASE \E p \in Levels : LevelStep(p)
  <2>1. Asking' \subseteq Asking
    BY <1>3 DEF LevelStep, Asked, AskFails, Gathered, Broken, Asking, Types
  <2> QED BY <1>0, <2>1
<1>4. CASE Start \/ WriteReport \/ RunUnwinds \/ Cancel \/ UNCHANGED vars
  <2>1. Asking' \subseteq Asking \cup {<<>>}
    BY <1>4 DEF Start, WriteReport, RunUnwinds, Cancel, vars, Asking, Types
  <2> QED BY <1>0, <2>1
<1> QED
  BY <1>1, <1>2, <1>3, <1>4 DEF Next, Work

(***************************************************************************)
(* However many levels a run may open, finitely many are open.             *)
(***************************************************************************)
LEMMA AskingIsFinite == Spec => []IsFiniteSet(Asking)
<1>1. Init => IsFiniteSet(Asking)
  <2> SUFFICES ASSUME Init PROVE Asking = {}
    BY FS_EmptySet
  <2> QED BY DEF Init, Asking
<1>2. IInv /\ IsFiniteSet(Asking) /\ [Next]_vars => IsFiniteSet(Asking)'
  <2> SUFFICES ASSUME IInv, IsFiniteSet(Asking), [Next]_vars PROVE IsFiniteSet(Asking')
    OBVIOUS
  <2> PICK p \in Levels : Asking' \subseteq Asking \cup {p}
    BY OneMoreAsks DEF IInv
  <2>1. IsFiniteSet(Asking \cup {p})
    BY FS_AddElement
  <2> QED BY <2>1, FS_Subset
<1> QED
  BY <1>1, <1>2, EngineInvariant, PTL DEF Spec

Counted == IsFiniteSet(Searchers) /\ IsFiniteSet(Readers) /\ IsFiniteSet(Asking)

(***************************************************************************)
(* What is finite can be counted.                                          *)
(***************************************************************************)
LEMMA CountsAreNumbers ==
    ASSUME Counted
    PROVE  Cardinality(Searchers) \in Nat /\ Cardinality(Readers) \in Nat
           /\ Cardinality(Asking) \in Nat
  BY FS_CardinalityType DEF Counted

(***************************************************************************)
(* A step that takes nothing on leaves no more calls to come than there    *)
(* were.                                                                   *)
(***************************************************************************)
LEMMA NothingTakenOn ==
    ASSUME Types, Counted, usage' = usage, Searchers' \subseteq Searchers,
           Readers' \subseteq Readers, Asking' \subseteq Asking, Report' <= Report
    PROVE  usage' + Outstanding' <= usage + Outstanding
<1>1. /\ Cardinality(Searchers') <= Cardinality(Searchers) /\ Cardinality(Searchers') \in Nat
      /\ Cardinality(Readers') <= Cardinality(Readers) /\ Cardinality(Readers') \in Nat
      /\ Cardinality(Asking') <= Cardinality(Asking) /\ Cardinality(Asking') \in Nat
  BY FS_Subset, FS_CardinalityType DEF Counted
<1>2. /\ Cardinality(Searchers) \in Nat /\ Cardinality(Readers) \in Nat
      /\ Cardinality(Asking) \in Nat /\ usage \in Nat
      /\ Report \in Nat /\ Report' \in Nat
  BY CountsAreNumbers DEF Types, Report
<1> QED
  BY <1>1, <1>2 DEF Outstanding, Searchers, Readers, Asking, Report

(***************************************************************************)
(* A set that loses an element counts one less, or fewer.                  *)
(***************************************************************************)
LEMMA OneLess ==
    ASSUME NEW S, IsFiniteSet(S), NEW p \in S, NEW T, T \subseteq S \ {p}
    PROVE  Cardinality(T) \in Nat /\ Cardinality(T) + 1 <= Cardinality(S)
<1>1. IsFiniteSet(S \ {p}) /\ Cardinality(S \ {p}) = Cardinality(S) - 1
  BY FS_RemoveElement
<1>2. IsFiniteSet(T) /\ Cardinality(T) <= Cardinality(S \ {p})
  BY <1>1, FS_Subset
<1>3. Cardinality(T) \in Nat /\ Cardinality(S) \in Nat /\ Cardinality(S \ {p}) \in Nat
  BY <1>1, <1>2, FS_CardinalityType
<1> QED
  BY <1>1, <1>2, <1>3

(***************************************************************************)
(* A call to the model was counted among those to come: that of a branch   *)
(* that searches or reads, of a level that asks, or of the report.         *)
(***************************************************************************)
LEMMA CallWasCounted ==
    ASSUME Types, Counted, usage' = usage \/ usage' = usage + 1, NEW p,
           \/ /\ p \in Searchers /\ Searchers' \subseteq Searchers \ {p}
              /\ Readers' \subseteq Readers \cup {p} /\ Asking' \subseteq Asking
              /\ Report' = Report
           \/ /\ p \in Readers /\ Readers' \subseteq Readers \ {p}
              /\ Searchers' \subseteq Searchers /\ Asking' \subseteq Asking
              /\ Report' = Report
           \/ /\ p \in Asking /\ Asking' \subseteq Asking \ {p}
              /\ Searchers' \subseteq Searchers /\ Readers' \subseteq Readers
              /\ Report' <= Report
           \/ /\ Report = 1 /\ Report' = 0 /\ Asking' \subseteq Asking
              /\ Searchers' \subseteq Searchers /\ Readers' \subseteq Readers
    PROVE  usage' + Outstanding' <= usage + Outstanding
<1> DEFINE s == Cardinality(Searchers)
           r == Cardinality(Readers)
           a == Cardinality(Asking)
           t == Cardinality(Searchers')
           q == Cardinality(Readers')
           b == Cardinality(Asking')
<1>1. /\ s \in Nat /\ r \in Nat /\ a \in Nat /\ usage \in Nat
      /\ Report \in Nat /\ Report' \in Nat
  BY CountsAreNumbers DEF Types, Report
<1>2. Searchers' \subseteq Searchers => t <= s /\ t \in Nat
  BY FS_Subset, FS_CardinalityType DEF Counted
<1>3. Readers' \subseteq Readers => q <= r /\ q \in Nat
  BY FS_Subset, FS_CardinalityType DEF Counted
<1>4. Asking' \subseteq Asking => b <= a /\ b \in Nat
  BY FS_Subset, FS_CardinalityType DEF Counted
<1>5. p \in Searchers /\ Searchers' \subseteq Searchers \ {p} => t + 1 <= s /\ t \in Nat
  BY OneLess DEF Counted
<1>6. p \in Readers /\ Readers' \subseteq Readers \ {p} => q + 1 <= r /\ q \in Nat
  BY OneLess DEF Counted
<1>7. p \in Asking /\ Asking' \subseteq Asking \ {p} => b + 1 <= a /\ b \in Nat
  BY OneLess DEF Counted
<1>8. Readers' \subseteq Readers \cup {p} => q <= r + 1 /\ q \in Nat
  <2>1. IsFiniteSet(Readers \cup {p}) /\ Cardinality(Readers \cup {p}) \in {r, r + 1}
    BY FS_AddElement DEF Counted
  <2>2. Readers' \subseteq Readers \cup {p} =>
            q <= Cardinality(Readers \cup {p}) /\ q \in Nat
    BY <2>1, FS_Subset, FS_CardinalityType
  <2> QED BY <1>1, <2>1, <2>2
<1> DEFINE before == 2 * s + r + a + Report
           after  == 2 * t + q + b + Report'
<1>9. Outstanding = before /\ Outstanding' = after
  BY DEF Outstanding, Searchers, Readers, Asking, Report
<1> HIDE DEF s, r, a, t, q, b
<1>10. t \in Nat /\ q \in Nat /\ b \in Nat
  BY <1>2, <1>3, <1>4, <1>5, <1>6, <1>7, <1>8
<1>11. after + 1 <= before
  BY <1>1, <1>2, <1>3, <1>4, <1>5, <1>6, <1>7, <1>8
<1>12. before \in Nat /\ after \in Nat
  <2>1. \A w, x, y, z \in Nat : 2 * w + x + y + z \in Nat
    OBVIOUS
  <2> QED BY <1>1, <1>10, <2>1
<1> HIDE DEF before, after
<1>13. usage' + after <= usage + before
  BY <1>1, <1>11, <1>12
<1> QED
  BY <1>9, <1>13

(***************************************************************************)
(* The steps, once the cap is spent.                                       *)
(***************************************************************************)
LEMMA StepWindsDown ==
    ASSUME Types, Counted, OverBudget, [Next]_vars
    PROVE  usage' + Outstanding' <= usage + Outstanding
<1> DEFINE Fewer == /\ Searchers' \subseteq Searchers /\ Readers' \subseteq Readers
                    /\ Asking' \subseteq Asking
<1>1. CASE Start
  BY <1>1, NothingTakenOn DEF Start, Searchers, Readers, Asking, Report
<1>2. CASE WriteReport
  <2>1. Fewer /\ Report = 1 /\ Report' = 0 /\ (usage' = usage \/ usage' = usage + 1)
    BY <1>2 DEF WriteReport, Searchers, Readers, Asking, Report
  <2> QED BY <2>1, CallWasCounted
<1>3. CASE RunUnwinds
  BY <1>3, NothingTakenOn DEF RunUnwinds, Searchers, Readers, Asking, Report, Types
<1>4. CASE Cancel
  <2>1. Fewer /\ Report' <= Report /\ usage' = usage
    BY <1>4 DEF Cancel, Searchers, Readers, Asking, Report, Types
  <2> QED BY <2>1, NothingTakenOn
<1>5. ASSUME NEW p \in Levels, Asked(p) PROVE usage' + Outstanding' <= usage + Outstanding
  <2>1. p \in Asking /\ Asking' \subseteq Asking \ {p}
    BY <1>5 DEF Asked, Asking, Types
  <2>2. Searchers' \subseteq Searchers /\ Readers' \subseteq Readers
    BY <1>5 DEF Asked, Return, Searchers, Readers, Types
  <2>3. Report' <= Report /\ (usage' = usage \/ usage' = usage + 1)
    BY <1>5 DEF Asked, Return, Waiting, Report
  <2> QED BY <2>1, <2>2, <2>3, CallWasCounted
<1>6. ASSUME NEW p \in Levels, AskFails(p) \/ Gathered(p) \/ Broken(p)
      PROVE  usage' + Outstanding' <= usage + Outstanding
  <2>1. usage' = usage /\ Asking' \subseteq Asking
    BY <1>6 DEF AskFails, Gathered, Broken, Asking, Types
  <2>2. Searchers' \subseteq Searchers /\ Readers' \subseteq Readers
    BY <1>6 DEF AskFails, Gathered, Broken, Fail, Return, Searchers, Readers, Types
  <2>3. Report' <= Report
    BY <1>6 DEF AskFails, Gathered, Broken, Fail, Return, Waiting, Report
  <2> QED BY <2>1, <2>2, <2>3, NothingTakenOn
<1>7. ASSUME NEW p \in Branches, Ranked(p)
      PROVE  usage' + Outstanding' <= usage + Outstanding
  <2>1. p \in Searchers /\ Searchers' \subseteq Searchers \ {p}
    BY <1>7 DEF Ranked, At, Searchers, Types
  <2>2. Readers' \subseteq Readers \cup {p} /\ Asking' \subseteq Asking
    BY <1>7 DEF Ranked, Readers, Asking, Types
  <2>3. Report' = Report /\ (usage' = usage \/ usage' = usage + 1)
    BY <1>7 DEF Ranked, Report
  <2> QED BY <2>1, <2>2, <2>3, CallWasCounted
<1>8. ASSUME NEW p \in Branches, Read(p)
      PROVE  usage' + Outstanding' <= usage + Outstanding
  <2>1. p \in Readers /\ Readers' \subseteq Readers \ {p}
    BY <1>8 DEF Read, At, Readers, Types
  <2>2. Searchers' \subseteq Searchers /\ Asking' \subseteq Asking
    BY <1>8 DEF Read, Searchers, Asking, Types
  <2>3. Report' = Report /\ (usage' = usage \/ usage' = usage + 1)
    BY <1>8 DEF Read, Report
  <2> QED BY <2>1, <2>2, <2>3, CallWasCounted
<1>9. ASSUME NEW p \in Branches,
             Acquire(p) \/ Searched(p) \/ Barren(p) \/ Reported(p) \/ Raise(p) \/ Unwind(p)
      PROVE  usage' + Outstanding' <= usage + Outstanding
  <2>1. usage' = usage /\ Report' = Report
    BY <1>9 DEF Acquire, Searched, Barren, Reported, Raise, Unwind, Report
  <2>2. Asking' \subseteq Asking
    BY <1>9 DEF Acquire, Searched, Barren, Reported, Raise, Unwind, Asking, Types
  <2>3. Searchers' \subseteq Searchers /\ Readers' \subseteq Readers
    BY <1>9 DEF Acquire, Searched, Barren, Reported, Raise, Unwind, At, Searchers, Readers, Types
  <2>4. Report' <= Report
    BY <2>1 DEF Report
  <2> QED BY <2>1, <2>2, <2>3, <2>4, NothingTakenOn
<1>10. CASE UNCHANGED vars
  BY <1>10, NothingTakenOn DEF vars, Searchers, Readers, Asking, Report
<1> QED
  BY <1>1, <1>2, <1>3, <1>4, <1>5, <1>6, <1>7, <1>8, <1>9, <1>10
     DEF Next, Work, LevelStep, BranchStep

(***************************************************************************)
(* Once a run has spent its cap, what it has spent and may still spend     *)
(* never grows, whatever order branches queue, finish and recurse in.      *)
(***************************************************************************)
THEOREM OverspendIsBounded == Spec => SpendingWindsDown
<1>1. IInv /\ IsFiniteSet(Asking) /\ [Next]_vars
          => [OverBudget => usage' + Outstanding' <= usage + Outstanding]_vars
  <2> SUFFICES ASSUME IInv, IsFiniteSet(Asking), [Next]_vars, OverBudget
               PROVE  usage' + Outstanding' <= usage + Outstanding
    OBVIOUS
  <2>1. Counted
    BY FS_Subset DEF IInv, Permits, Holders, Counted, Searchers, Readers, Inside
  <2> QED BY <2>1, StepWindsDown DEF IInv
<1> QED
  BY <1>1, EngineInvariant, AskingIsFinite, PTL DEF Spec, SpendingWindsDown
=============================================================================
