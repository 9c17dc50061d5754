---------------------------- MODULE SiteMapProofs ----------------------------
(***************************************************************************)
(* Proofs about SiteMap, for any URLs, guard, documents, links and limits: *)
(* its types, that no GET goes to a URL the guard refuses, that the first  *)
(* source that yields URLs is the one that answers, and that the number of *)
(* GETs is bounded.                                                        *)
(***************************************************************************)
EXTENDS SiteMap, FiniteSetTheorems, SequenceTheorems, TLAPS

(***************************************************************************)
(* A document of the site itself is one.                                   *)
(***************************************************************************)
LEMMA OriginType ==
    ASSUME TypeOK, NEW path \in {"sitemap", "robots"}, NEW kind \in {"index", "robots"}
    PROVE  <<Document(_origin(path), kind)>> \in Seq(Documents)
<1>1. _origin(path) \in Urls
  BY SiteMapAssumption DEF TypeOK, _origin
<1>2. 0 \in 0..MaxRedirects
  <2>1. MaxRedirects \in Nat
    BY SiteMapAssumption
  <2> QED BY <2>1
<1>3. Document(_origin(path), kind) \in Documents
  BY <1>1, <1>2 DEF Document, Documents
<1> QED BY <1>3

(***************************************************************************)
(* The documents that a body adds to those left to read are documents.     *)
(***************************************************************************)
LEMMA NestedType ==
    ASSUME NEW d \in Documents, NEW n \in Nat, NEW names \in [1..n -> Named]
    PROVE  Nested(d, names) \in Seq(Documents)
<1>1. ASSUME NEW kind \in {"index", "child"} PROVE Few(names, kind) \in Seq(Documents)
  <2>1. Len(names) = n
    OBVIOUS
  <2>2. Lesser(Len(names), MaxNested) \in 0..n
    BY <2>1, SiteMapAssumption DEF Lesser
  <2>3. \A i \in 1..Lesser(Len(names), MaxNested) : Document(names[i], kind) \in Documents
    BY <2>2, SiteMapAssumption DEF Document, Documents
  <2> QED BY <2>2, <2>3 DEF Few
<1> QED BY <1>1 DEF Nested

(***************************************************************************)
(* A document that is done with leaves a sequence of documents.            *)
(***************************************************************************)
LEMMA DoneType ==
    ASSUME TypeOK, Reading, NEW found \in SUBSET Links, NEW documents \in Seq(Documents),
           Done(found, documents)
    PROVE  /\ todo' \in Seq(Documents)
           /\ links' \in [Sources -> SUBSET Links]
           /\ UNCHANGED <<stage, source, answer>>
<1>1. Tail(todo) \in Seq(Documents)
  BY DEF TypeOK, Reading
<1> QED BY <1>1 DEF TypeOK, Done

(***************************************************************************)
(* A redirect is a document.                                               *)
(***************************************************************************)
LEMMA HopType ==
    ASSUME NEW d \in Documents, NEW u \in Urls, d.hops + 1 \in 0..MaxRedirects
    PROVE  [d EXCEPT !.url = u, !.hops = @ + 1] \in Documents
  BY DEF Documents

(***************************************************************************)
(* The document at hand is one, and so is what it redirects to.            *)
(***************************************************************************)
LEMMA HeadType ==
    ASSUME TypeOK, Reading
    PROVE  /\ Head(todo) \in Documents
           /\ Head(todo).url \in Urls
           /\ \A u \in Named : Head(todo).hops # MaxRedirects =>
                  <<[Head(todo) EXCEPT !.url = u, !.hops = @ + 1]>> \in Seq(Documents)
<1>1. Head(todo) \in Documents
  BY DEF TypeOK, Reading
<1>2. MaxRedirects \in Nat
  BY SiteMapAssumption
<1>3. ASSUME NEW u \in Named, Head(todo).hops # MaxRedirects
      PROVE  [Head(todo) EXCEPT !.url = u, !.hops = @ + 1] \in Documents
  <2>1. u \in Urls
    BY SiteMapAssumption
  <2>2. Head(todo).hops + 1 \in 0..MaxRedirects
    BY <1>1, <1>2, <1>3 DEF Documents
  <2> QED BY <1>1, <2>1, <2>2, HopType
<1>4. \A u \in Named : Head(todo).hops # MaxRedirects =>
          <<[Head(todo) EXCEPT !.url = u, !.hops = @ + 1]>> \in Seq(Documents)
  <2> SUFFICES ASSUME NEW u \in Named, Head(todo).hops # MaxRedirects
               PROVE  <<[Head(todo) EXCEPT !.url = u, !.hops = @ + 1]>> \in Seq(Documents)
    OBVIOUS
  <2> DEFINE e == [Head(todo) EXCEPT !.url = u, !.hops = @ + 1]
  <2>1. e \in Documents
    BY <1>3
  <2> HIDE DEF e
  <2>2. <<e>> \in Seq(Documents)
    BY <2>1
  <2> QED BY <2>2 DEF e
<1> QED BY <1>1, <1>4 DEF Documents

(***************************************************************************)
(* A GET of a document the guard lets pass.                                *)
(***************************************************************************)
LEMMA GetKeeps ==
    ASSUME TypeOK, OnlyVettedRequests, Reading, check(Head(todo).url), Get(Head(todo))
    PROVE  requested' \subseteq Urls /\ gets' \in Nat /\ OnlyVettedRequests'
<1>1. MostGets \in Nat
  <2>1. MaxNested \in Nat /\ MaxRedirects \in Nat
    BY SiteMapAssumption
  <2> QED BY <2>1 DEF MostGets
<1>2. gets' \in Nat
  BY <1>1 DEF TypeOK, Get, Lesser
<1>3. Head(todo).url \in partition(Urls)
  BY HeadType DEF partition
<1>4. requested' = requested \cup {Head(todo).url}
  BY DEF Get
<1>5. OnlyVettedRequests'
  BY <1>3, <1>4 DEF OnlyVettedRequests, partition
<1> QED BY <1>2, <1>4, <1>5, HeadType DEF TypeOK

\* A source is left for the next one only when it yielded nothing.
InTurn ==
    /\ source # "sitemap" => links["sitemap"] = {}
    /\ source = "page" => links["robots"] = {}
    /\ source = "page" <=> stage = "crawling" \/ (source = "page" /\ stage \in {"answered", "failed"})
    /\ stage \in {"asked", "reading"} => source # "page"

IInv == TypeOK /\ OnlyVettedRequests /\ InTurn /\ FirstSourceAnswers

(***************************************************************************)
(* What an answer keeps of the links of its source.                        *)
(***************************************************************************)
LEMMA RespondKeeps ==
    ASSUME NEW found \in SUBSET Links, NEW kept \in _respond(found)
    PROVE  /\ kept \subseteq Links
           /\ kept \subseteq found \cap Matching
           /\ Cardinality(kept) < Limit => kept = found \cap Matching
<1> DEFINE F == found \cap Matching
<1>1. IsFiniteSet(F) /\ Cardinality(F) \in Nat
  BY FS_Subset, FS_CardinalityType, SiteMapAssumption
<1>2. kept \subseteq F /\ Cardinality(kept) = Lesser(Limit, Cardinality(F))
  BY DEF _respond
<1>3. Cardinality(kept) < Limit => Cardinality(kept) = Cardinality(F)
  BY <1>1, <1>2, SiteMapAssumption DEF Lesser
<1>4. Cardinality(kept) = Cardinality(F) => kept = F
  BY <1>1, <1>2, FS_Subset
<1> QED BY <1>2, <1>3, <1>4

(***************************************************************************)
(* Any of the steps that read a document keeps the invariant.              *)
(***************************************************************************)
LEMMA DocumentKeeps ==
    ASSUME IInv, Reading, NEW found \in SUBSET Links, NEW documents \in Seq(Documents),
           Done(found, documents), UNCHANGED entry,
           \/ UNCHANGED <<requested, gets>>
           \/ check(Head(todo).url) /\ Get(Head(todo))
    PROVE  IInv'
<1> USE DEF IInv
<1>1. /\ todo' \in Seq(Documents) /\ links' \in [Sources -> SUBSET Links]
      /\ UNCHANGED <<stage, source, answer>>
  BY DoneType
<1>2. requested' \subseteq Urls /\ gets' \in Nat /\ OnlyVettedRequests'
  BY GetKeeps DEF TypeOK, OnlyVettedRequests
<1>3. TypeOK'
  BY <1>1, <1>2 DEF TypeOK
<1>4. stage = "reading" /\ source # "page"
  BY DEF Reading, InTurn
<1>5. \A s \in Sources : s # source => links'[s] = links[s]
  BY DEF Done, TypeOK
<1>6. InTurn'
  BY <1>1, <1>4, <1>5 DEF InTurn, Sources, TypeOK
<1>7. FirstSourceAnswers'
  BY <1>1, <1>4 DEF FirstSourceAnswers
<1> QED BY <1>2, <1>3, <1>6, <1>7

(***************************************************************************)
(* The invariant is one.                                                   *)
(***************************************************************************)
THEOREM Invariance == Spec => []IInv
<1>1. Init => IInv
  BY DEF Init, IInv, TypeOK, OnlyVettedRequests, InTurn, FirstSourceAnswers, Sources
<1>2. IInv /\ [Next]_vars => IInv'
  <2> SUFFICES ASSUME IInv, [Next]_vars PROVE IInv'
    OBVIOUS
  <2> USE DEF IInv
  <2>1. CASE Begin
    <3>1. <<Document(_origin("sitemap"), "index")>> \in Seq(Documents)
      BY OriginType
    <3>2. TypeOK'
      BY <2>1, <3>1 DEF Begin, TypeOK
    <3> QED BY <2>1, <3>2 DEF Begin, OnlyVettedRequests, InTurn, FirstSourceAnswers
  <2>2. CASE Skip
    <3>1. <<>> \in Seq(Documents) /\ {} \in SUBSET Links
      OBVIOUS
    <3> QED BY <2>2, <3>1, DocumentKeeps DEF Skip
  <2>3. CASE Unusable
    <3>1. <<>> \in Seq(Documents) /\ {} \in SUBSET Links
      OBVIOUS
    <3> QED BY <2>3, <3>1, DocumentKeeps DEF Unusable
  <2>4. CASE Redirected
    <3>1. Reading /\ check(Head(todo).url) /\ Get(Head(todo)) /\ UNCHANGED entry
      BY <2>4 DEF Redirected
    <3>2. PICK u \in Named :
              IF Head(todo).hops = MaxRedirects THEN Done({}, <<>>)
              ELSE Done({}, <<[Head(todo) EXCEPT !.url = u, !.hops = @ + 1]>>)
      BY <2>4 DEF Redirected
    <3>3. CASE Head(todo).hops = MaxRedirects
      <4>1. Done({}, <<>>) /\ <<>> \in Seq(Documents) /\ {} \in SUBSET Links
        BY <3>2, <3>3
      <4> QED BY <3>1, <4>1, DocumentKeeps
    <3>4. CASE Head(todo).hops # MaxRedirects
      <4> DEFINE next == <<[Head(todo) EXCEPT !.url = u, !.hops = @ + 1]>>
      <4>1. next \in Seq(Documents)
        BY <3>1, <3>4, HeadType
      <4>2. Done({}, next) /\ {} \in SUBSET Links
        BY <3>2, <3>4
      <4> QED BY <3>1, <4>1, <4>2, DocumentKeeps
    <3> QED BY <3>3, <3>4
  <2>5. CASE Read
    <3>1. Reading /\ check(Head(todo).url) /\ Get(Head(todo)) /\ UNCHANGED entry
      BY <2>5 DEF Read
    <3>2. PICK found \in SUBSET Links, names \in SeqOf(Named, MaxNested + 1) :
              Done(IF Head(todo).kind = "robots" THEN {} ELSE found, Nested(Head(todo), names))
      BY <2>5 DEF Read
    <3>3. PICK n \in Nat : names \in [1..n -> Named]
      BY SiteMapAssumption DEF SeqOf
    <3>4. Nested(Head(todo), names) \in Seq(Documents)
      BY <3>1, <3>3, HeadType, NestedType
    <3>5. (IF Head(todo).kind = "robots" THEN {} ELSE found) \in SUBSET Links
      OBVIOUS
    <3> QED BY <3>1, <3>2, <3>4, <3>5, DocumentKeeps
  <2>6. CASE NextSource
    <3> USE <2>6 DEF NextSource, Exhausted
    <3>1. CASE links[source] # {}
      <4>1. /\ stage' = "answered" /\ answer' \in _respond(links[source])
            /\ UNCHANGED <<entry, source, todo, links, requested, gets>>
        BY <3>1
      <4>2. links[source] \in SUBSET Links
        BY DEF TypeOK
      <4>3. /\ answer' \subseteq Links
            /\ answer' \subseteq links[source] \cap Matching
            /\ Cardinality(answer') < Limit => answer' = links[source] \cap Matching
        BY <4>1, <4>2, RespondKeeps
      <4> QED BY <3>1, <4>1, <4>3
              DEF TypeOK, OnlyVettedRequests, InTurn, FirstSourceAnswers
    <3>2. CASE links[source] = {} /\ source = "sitemap"
      <4>1. <<Document(_origin("robots"), "robots")>> \in Seq(Documents)
        BY OriginType
      <4>2. /\ source' = "robots" /\ todo' = <<Document(_origin("robots"), "robots")>>
            /\ UNCHANGED <<entry, stage, links, answer, requested, gets>>
        BY <3>2
      <4> QED BY <3>2, <4>1, <4>2
              DEF TypeOK, OnlyVettedRequests, InTurn, FirstSourceAnswers, Sources
    <3>3. CASE links[source] = {} /\ source = "robots"
      BY <3>3 DEF TypeOK, OnlyVettedRequests, InTurn, FirstSourceAnswers, Sources
    <3> QED BY <3>1, <3>2, <3>3 DEF TypeOK, InTurn, Sources
  <2>7. CASE Crawled
    <3>1. source = "page"
      BY <2>7 DEF Crawled, InTurn
    <3>2. CASE stage' = "failed"
      BY <2>7, <3>1, <3>2 DEF Crawled, TypeOK, OnlyVettedRequests, InTurn, FirstSourceAnswers
    <3>3. CASE stage' = "answered"
      <4>1. PICK found \in SUBSET Links :
                links' = [links EXCEPT !["page"] = found] /\ answer' \in _respond(found)
        BY <2>7, <3>3 DEF Crawled
      <4>2. /\ answer' \subseteq Links
            /\ answer' \subseteq found \cap Matching
            /\ Cardinality(answer') < Limit => answer' = found \cap Matching
        BY <4>1, RespondKeeps
      <4>3. UNCHANGED <<entry, source, todo, requested, gets>>
        BY <2>7 DEF Crawled
      <4> QED BY <3>1, <3>3, <4>1, <4>2, <4>3
              DEF TypeOK, OnlyVettedRequests, InTurn, FirstSourceAnswers, Sources
    <3> QED BY <2>7, <3>2, <3>3 DEF Crawled
  <2>8. CASE UNCHANGED vars
    BY <2>8 DEF vars, TypeOK, OnlyVettedRequests, InTurn, FirstSourceAnswers
  <2>9. CASE Unparsable
    BY <2>9 DEF Unparsable, Reading, TypeOK, OnlyVettedRequests, InTurn, FirstSourceAnswers
  <2> QED BY <2>1, <2>2, <2>3, <2>4, <2>5, <2>6, <2>7, <2>8, <2>9 DEF Next
<1> QED BY <1>1, <1>2, PTL DEF Spec

(***************************************************************************)
(* The types of the mapper.                                                *)
(***************************************************************************)
THEOREM TypeCorrect == Spec => []TypeOK
<1>1. IInv => TypeOK
  BY DEF IInv
<1> QED BY <1>1, Invariance, PTL

(***************************************************************************)
(* No GET goes to a URL that the guard refuses, whatever documents name    *)
(* and wherever they redirect.                                             *)
(***************************************************************************)
THEOREM RequestsAreVetted == Spec => []OnlyVettedRequests
<1>1. IInv => OnlyVettedRequests
  BY DEF IInv
<1> QED BY <1>1, Invariance, PTL

(***************************************************************************)
(* An answer is from the first source that yielded URLs, and is cut only   *)
(* by the search or by the limit.                                          *)
(***************************************************************************)
THEOREM FirstSourceWins == Spec => []FirstSourceAnswers
<1>1. IInv => FirstSourceAnswers
  BY DEF IInv
<1> QED BY <1>1, Invariance, PTL

-----------------------------------------------------------------------------
(* How many documents are left to read.                                    *)

\* Some documents: first children, then sitemaps that may name children, then
\* a robots.txt that may name sitemaps.
Shape(s, c, i, r) ==
    /\ Len(s) = c + i + r
    /\ \A k \in 1..Len(s) :
          s[k].kind = IF k <= c THEN "child" ELSE IF k <= c + i THEN "index" ELSE "robots"

\* A sitemap and its children; a robots.txt, its sitemaps and their children.
OfSitemap == MaxNested + 1
OfRobots == 1 + MaxNested * OfSitemap

\* What these documents may come to.
Size(c, i, r) == c + OfSitemap * i + OfRobots * r

\* What the sources that were not tried yet may come to.
Ahead ==
    IF stage = "asked" THEN OfSitemap + OfRobots
    ELSE IF source = "sitemap" THEN OfRobots ELSE 0

Hops == IF todo = <<>> THEN 0 ELSE Head(todo).hops

\* With so many documents left the GETs cannot exceed their bound: every one
\* takes as many as it has redirects and one more.
Within(n) == gets + (MaxRedirects + 1) * n <= MostGets + Hops

Enough ==
    /\ stage = "asked" => todo = <<>>
    /\ \E c, i, r, n \in Nat :
          Shape(todo, c, i, r) /\ Size(c, i, r) + Ahead <= n /\ Within(n)

(***************************************************************************)
(* What the limits come to is a number, and reading a sitemap or a         *)
(* robots.txt leaves less to read than there was.                          *)
(***************************************************************************)
LEMMA Limits ==
    /\ MaxNested \in Nat /\ MaxRedirects \in Nat
    /\ OfSitemap \in Nat /\ OfRobots \in Nat
    /\ OfSitemap = MaxNested + 1
    /\ OfRobots = 1 + OfSitemap * MaxNested
    /\ MostGets = (MaxRedirects + 1) * (OfSitemap + OfRobots)
<1>1. MaxNested \in Nat /\ MaxRedirects \in Nat
  BY SiteMapAssumption
<1>2. OfSitemap = MaxNested + 1 /\ OfSitemap \in Nat
  BY <1>1 DEF OfSitemap
<1>3. OfRobots = 1 + MaxNested * OfSitemap /\ OfRobots \in Nat
  BY <1>1, <1>2 DEF OfRobots
<1>4. MaxNested * OfSitemap = OfSitemap * MaxNested
  BY <1>1, <1>2
<1>5. OfSitemap + OfRobots = 2 + MaxNested + MaxNested * (MaxNested + 1)
  BY <1>1, <1>2, <1>3 DEF OfRobots, OfSitemap
<1> QED BY <1>1, <1>2, <1>3, <1>4, <1>5 DEF MostGets

(***************************************************************************)
(* The sources ahead come to a number of documents.                        *)
(***************************************************************************)
LEMMA AheadType == Ahead \in Nat /\ OfSitemap \in Nat /\ OfRobots \in Nat
<1>1. OfSitemap \in Nat /\ OfRobots \in Nat
  BY Limits
<1> QED BY <1>1 DEF Ahead

(***************************************************************************)
(* What the documents left may come to, as one of them is done with and    *)
(* gives way to those it names.                                            *)
(***************************************************************************)
LEMMA Sizes ==
    /\ \A c, i, r \in Nat : Size(c, i, r) \in Nat
    /\ Size(0, 0, 0) = 0 /\ Size(0, 1, 0) = OfSitemap /\ Size(0, 0, 1) = OfRobots
    /\ \A c, i, r \in Nat : Size(c + 1, i, r) = Size(c, i, r) + 1
    /\ \A n \in 0..MaxNested, i, r \in Nat : Size(n, i, r) < Size(0, i + 1, r)
    /\ \A n \in 0..MaxNested, r \in Nat : Size(0, n, r) < Size(0, 0, r + 1)
<1> DEFINE K == OfSitemap
           J == OfRobots
<1>1. MaxNested \in Nat /\ K \in Nat /\ J \in Nat /\ K = MaxNested + 1 /\ J = 1 + K * MaxNested
  BY Limits
<1>2. \A c, i, r : Size(c, i, r) = c + K * i + J * r
  BY DEF Size
<1> HIDE DEF K, J
<1>3. \A m, a, b \in Nat : m * a \in Nat /\ m * (a + b) = m * a + m * b /\ m * 0 = 0 /\ m * 1 = m
  OBVIOUS
<1>4. \A c, i, r \in Nat : Size(c, i, r) \in Nat
  BY <1>1, <1>2, <1>3
<1>5. Size(0, 0, 0) = 0 /\ Size(0, 1, 0) = K /\ Size(0, 0, 1) = J
  BY <1>1, <1>2, <1>3
<1>6. \A c, i, r \in Nat : Size(c + 1, i, r) = Size(c, i, r) + 1
  BY <1>1, <1>2, <1>3
<1>7. ASSUME NEW n \in 0..MaxNested, NEW i \in Nat, NEW r \in Nat
      PROVE  Size(n, i, r) < Size(0, i + 1, r)
  <2>1. K * (i + 1) = K * i + K /\ K * i \in Nat /\ J * r \in Nat
    BY <1>1, <1>3
  <2>2. Size(n, i, r) = n + K * i + J * r /\ Size(0, i + 1, r) = K * i + K + J * r
    <3>1. Size(0, i + 1, r) = 0 + K * (i + 1) + J * r
      BY <1>2
    <3>2. \A x, y, z \in Nat : 0 + (x + y) + z = x + y + z
      OBVIOUS
    <3> QED BY <1>1, <1>2, <2>1, <3>1, <3>2
  <2>3. \A x, y \in Nat : n + x + y < x + K + y
    BY <1>1
  <2> QED BY <2>1, <2>2, <2>3
<1>8. ASSUME NEW n \in 0..MaxNested, NEW r \in Nat
      PROVE  Size(0, n, r) < Size(0, 0, r + 1)
  <2>1. n \in Nat /\ MaxNested - n \in Nat /\ n + (MaxNested - n) = MaxNested
    BY <1>1
  <2>2. K * MaxNested = K * n + K * (MaxNested - n) /\ K * n \in Nat /\ K * (MaxNested - n) \in Nat
    BY <1>1, <1>3, <2>1
  <2>3. J * (r + 1) = J * r + J /\ J * r \in Nat /\ K * 0 = 0
    BY <1>1, <1>3
  <2>4. Size(0, n, r) = K * n + J * r /\ Size(0, 0, r + 1) = J * r + J
    <3>1. Size(0, n, r) = 0 + K * n + J * r /\ Size(0, 0, r + 1) = 0 + K * 0 + J * (r + 1)
      BY <1>2
    <3>2. \A x, y \in Nat : 0 + x + y = x + y /\ 0 + 0 + (x + y) = x + y
      OBVIOUS
    <3> QED BY <1>1, <2>2, <2>3, <3>1, <3>2
  <2> QED BY <1>1, <2>2, <2>3, <2>4
<1> QED BY <1>4, <1>5, <1>6, <1>7, <1>8 DEF K, J

(***************************************************************************)
(* The documents behind the first are of the same shape, less that one.    *)
(***************************************************************************)
LEMMA RestShape ==
    ASSUME NEW s \in Seq(Documents), s # <<>>,
           NEW c \in Nat, NEW i \in Nat, NEW r \in Nat, Shape(s, c, i, r)
    PROVE  \E a, b, d \in Nat :
              /\ Shape(Tail(s), a, b, d)
              /\ \/ Head(s).kind = "child" /\ c = a + 1 /\ i = b /\ r = d
                 \/ Head(s).kind = "index" /\ c = 0 /\ a = 0 /\ i = b + 1 /\ r = d
                 \/ Head(s).kind = "robots" /\ c = 0 /\ a = 0 /\ i = 0 /\ b = 0 /\ r = d + 1
<1> DEFINE t == Tail(s)
           n == Len(s)
<1>1. /\ n \in Nat /\ n >= 1 /\ t \in Seq(Documents) /\ Len(t) = n - 1
      /\ Head(s) = s[1] /\ \A k \in 1..(n - 1) : t[k] = s[k + 1]
  BY HeadTailProperties, LenProperties, EmptySeq
<1>2. /\ n = c + i + r
      /\ \A k \in 1..n :
            s[k].kind = IF k <= c THEN "child" ELSE IF k <= c + i THEN "index" ELSE "robots"
  BY DEF Shape
<1> HIDE DEF n, t
<1>3. ASSUME NEW a \in Nat, NEW b \in Nat, NEW d \in Nat,
             \/ c = a + 1 /\ i = b /\ r = d
             \/ c = 0 /\ a = 0 /\ i = b + 1 /\ r = d
             \/ c = 0 /\ a = 0 /\ i = 0 /\ b = 0 /\ r = d + 1
      PROVE  Shape(t, a, b, d)
  <2>1. Len(t) = a + b + d
    BY <1>1, <1>2, <1>3
  <2>2. ASSUME NEW k \in 1..(n - 1)
        PROVE  t[k].kind = IF k <= a THEN "child" ELSE IF k <= a + b THEN "index" ELSE "robots"
    <3>1. k + 1 \in 1..n /\ t[k] = s[k + 1]
      BY <1>1
    <3>2. t[k].kind = IF k + 1 <= c THEN "child"
                      ELSE IF k + 1 <= c + i THEN "index" ELSE "robots"
      BY <1>2, <3>1
    <3>3. /\ k + 1 <= c <=> k <= a
          /\ ~(k + 1 <= c) => (k + 1 <= c + i <=> k <= a + b)
      BY <1>1, <1>3
    <3> QED BY <3>2, <3>3
  <2> QED BY <1>1, <2>1, <2>2 DEF Shape
<1>4. CASE c > 0
  <2>1. c - 1 \in Nat /\ c = (c - 1) + 1
    BY <1>4
  <2>2. s[1].kind = "child"
    BY <1>1, <1>2, <1>4
  <2> QED BY <1>1, <1>3, <2>1, <2>2 DEF t
<1>5. CASE c = 0 /\ i > 0
  <2>1. i - 1 \in Nat /\ i = (i - 1) + 1
    BY <1>5
  <2>2. s[1].kind = "index"
    BY <1>1, <1>2, <1>5
  <2> QED BY <1>1, <1>3, <1>5, <2>1, <2>2 DEF t
<1>6. CASE c = 0 /\ i = 0
  <2>1. r - 1 \in Nat /\ r = (r - 1) + 1
    BY <1>1, <1>2, <1>6
  <2>2. s[1].kind = "robots"
    BY <1>1, <1>2, <1>6
  <2> QED BY <1>1, <1>3, <1>6, <2>1, <2>2 DEF t
<1> QED BY <1>4, <1>5, <1>6

(***************************************************************************)
(* Documents of one kind may be put before others of a later kind.         *)
(***************************************************************************)
LEMMA PrefixShape ==
    ASSUME NEW s \in Seq(Documents), NEW t \in Seq(Documents), NEW kind,
           \A k \in 1..Len(s) : s[k].kind = kind,
           NEW a \in Nat, NEW b \in Nat, NEW d \in Nat, Shape(t, a, b, d)
    PROVE  /\ kind = "child" => Shape(s \o t, Len(s) + a, b, d)
           /\ kind = "index" /\ a = 0 => Shape(s \o t, 0, Len(s) + b, d)
           /\ kind = "robots" /\ a = 0 /\ b = 0 => Shape(s \o t, 0, 0, Len(s) + d)
<1> DEFINE u == s \o t
           n == Len(s)
           m == Len(t)
<1>1. /\ n \in Nat /\ m \in Nat /\ Len(u) = n + m
      /\ \A k \in 1..(n + m) : u[k] = IF k <= n THEN s[k] ELSE t[k - n]
  BY ConcatProperties, LenProperties
<1>2. /\ m = a + b + d
      /\ \A k \in 1..m :
            t[k].kind = IF k <= a THEN "child" ELSE IF k <= a + b THEN "index" ELSE "robots"
  BY DEF Shape
<1>3. \A k \in 1..n : s[k].kind = kind
  OBVIOUS
<1> HIDE DEF u, n, m
<1>4. ASSUME NEW k \in 1..(n + m)
      PROVE  u[k].kind = IF k <= n THEN kind
                         ELSE IF k - n <= a THEN "child"
                         ELSE IF k - n <= a + b THEN "index" ELSE "robots"
  <2>1. CASE k <= n
    BY <1>1, <1>3, <2>1
  <2>2. CASE ~(k <= n)
    <3>1. k - n \in 1..m
      BY <1>1, <2>2
    <3> QED BY <1>1, <1>2, <2>2, <3>1
  <2> QED BY <2>1, <2>2
<1>5. CASE kind = "child"
  <2>1. Len(u) = (n + a) + b + d
    BY <1>1, <1>2
  <2>2. \A k \in 1..(n + m) :
           u[k].kind = IF k <= n + a THEN "child"
                       ELSE IF k <= (n + a) + b THEN "index" ELSE "robots"
    BY <1>1, <1>4, <1>5
  <2> QED BY <1>1, <1>5, <2>1, <2>2 DEF Shape, u, n
<1>6. CASE kind = "index" /\ a = 0
  <2>1. Len(u) = 0 + (n + b) + d
    BY <1>1, <1>2, <1>6
  <2>2. \A k \in 1..(n + m) :
           u[k].kind = IF k <= 0 THEN "child"
                       ELSE IF k <= 0 + (n + b) THEN "index" ELSE "robots"
    BY <1>1, <1>4, <1>6
  <2> QED BY <1>1, <1>6, <2>1, <2>2 DEF Shape, u, n
<1>7. CASE kind = "robots" /\ a = 0 /\ b = 0
  <2>1. Len(u) = 0 + 0 + (n + d)
    BY <1>1, <1>2, <1>7
  <2>2. \A k \in 1..(n + m) :
           u[k].kind = IF k <= 0 THEN "child" ELSE IF k <= 0 + 0 THEN "index" ELSE "robots"
    BY <1>1, <1>4, <1>7
  <2> QED BY <1>1, <1>7, <2>1, <2>2 DEF Shape, u, n
<1> QED BY <1>5, <1>6, <1>7

(***************************************************************************)
(* A document that is done with takes no more GETs than it was reckoned:   *)
(* one for itself, after those of its redirects.                           *)
(***************************************************************************)
LEMMA DoneSpends ==
    ASSUME TypeOK, NEW n \in Nat, Within(n), NEW m \in Nat, m < n,
           TypeOK', gets' <= gets + 1
    PROVE  Within(m)'
<1> DEFINE M == MaxRedirects + 1
<1>1. M \in Nat /\ MaxRedirects \in Nat /\ MostGets \in Nat
  BY Limits
<1>2. gets \in Nat /\ gets' \in Nat /\ Hops \in Nat /\ Hops' \in Nat /\ Hops + 1 <= M
  <2>1. ASSUME NEW s \in Seq(Documents), s # <<>>
        PROVE  Head(s).hops \in Nat /\ Head(s).hops <= MaxRedirects
    <3>1. Head(s) \in Documents
      BY <2>1
    <3> QED BY <1>1, <3>1 DEF Documents
  <2>2. Hops \in Nat /\ Hops <= MaxRedirects
    BY <1>1, <2>1 DEF TypeOK, Hops
  <2>3. Hops' \in Nat
    BY <2>1 DEF TypeOK, Hops
  <2> HIDE DEF Hops
  <2> QED BY <1>1, <2>2, <2>3 DEF TypeOK
<1>3. gets + M * n <= MostGets + Hops
  BY DEF Within
<1>4. \A x, y, z \in Nat : x * (y + z) = x * y + x * z /\ x * y \in Nat /\ x * 1 = x
  OBVIOUS
<1>5. n - (m + 1) \in Nat /\ n = (m + 1) + (n - (m + 1))
  OBVIOUS
<1> HIDE DEF M
<1>6. M * n = M * m + M + M * (n - (m + 1)) /\ M * (n - (m + 1)) \in Nat /\ M * m \in Nat
  <2>1. M * ((m + 1) + (n - (m + 1))) = M * (m + 1) + M * (n - (m + 1))
    BY <1>1, <1>4, <1>5
  <2>2. M * (m + 1) = M * m + M
    BY <1>1, <1>4
  <2> QED BY <1>1, <1>4, <1>5, <2>1, <2>2
<1>7. M * n >= M * m + M
  <2>1. \A p, q, x, y \in Nat : x = p + q + y => x >= p + q
    OBVIOUS
  <2>2. M * n \in Nat
    BY <1>1, <1>4
  <2> QED BY <1>1, <1>6, <2>1, <2>2
<1>8. gets' + M * m <= MostGets + Hops'
  <2>1. \A g, h, p, q, x, y, w \in Nat :
            g + x <= w + h /\ h + 1 <= p /\ x >= y + p /\ q <= g + 1 => q + y <= w
    OBVIOUS
  <2>2. gets' + M * m <= MostGets
    <3>1. M * n \in Nat
      BY <1>1, <1>4
    <3> QED BY <1>1, <1>2, <1>3, <1>6, <1>7, <2>1, <3>1
  <2>3. \A x, y, z \in Nat : x <= y => x <= y + z
    OBVIOUS
  <2>4. gets' + M * m \in Nat
    BY <1>2, <1>6
  <2> QED BY <1>1, <1>2, <2>2, <2>3, <2>4
<1> QED BY <1>8 DEF Within, M, MostGets

(***************************************************************************)
(* A body names a few documents, of the kind below that of its own.        *)
(***************************************************************************)
LEMMA NestedKinds ==
    ASSUME NEW d \in Documents, NEW n \in Nat, NEW names \in [1..n -> Named],
           Nested(d, names) # <<>>
    PROVE  /\ Len(Nested(d, names)) \in 0..MaxNested
           /\ \/ /\ d.kind = "robots"
                 /\ \A k \in 1..Len(Nested(d, names)) : Nested(d, names)[k].kind = "index"
              \/ /\ d.kind = "index"
                 /\ \A k \in 1..Len(Nested(d, names)) : Nested(d, names)[k].kind = "child"
<1>1. ASSUME NEW kind \in {"index", "child"}
      PROVE  /\ Len(Few(names, kind)) \in 0..MaxNested
             /\ \A k \in 1..Len(Few(names, kind)) : Few(names, kind)[k].kind = kind
  <2> DEFINE m == Lesser(Len(names), MaxNested)
  <2>1. m \in 0..MaxNested
    BY Limits DEF Lesser
  <2>2. Few(names, kind) = [k \in 1..m |-> Document(names[k], kind)]
    BY DEF Few
  <2> HIDE DEF m
  <2>3. Len(Few(names, kind)) = m
    BY <2>1, <2>2
  <2> QED BY <2>1, <2>2, <2>3 DEF Document
<1>2. CASE d.kind = "robots"
  BY <1>1, <1>2 DEF Nested
<1>3. CASE d.kind = "index"
  BY <1>1, <1>3 DEF Nested
<1>4. CASE d.kind = "child"
  BY <1>4 DEF Nested
<1> QED BY <1>2, <1>3, <1>4 DEF Documents

(***************************************************************************)
(* A document that is skipped, had in vain or read leaves less to read.    *)
(***************************************************************************)
LEMMA DoneEnough ==
    ASSUME TypeOK, TypeOK', Enough, Reading,
           NEW documents \in Seq(Documents), todo' = documents \o Tail(todo),
           UNCHANGED <<stage, source>>, gets' <= gets + 1,
           \/ documents = <<>>
           \/ /\ Len(documents) \in 0..MaxNested
              /\ \/ /\ Head(todo).kind = "robots"
                    /\ \A k \in 1..Len(documents) : documents[k].kind = "index"
                 \/ /\ Head(todo).kind = "index"
                    /\ \A k \in 1..Len(documents) : documents[k].kind = "child"
    PROVE  Enough'
<1>1. PICK c, i, r, n \in Nat :
          Shape(todo, c, i, r) /\ Size(c, i, r) + Ahead <= n /\ Within(n)
  BY DEF Enough
<1>2. todo \in Seq(Documents) /\ todo # <<>> /\ Tail(todo) \in Seq(Documents)
  BY DEF TypeOK, Reading
<1>3. PICK a, b, d \in Nat :
          /\ Shape(Tail(todo), a, b, d)
          /\ \/ Head(todo).kind = "child" /\ c = a + 1 /\ i = b /\ r = d
             \/ Head(todo).kind = "index" /\ c = 0 /\ a = 0 /\ i = b + 1 /\ r = d
             \/ Head(todo).kind = "robots" /\ c = 0 /\ a = 0 /\ i = 0 /\ b = 0 /\ r = d + 1
  BY <1>1, <1>2, RestShape
<1>4. Ahead \in Nat /\ Ahead' = Ahead
  BY Limits DEF Ahead
<1>5. ASSUME NEW x \in Nat, NEW y \in Nat, NEW z \in Nat,
             Shape(todo', x, y, z), Size(x, y, z) < Size(c, i, r)
      PROVE  Enough'
  <2>1. Size(x, y, z) \in Nat /\ Size(c, i, r) \in Nat
    BY Sizes
  <2>2. n - 1 \in Nat /\ n - 1 < n /\ Size(x, y, z) + Ahead <= n - 1
    BY <1>1, <1>4, <1>5, <2>1
  <2>3. Within(n - 1)'
    BY <1>1, <2>2, DoneSpends
  <2>4. Size(x, y, z)' = Size(x, y, z)
    BY DEF Size, OfSitemap, OfRobots
  <2>5. Shape(todo, x, y, z)'
    BY <1>5 DEF Shape
  <2>6. (stage = "asked" => todo = <<>>)'
    BY DEF Reading
  <2>7. (Size(x, y, z) + Ahead <= n - 1)'
    BY <1>4, <2>2, <2>4
  <2> QED BY <2>2, <2>3, <2>5, <2>6, <2>7 DEF Enough
<1>6. CASE documents = <<>>
  <2>1. todo' = Tail(todo)
    BY <1>2, <1>6
  <2>2. Size(a, b, d) < Size(c, i, r)
    <3>1. Size(a, b, d) \in Nat
      BY Sizes
    <3>2. CASE c = a + 1 /\ i = b /\ r = d
      BY <3>1, <3>2, Sizes
    <3>3. CASE c = 0 /\ a = 0 /\ i = b + 1 /\ r = d
      BY <3>3, Sizes, Limits
    <3>4. CASE c = 0 /\ a = 0 /\ i = 0 /\ b = 0 /\ r = d + 1
      BY <3>4, Sizes, Limits
    <3> QED BY <1>3, <3>2, <3>3, <3>4
  <2> QED BY <1>3, <1>5, <2>1, <2>2
<1>7. CASE /\ Len(documents) \in 0..MaxNested /\ Head(todo).kind = "robots"
           /\ \A k \in 1..Len(documents) : documents[k].kind = "index"
  <2>1. a = 0 /\ b = 0 /\ c = 0 /\ i = 0 /\ r = d + 1
    BY <1>3, <1>7
  <2>2. Len(documents) \in Nat /\ Len(documents) + 0 = Len(documents)
    BY <1>7, LenProperties
  <2>3. Shape(todo', 0, Len(documents), d)
    BY <1>2, <1>3, <1>7, <2>1, <2>2, PrefixShape
  <2>4. Size(0, Len(documents), d) < Size(0, 0, d + 1)
    BY <1>7, Sizes
  <2> QED BY <1>5, <2>1, <2>2, <2>3, <2>4
<1>8. CASE /\ Len(documents) \in 0..MaxNested /\ Head(todo).kind = "index"
           /\ \A k \in 1..Len(documents) : documents[k].kind = "child"
  <2>1. a = 0 /\ c = 0 /\ i = b + 1 /\ r = d
    BY <1>3, <1>8
  <2>2. Len(documents) \in Nat /\ Len(documents) + 0 = Len(documents)
    BY <1>8, LenProperties
  <2>3. Shape(todo', Len(documents), b, d)
    BY <1>2, <1>3, <1>8, <2>1, <2>2, PrefixShape
  <2>4. Size(Len(documents), b, d) < Size(0, b + 1, d)
    BY <1>8, Sizes
  <2> QED BY <1>5, <2>1, <2>2, <2>3, <2>4
<1> QED BY <1>6, <1>7, <1>8

(***************************************************************************)
(* A redirect leaves as much to read, and took one of the GETs that its    *)
(* document was reckoned to take.                                          *)
(***************************************************************************)
LEMMA HopEnough ==
    ASSUME TypeOK, TypeOK', Enough, Reading, NEW u \in Named,
           todo' = <<[Head(todo) EXCEPT !.url = u, !.hops = @ + 1]>> \o Tail(todo),
           Head(todo).hops # MaxRedirects,
           UNCHANGED <<stage, source>>, gets' <= gets + 1
    PROVE  Enough'
<1> DEFINE e == [Head(todo) EXCEPT !.url = u, !.hops = @ + 1]
           one == <<e>>
<1>1. PICK c, i, r, n \in Nat :
          Shape(todo, c, i, r) /\ Size(c, i, r) + Ahead <= n /\ Within(n)
  BY DEF Enough
<1>2. todo \in Seq(Documents) /\ todo # <<>> /\ Tail(todo) \in Seq(Documents)
  BY DEF TypeOK, Reading
<1>3. PICK a, b, d \in Nat :
          /\ Shape(Tail(todo), a, b, d)
          /\ \/ Head(todo).kind = "child" /\ c = a + 1 /\ i = b /\ r = d
             \/ Head(todo).kind = "index" /\ c = 0 /\ a = 0 /\ i = b + 1 /\ r = d
             \/ Head(todo).kind = "robots" /\ c = 0 /\ a = 0 /\ i = 0 /\ b = 0 /\ r = d + 1
  BY <1>1, <1>2, RestShape
<1>4. Head(todo) \in Documents /\ e \in Documents
  <2>1. one \in Seq(Documents)
    BY HeadType
  <2>2. e = one[1] /\ Len(one) = 1
    OBVIOUS
  <2> HIDE DEF e
  <2>3. e \in Documents
    BY <2>1, <2>2, ElementOfSeq
  <2> QED BY <2>3, HeadType DEF e
<1>5. e.kind = Head(todo).kind /\ e.hops = Head(todo).hops + 1
  BY <1>4 DEF Documents
<1> HIDE DEF e
<1>6. /\ one \in Seq(Documents) /\ Len(one) = 1
      /\ \A k \in 1..Len(one) : one[k].kind = Head(todo).kind
  BY <1>4, <1>5
<1>7. todo' = one \o Tail(todo)
  BY DEF e
<1>8. todo' # <<>> /\ Head(todo') = e
  BY <1>2, <1>7
<1> HIDE DEF one
<1>9. Shape(todo', c, i, r)
  <2>1. ASSUME NEW kind, \A k \in 1..Len(one) : one[k].kind = kind
        PROVE  /\ kind = "child" => Shape(one \o Tail(todo), Len(one) + a, b, d)
               /\ kind = "index" /\ a = 0 => Shape(one \o Tail(todo), 0, Len(one) + b, d)
               /\ kind = "robots" /\ a = 0 /\ b = 0 =>
                      Shape(one \o Tail(todo), 0, 0, Len(one) + d)
    BY <1>2, <1>3, <1>6, <2>1, PrefixShape
  <2>2. 1 + a = a + 1 /\ 1 + b = b + 1 /\ 1 + d = d + 1
    OBVIOUS
  <2> QED BY <1>3, <1>6, <1>7, <2>1, <2>2
<1>10. Within(n)'
  <2>1. Hops = Head(todo).hops /\ Hops' = Head(todo).hops + 1 /\ Head(todo).hops \in Nat
    BY <1>2, <1>4, <1>5, <1>8 DEF Hops, Documents
  <2> DEFINE x == (MaxRedirects + 1) * n
  <2>2. x \in Nat /\ MostGets \in Nat /\ gets \in Nat /\ gets' \in Nat
    <3>1. \A y, z \in Nat : (y + 1) * z \in Nat
      OBVIOUS
    <3>2. x \in Nat
      BY <3>1, Limits
    <3>3. MostGets \in Nat
      BY <3>1, Limits
    <3> HIDE DEF x
    <3> QED BY <3>2, <3>3 DEF TypeOK
  <2>3. gets + x <= MostGets + Hops
    BY <1>1 DEF Within
  <2> HIDE DEF x
  <2>4. gets' + x <= MostGets + Hops'
    <3>1. \A g, k, y, w, p \in Nat : g + y <= w + p /\ k <= g + 1 => k + y <= w + (p + 1)
      OBVIOUS
    <3> QED BY <2>1, <2>2, <2>3, <3>1
  <2> QED BY <2>4 DEF Within, x, MostGets
<1>11. (Size(c, i, r) + Ahead <= n)'
  <2>1. Ahead' = Ahead
    BY DEF Ahead, OfSitemap, OfRobots
  <2> QED BY <1>1, <2>1 DEF Size, OfSitemap, OfRobots
<1>12. Shape(todo, c, i, r)' /\ (stage = "asked" => todo = <<>>)'
  BY <1>9 DEF Shape, Reading
<1> QED BY <1>10, <1>11, <1>12 DEF Enough

(***************************************************************************)
(* The first document of a source was reckoned with before.                *)
(***************************************************************************)
LEMMA SourceEnough ==
    ASSUME TypeOK, NEW path, NEW kind \in {"index", "robots"}, NEW n \in Nat,
           todo = <<>>, Within(n), UNCHANGED gets,
           todo' = <<Document(path, kind)>>, stage' # "asked",
           (IF kind = "index" THEN OfSitemap ELSE OfRobots) + Ahead' <= n
    PROVE  Enough'
<1>1. todo' # <<>> /\ Len(todo') = 1 /\ todo'[1].kind = kind /\ Head(todo').hops = 0
  BY DEF Document
<1>2. Hops' = Hops
  BY <1>1 DEF Hops
<1>3. Within(n)'
  BY <1>2 DEF Within, MostGets
<1>4. PICK i, r \in Nat :
          /\ Shape(todo', 0, i, r)
          /\ Size(0, i, r) = IF kind = "index" THEN OfSitemap ELSE OfRobots
  <2>1. CASE kind = "index"
    <3>1. Shape(todo', 0, 1, 0)
      BY <1>1, <2>1 DEF Shape
    <3> QED BY <2>1, <3>1, Sizes
  <2>2. CASE kind = "robots"
    <3>1. Shape(todo', 0, 0, 1)
      BY <1>1, <2>2 DEF Shape
    <3> QED BY <2>2, <3>1, Sizes
  <2> QED BY <2>1, <2>2
<1>5. Shape(todo, 0, i, r)' /\ (stage = "asked" => todo = <<>>)'
  BY <1>4 DEF Shape
<1>6. Size(0, i, r) + Ahead' <= n
  BY <1>4
<1>7. (Size(0, i, r) + Ahead <= n)'
  BY <1>6 DEF Size, OfSitemap, OfRobots
<1> QED BY <1>3, <1>5, <1>7 DEF Enough

(***************************************************************************)
(* A step that leaves the documents as they are and no more sources ahead. *)
(***************************************************************************)
LEMMA QuietEnough ==
    ASSUME TypeOK, Enough, UNCHANGED <<todo, gets>>, Ahead' \in Nat, Ahead' <= Ahead,
           UNCHANGED stage \/ stage' # "asked"
    PROVE  Enough'
<1>1. PICK c, i, r, n \in Nat :
          Shape(todo, c, i, r) /\ Size(c, i, r) + Ahead <= n /\ Within(n)
  BY DEF Enough
<1>2. Ahead \in Nat /\ Size(c, i, r) \in Nat
  BY AheadType, Sizes
<1>3. Size(c, i, r) + Ahead' <= n
  BY <1>1, <1>2
<1>4. (Size(c, i, r) + Ahead <= n)'
  BY <1>3 DEF Size, OfSitemap, OfRobots
<1>5. Within(n)'
  BY <1>1 DEF Within, Hops, MostGets
<1>6. Shape(todo, c, i, r)' /\ (stage = "asked" => todo = <<>>)'
  BY <1>1 DEF Shape, Enough
<1> QED BY <1>4, <1>5, <1>6 DEF Enough

(***************************************************************************)
(* Every step leaves enough GETs for the documents that are left.          *)
(***************************************************************************)
LEMMA StepEnough == IInv /\ IInv' /\ Enough /\ [Next]_vars => Enough'
<1> SUFFICES ASSUME IInv, IInv', Enough, [Next]_vars PROVE Enough'
  OBVIOUS
<1>0. TypeOK /\ TypeOK' /\ InTurn /\ InTurn'
  BY DEF IInv
<1>1. Ahead \in Nat /\ Ahead' \in Nat /\ OfSitemap \in Nat /\ OfRobots \in Nat
  BY Limits DEF Ahead
<1>2. MostGets \in Nat /\ gets \in Nat
  BY <1>0, Limits DEF TypeOK
<1>3. ASSUME Reading, NEW found, NEW documents \in Seq(Documents), Done(found, documents),
             Get(Head(todo)) \/ UNCHANGED gets
      PROVE  /\ gets' <= gets + 1 /\ UNCHANGED <<stage, source>>
             /\ todo' = documents \o Tail(todo)
  BY <1>2, <1>3 DEF Get, Lesser, Done
<1>4. ASSUME todo = <<>> PROVE \E n \in Nat : Ahead <= n /\ Within(n)
  <2>1. PICK c, i, r, n \in Nat :
            Shape(todo, c, i, r) /\ Size(c, i, r) + Ahead <= n /\ Within(n)
    BY DEF Enough
  <2>2. c = 0 /\ i = 0 /\ r = 0
    BY <1>4, <2>1 DEF Shape
  <2>3. Size(c, i, r) + Ahead = Ahead
    BY <1>1, <2>2, Sizes
  <2> QED BY <2>1, <2>3
<1>5. CASE Begin
  <2>1. stage = "asked" /\ todo = <<>> /\ UNCHANGED <<source, gets>>
    BY <1>5 DEF Begin, Enough
  <2>2. stage' \in {"reading", "refused"}
    BY <1>5 DEF Begin
  <2>3. Ahead = OfSitemap + OfRobots /\ Ahead' <= OfRobots
    BY <1>1, <2>1, <2>2 DEF Ahead
  <2>4. CASE todo' = <<Document(_origin("sitemap"), "index")>>
    <3>1. PICK n \in Nat : Ahead <= n /\ Within(n)
      BY <1>4, <2>1
    <3>2. OfSitemap + Ahead' <= n
      <4>1. \A x, y, z \in Nat : z <= y /\ x + y <= n => x + z <= n
        OBVIOUS
      <4> QED BY <1>1, <2>3, <3>1, <4>1
    <3>3. stage' # "asked"
      BY <2>2
    <3> QED BY <1>0, <2>1, <2>4, <3>1, <3>2, <3>3, SourceEnough
  <2>5. CASE todo' = todo
    <3>1. Ahead' <= Ahead /\ stage' # "asked"
      BY <1>1, <2>2, <2>3
    <3> QED BY <1>0, <1>1, <2>1, <2>5, <3>1, QuietEnough
  <2> QED BY <1>5, <2>4, <2>5 DEF Begin
<1>6. CASE Skip \/ Unusable
  <2>1. Reading /\ Done({}, <<>>) /\ (Get(Head(todo)) \/ UNCHANGED gets)
    BY <1>6 DEF Skip, Unusable
  <2>2. <<>> \in Seq(Documents)
    OBVIOUS
  <2> QED BY <1>0, <1>3, <2>1, <2>2, DoneEnough
<1>7. CASE Redirected
  <2>1. Reading /\ Get(Head(todo))
    BY <1>7 DEF Redirected
  <2>2. PICK u \in Named :
            IF Head(todo).hops = MaxRedirects THEN Done({}, <<>>)
            ELSE Done({}, <<[Head(todo) EXCEPT !.url = u, !.hops = @ + 1]>>)
    BY <1>7 DEF Redirected
  <2>3. CASE Head(todo).hops = MaxRedirects
    <3>1. Done({}, <<>>) /\ <<>> \in Seq(Documents)
      BY <2>2, <2>3
    <3> QED BY <1>0, <1>3, <2>1, <3>1, DoneEnough
  <2>4. CASE Head(todo).hops # MaxRedirects
    <3> DEFINE next == <<[Head(todo) EXCEPT !.url = u, !.hops = @ + 1]>>
    <3>1. Done({}, next) /\ next \in Seq(Documents)
      BY <1>0, <2>1, <2>2, <2>4, HeadType
    <3> HIDE DEF next
    <3>2. gets' <= gets + 1 /\ UNCHANGED <<stage, source>> /\ todo' = next \o Tail(todo)
      BY <1>3, <2>1, <3>1
    <3> QED BY <1>0, <2>1, <2>4, <3>2, HopEnough DEF next
  <2> QED BY <2>3, <2>4
<1>8. CASE Read
  <2>1. Reading /\ Get(Head(todo)) /\ Head(todo) \in Documents
    BY <1>0, <1>8, HeadType DEF Read
  <2>2. PICK found \in SUBSET Links, names \in SeqOf(Named, MaxNested + 1) :
            Done(IF Head(todo).kind = "robots" THEN {} ELSE found, Nested(Head(todo), names))
    BY <1>8 DEF Read
  <2>3. PICK n \in Nat : names \in [1..n -> Named]
    BY Limits DEF SeqOf
  <2> DEFINE documents == Nested(Head(todo), names)
  <2>4. documents \in Seq(Documents)
    BY <2>1, <2>3, NestedType
  <2>5. \/ documents = <<>>
        \/ /\ Len(documents) \in 0..MaxNested
           /\ \/ /\ Head(todo).kind = "robots"
                 /\ \A k \in 1..Len(documents) : documents[k].kind = "index"
              \/ /\ Head(todo).kind = "index"
                 /\ \A k \in 1..Len(documents) : documents[k].kind = "child"
    BY <2>1, <2>3, NestedKinds
  <2> HIDE DEF documents
  <2>6. gets' <= gets + 1 /\ UNCHANGED <<stage, source>> /\ todo' = documents \o Tail(todo)
    BY <1>3, <2>1, <2>2, <2>4 DEF documents
  <2> QED BY <1>0, <2>1, <2>4, <2>5, <2>6, DoneEnough
<1>9. CASE NextSource
  <2>1. stage = "reading" /\ todo = <<>> /\ UNCHANGED gets
    BY <1>9 DEF NextSource
  <2>2. CASE stage' = "answered" /\ UNCHANGED <<source, todo>>
    BY <1>0, <1>1, <2>1, <2>2, QuietEnough DEF Ahead
  <2>3. CASE /\ source = "sitemap" /\ source' = "robots" /\ UNCHANGED stage
             /\ todo' = <<Document(_origin("robots"), "robots")>>
    <3>1. Ahead = OfRobots /\ Ahead' = 0 /\ stage' # "asked"
      BY <2>1, <2>3 DEF Ahead
    <3>2. PICK n \in Nat : Ahead <= n /\ Within(n)
      BY <1>4, <2>1
    <3>3. OfRobots + Ahead' <= n
      BY <1>1, <3>1, <3>2
    <3> QED BY <1>0, <2>1, <2>3, <3>1, <3>2, <3>3, SourceEnough
  <2>4. CASE source' = "page" /\ stage' = "crawling" /\ UNCHANGED todo
    <3>1. Ahead' = 0 /\ stage' # "asked"
      BY <2>4 DEF Ahead
    <3>2. Ahead' <= Ahead
      BY <1>1, <3>1
    <3> QED BY <1>0, <1>1, <2>1, <2>4, <3>1, <3>2, QuietEnough
  <2> QED BY <1>9, <2>2, <2>3, <2>4 DEF NextSource, Exhausted
<1>10. CASE Crawled
  <2>1. /\ UNCHANGED <<todo, gets, source>> /\ stage = "crawling"
        /\ stage' \in {"answered", "failed"}
    BY <1>10 DEF Crawled
  <2>2. Ahead' = Ahead /\ stage' # "asked"
    BY <2>1 DEF Ahead
  <2>3. Ahead' <= Ahead
    BY <1>1, <2>2
  <2> QED BY <1>0, <1>1, <2>1, <2>2, <2>3, QuietEnough
<1>11. CASE UNCHANGED vars
  <2>1. UNCHANGED <<todo, gets, stage, source>>
    BY <1>11 DEF vars
  <2>2. Ahead' <= Ahead
    BY <1>1, <2>1 DEF Ahead
  <2> QED BY <1>0, <1>1, <2>1, <2>2, QuietEnough
<1>12. CASE Unparsable
  <2>1. UNCHANGED <<todo, gets, source>> /\ stage = "reading" /\ stage' = "failed"
    BY <1>12 DEF Unparsable, Reading
  <2>2. Ahead' = Ahead /\ stage' # "asked"
    BY <2>1 DEF Ahead
  <2>3. Ahead' <= Ahead
    BY <1>1, <2>2
  <2> QED BY <1>0, <1>1, <2>1, <2>2, <2>3, QuietEnough
<1> QED BY <1>5, <1>6, <1>7, <1>8, <1>9, <1>10, <1>11, <1>12 DEF Next

(***************************************************************************)
(* Whatever documents a site serves, however they name and redirect to     *)
(* each other, a request makes no more GETs than its limits come to, for   *)
(* any limits.                                                             *)
(***************************************************************************)
THEOREM RequestsEnd == Spec => []RequestsAreBounded
<1>1. Init => Enough
  <2> SUFFICES ASSUME Init PROVE Enough
    OBVIOUS
  <2>1. todo = <<>> /\ stage = "asked" /\ gets = 0
    BY DEF Init
  <2>2. Shape(todo, 0, 0, 0)
    BY <2>1 DEF Shape
  <2>3. Size(0, 0, 0) + Ahead = OfSitemap + OfRobots
    BY <2>1, Sizes, Limits DEF Ahead
  <2>4. MostGets \in Nat /\ Hops = 0
    BY <2>1, Limits DEF Hops
  <2>5. Within(OfSitemap + OfRobots)
    <3>1. Within(OfSitemap + OfRobots) <=> 0 + MostGets <= MostGets + 0
      BY <2>1, <2>4, Limits DEF Within
    <3> HIDE DEF MostGets
    <3> QED BY <2>4, <3>1
  <2>6. OfSitemap + OfRobots \in Nat /\ Size(0, 0, 0) + Ahead <= OfSitemap + OfRobots
    BY <2>3, AheadType
  <2> QED BY <2>1, <2>2, <2>5, <2>6 DEF Enough
<1>2. IInv /\ Enough => RequestsAreBounded
  <2> SUFFICES ASSUME IInv, Enough PROVE gets <= MostGets
    BY DEF RequestsAreBounded
  <2>1. PICK c, i, r, n \in Nat :
            Shape(todo, c, i, r) /\ Size(c, i, r) + Ahead <= n /\ Within(n)
    BY DEF Enough
  <2>2. /\ MostGets \in Nat /\ gets \in Nat /\ MaxRedirects + 1 \in Nat /\ MaxRedirects \in Nat
        /\ Size(c, i, r) \in Nat /\ Ahead \in Nat
    <3>1. \A x, y, z \in Nat : (x + 1) * (y + z) \in Nat
      OBVIOUS
    <3>2. MostGets \in Nat
      BY <3>1, Limits
    <3>3. MaxRedirects + 1 \in Nat /\ MaxRedirects \in Nat
      BY Limits
    <3> QED BY <3>2, <3>3, AheadType, Sizes DEF IInv, TypeOK
  <2> DEFINE M == MaxRedirects + 1
  <2>3. M * n \in Nat
    BY <2>2
  <2>4. gets + M * n <= MostGets + Hops
    BY <2>1 DEF Within
  <2>5. CASE todo = <<>>
    <3>1. Hops = 0
      BY <2>5 DEF Hops
    <3> HIDE DEF M
    <3> QED BY <2>2, <2>3, <2>4, <3>1
  <2>6. CASE todo # <<>>
    <3>1. Head(todo) \in Documents
      BY <2>6 DEF IInv, TypeOK
    <3>2. Hops \in Nat /\ Hops <= MaxRedirects
      BY <2>2, <2>6, <3>1 DEF Hops, Documents
    <3>3. n >= 1
      <4>1. Len(todo) = c + i + r /\ Len(todo) >= 1
        <5>1. todo \in Seq(Documents)
          BY DEF IInv, TypeOK
        <5> QED BY <2>1, <2>6, <5>1, EmptySeq, LenProperties DEF Shape
      <4>2. c >= 1 \/ i >= 1 \/ r >= 1
        BY <4>1
      <4>3. Size(c, i, r) >= 1
        <5>1. \A x, y \in Nat : y >= 1 /\ x >= 1 => x * y >= 1
          OBVIOUS
        <5>2. OfSitemap \in Nat /\ OfSitemap >= 1 /\ OfRobots \in Nat /\ OfRobots >= 1
          BY Limits
        <5>3. OfSitemap * i \in Nat /\ OfRobots * r \in Nat
          BY <5>2
        <5>4. /\ i >= 1 => OfSitemap * i >= 1
              /\ r >= 1 => OfRobots * r >= 1
          BY <5>1, <5>2
        <5> QED BY <4>2, <5>3, <5>4 DEF Size
      <4> QED BY <2>1, <2>2, <4>3
    <3>4. M * n >= M
      <4>1. n - 1 \in Nat /\ n = 1 + (n - 1)
        BY <3>3
      <4>2. \A x, y \in Nat : x * (1 + y) = x + x * y /\ x * y \in Nat
        OBVIOUS
      <4> HIDE DEF M
      <4>3. M * (1 + (n - 1)) = M + M * (n - 1) /\ M * (n - 1) \in Nat /\ M \in Nat
        BY <2>2, <4>1, <4>2 DEF M
      <4> QED BY <4>1, <4>3
    <3> QED
      <4>1. \A g, x, w, h, p \in Nat : g + x <= w + h /\ x >= p + 1 /\ h <= p => g <= w
        OBVIOUS
      <4> QED BY <2>2, <2>3, <2>4, <3>2, <3>4, <4>1
  <2> QED BY <2>5, <2>6
<1> QED BY <1>1, <1>2, StepEnough, Invariance, PTL DEF Spec
=============================================================================
