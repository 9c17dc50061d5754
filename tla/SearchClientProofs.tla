------------------------- MODULE SearchClientProofs -------------------------
(***************************************************************************)
(* Proofs about SearchClient, for any calls, queries, TTL and size of the  *)
(* cache: one fetch per query at a time, no answer older than the TTL, and *)
(* no fetch while the cache has one that is good; the types of the cache.  *)
(***************************************************************************)
EXTENDS SearchClient, SequenceTheorems, TLAPS

\* The part of TypeOK the argument needs: times of any size, and not the order
\* of the cache, which decides what is evicted but not what is fresh.
Types ==
    /\ now \in Nat
    /\ pc \in [Calls -> {"idle", "waiting", "fetching"} \cup Ended]
    /\ query \in [Calls -> Queries]
    /\ asked \in [Calls -> Nat]
    /\ flight \in [Calls -> Calls \cup {None}]
    /\ future \in [Calls -> {"none", "pending", "result", "exception", "cancelled"}]
    /\ answer \in [Calls -> Nat]
    /\ inflight \in [Queries -> Calls \cup {None}]
    /\ fetched \in [Queries -> Nat]

\* A call has a future exactly from the moment it leads a flight.
Led ==
    \A c \in Calls :
        /\ pc[c] = "fetching" <=> future[c] = "pending"
        /\ pc[c] \in {"idle", "waiting"} => future[c] = "none"

\* The registry names the one call that fetches a query, and no other.
Registered ==
    /\ \A c \in Calls : pc[c] = "fetching" => inflight[query[c]] = c
    /\ \A q \in Queries : inflight[q] # None =>
           pc[inflight[q]] = "fetching" /\ query[inflight[q]] = q

\* A flight that was joined and has an answer got it after it was joined.
JoinedBefore ==
    \A c \in Calls :
        /\ asked[c] <= now
        /\ pc[c] = "waiting" =>
             /\ flight[c] \in Calls
             /\ future[flight[c]] = "result" => answer[flight[c]] >= asked[c]

IInv == Types /\ Led /\ Registered /\ JoinedBefore /\ AnswersAreFresh

(***************************************************************************)
(* The invariant holds before the first search.                            *)
(***************************************************************************)
LEMMA InitHolds == Init => IInv
  BY DEF Init, IInv, Types, Led, Registered, JoinedBefore, AnswersAreFresh, Ended

(***************************************************************************)
(* A turn of the loop of search keeps it: by a call that is new, or by a   *)
(* waiter whose leader was cancelled.                                      *)
(***************************************************************************)
LEMMA LookKeeps ==
    ASSUME IInv, NEW c \in Calls, Look(c), UNCHANGED <<now, query, fetched>>,
           pc[c] \in {"idle", "waiting"},
           asked' = asked \/ asked' = [asked EXCEPT ![c] = now]
    PROVE  IInv'
<1> USE DEF IInv
<1> DEFINE q == query[c]
<1>0. /\ q \in Queries /\ future[c] = "none" /\ asked'[c] \in Nat /\ asked'[c] <= now
      /\ asked' \in [Calls -> Nat]
      /\ \A d \in Calls : d # c => asked'[d] = asked[d]
      /\ \A d \in Calls : asked'[d] <= now
  BY DEF Types, Led, JoinedBefore
<1>1. CASE /\ Hit(q)
           /\ pc' = [pc EXCEPT ![c] = "answered"]
           /\ answer' = [answer EXCEPT ![c] = fetched[q]]
           /\ UNCHANGED <<flight, future, inflight>>
  <2>1. fetched[q] + Ttl > now
    BY <1>1, <1>0, SearchAssumption DEF Hit, Expired, Types
  <2>2. Types'
    BY <1>1, <1>0 DEF Types, Ended
  <2>3. Led' /\ Registered'
    BY <1>1, <1>0 DEF Types, Led, Registered
  <2>4. JoinedBefore'
    BY <1>1, <1>0 DEF Types, Led, JoinedBefore
  <2>5. AnswersAreFresh'
    BY <1>1, <1>0, <2>1, SearchAssumption DEF Types, AnswersAreFresh
  <2> QED
    BY <2>2, <2>3, <2>4, <2>5
<1>2. CASE /\ inflight[q] # None
           /\ pc' = [pc EXCEPT ![c] = "waiting"]
           /\ flight' = [flight EXCEPT ![c] = inflight[q]]
           /\ UNCHANGED <<answer, future, inflight>>
  <2>1. inflight[q] \in Calls /\ future[inflight[q]] = "pending"
    BY <1>2, <1>0 DEF Types, Registered, Led
  <2>2. Types'
    BY <1>2, <1>0 DEF Types
  <2>3. Led' /\ Registered'
    BY <1>2, <1>0 DEF Types, Led, Registered
  <2>4. JoinedBefore'
    BY <1>2, <1>0, <2>1 DEF Types, JoinedBefore
  <2>5. AnswersAreFresh'
    BY <1>2, <1>0 DEF Types, AnswersAreFresh
  <2> QED
    BY <2>2, <2>3, <2>4, <2>5
<1>3. CASE /\ inflight[q] = None
           /\ pc' = [pc EXCEPT ![c] = "fetching"]
           /\ future' = [future EXCEPT ![c] = "pending"]
           /\ inflight' = [inflight EXCEPT ![q] = c]
           /\ UNCHANGED <<flight, answer>>
  <2>2. Types'
    BY <1>3, <1>0 DEF Types
  <2>3. Led'
    BY <1>3, <1>0 DEF Types, Led
  <2>4. Registered'
    BY <1>3, <1>0, SearchAssumption DEF Types, Registered
  <2>5. JoinedBefore'
    BY <1>3, <1>0 DEF Types, JoinedBefore
  <2>6. AnswersAreFresh'
    BY <1>3, <1>0 DEF Types, AnswersAreFresh
  <2> QED
    BY <2>2, <2>3, <2>4, <2>5, <2>6
<1> QED
  BY <1>1, <1>2, <1>3 DEF Look

(***************************************************************************)
(* So does the end of a flight, and in particular its answer is newer than *)
(* every call that waits for it.                                           *)
(***************************************************************************)
LEMMA LandKeeps ==
    ASSUME IInv, NEW c \in Calls, pc[c] = "fetching",
           NEW how \in {"result", "exception", "cancelled"}, Land(c, how),
           NEW end \in Ended, pc' = [pc EXCEPT ![c] = end],
           \/ answer' = [answer EXCEPT ![c] = now]
           \/ answer' = answer /\ how # "result" /\ end # "answered",
           fetched' = fetched \/ fetched' = [fetched EXCEPT ![query[c]] = now]
    PROVE  IInv'
<1> USE DEF IInv
<1>0. inflight' = [inflight EXCEPT ![query[c]] = None]
  BY DEF Land, Registered
<1>1. Types'
  BY <1>0 DEF Types, Land
<1>2. Led'
  BY DEF Types, Led, Land, Ended
<1>3. Registered'
  BY <1>0 DEF Types, Registered, Land, Ended
<1>4. JoinedBefore'
  BY DEF Types, Led, JoinedBefore, Land, Ended
<1>5. AnswersAreFresh'
  BY DEF Types, JoinedBefore, AnswersAreFresh, Land
<1> QED
  BY <1>1, <1>2, <1>3, <1>4, <1>5

(***************************************************************************)
(* Every step keeps the invariant.                                         *)
(***************************************************************************)
LEMMA StepKeeps == IInv /\ [Next]_vars => IInv'
<1> SUFFICES ASSUME IInv, [Next]_vars PROVE IInv'
  OBVIOUS
<1> USE DEF IInv
<1>1. ASSUME NEW c \in Calls, Search(c) PROVE IInv'
  BY <1>1, LookKeeps DEF Search
<1>2. ASSUME NEW c \in Calls, Retry(c) PROVE IInv'
  BY <1>2, LookKeeps DEF Retry
<1>3. ASSUME NEW c \in Calls, Joined(c) PROVE IInv'
  <2>1. Types'
    BY <1>3 DEF Joined, Types, Ended, JoinedBefore
  <2>2. Led' /\ Registered'
    BY <1>3 DEF Joined, Types, Led, Registered
  <2>3. JoinedBefore'
    BY <1>3 DEF Joined, Types, Led, JoinedBefore
  <2>4. AnswersAreFresh'
    BY <1>3 DEF Joined, Types, JoinedBefore, AnswersAreFresh
  <2> QED
    BY <2>1, <2>2, <2>3, <2>4
<1>4. ASSUME NEW c \in Calls, Fetched(c) PROVE IInv'
  BY <1>4, LandKeeps DEF Fetched, Ended
<1>5. ASSUME NEW c \in Calls, FetchFails(c) PROVE IInv'
  BY <1>5, LandKeeps DEF FetchFails, Ended
<1>6. ASSUME NEW c \in Calls, CancelLeader(c) PROVE IInv'
  BY <1>6, LandKeeps DEF CancelLeader, Ended
<1>7. ASSUME NEW c \in Calls, CancelWaiter(c) PROVE IInv'
  BY <1>7 DEF CancelWaiter, Types, Led, Registered, JoinedBefore, AnswersAreFresh, Ended
<1>8. CASE Tick
  BY <1>8 DEF Tick, Types, Led, Registered, JoinedBefore, AnswersAreFresh
<1>9. CASE UNCHANGED vars
  BY <1>9 DEF vars, Types, Led, Registered, JoinedBefore, AnswersAreFresh
<1> QED
  BY <1>1, <1>2, <1>3, <1>4, <1>5, <1>6, <1>7, <1>8, <1>9 DEF Next, CallStep

(***************************************************************************)
(* The invariant holds throughout.                                         *)
(***************************************************************************)
THEOREM SearchInvariant == Spec => []IInv
  BY InitHolds, StepKeeps, PTL DEF Spec

(***************************************************************************)
(* Never are two fetches of one query out at once, whatever calls arrive,  *)
(* fail, are cancelled and start again.                                    *)
(***************************************************************************)
THEOREM FetchesAreShared == Spec => []OneFetchPerQuery
<1>1. IInv => OneFetchPerQuery
  BY DEF IInv, Registered, OneFetchPerQuery
<1> QED
  BY SearchInvariant, <1>1, PTL

(***************************************************************************)
(* No call is given an answer older than the TTL, from the cache or from   *)
(* another call's flight.                                                  *)
(***************************************************************************)
THEOREM NothingStale == Spec => []AnswersAreFresh
<1>1. IInv => AnswersAreFresh
  BY DEF IInv
<1> QED
  BY SearchInvariant, <1>1, PTL

-----------------------------------------------------------------------------
(* The cache, and why it leaves no gap.                                    *)

\* The cache is a sequence of different keys, no longer than its cap, and none
\* of them is counted as thrown out.
Cached ==
    /\ stored \in Seq(Queries) /\ IsInjective(stored) /\ Len(stored) <= MaxSize
    /\ evicted \subseteq Queries
    /\ evicted \cap ToSet(stored) = {}

\* Nothing happened later than now, and now is within its bound.
Clocked ==
    /\ now \in Clock
    /\ \A c \in Calls : answer[c] <= now
    /\ \A q \in Queries : fetched[q] <= now

\* A waiter waits for a flight of its own query, and a flight that brought an
\* answer gave it to the call that led it.
Matched ==
    \A c \in Calls :
        /\ pc[c] = "waiting" => flight[c] \in Calls /\ query[flight[c]] = query[c]
        /\ future[c] = "result" => pc[c] = "answered"

\* An answer that was given out is older than the TTL, or lost its place in the
\* cache to other queries, or is there still, it or a later one.
Kept ==
    \A d \in Calls : pc[d] = "answered" =>
        \/ answer[d] + Ttl <= now
        \/ query[d] \in evicted
        \/ query[d] \in ToSet(stored) /\ answer[d] <= fetched[query[d]]

(***************************************************************************)
(* Taking an entry out of the cache takes out that one, and no other.      *)
(***************************************************************************)
LEMMA WithoutKeeps ==
    ASSUME Cached, NEW q \in Queries
    PROVE  /\ Without(q) \in Seq(Queries) /\ IsInjective(Without(q))
           /\ ToSet(Without(q)) = ToSet(stored) \ {q}
           /\ Len(Without(q)) = IF q \in ToSet(stored) THEN Len(stored) - 1 ELSE Len(stored)
<1>1. /\ stored \in Seq(Queries) /\ Len(stored) \in Nat /\ DOMAIN stored = 1..Len(stored)
      /\ \A i \in 1..Len(stored) : stored[i] \in Queries
      /\ \A i, j \in 1..Len(stored) : stored[i] = stored[j] => i = j
  BY LenProperties, ElementOfSeq DEF Cached, IsInjective
<1>2. CASE q \notin ToSet(stored)
  BY <1>2 DEF Without, Cached
<1>3. CASE q \in ToSet(stored)
  <2> DEFINE i == CHOOSE j \in DOMAIN stored : stored[j] = q
             n == Len(stored)
             a == SubSeq(stored, 1, i - 1)
             b == SubSeq(stored, i + 1, n)
             s == a \o b
  <2>1. i \in 1..n /\ stored[i] = q
    BY <1>1, <1>3 DEF ToSet
  <2>2. Without(q) = s
    BY <1>3 DEF Without, RemoveAt
  <2> HIDE DEF i
  <2>3. i \in Int /\ i - 1 \in Int /\ i + 1 \in Int /\ n \in Int /\ 1 \in Int
    BY <1>1, <2>1
  <2>4. /\ a \in Seq(Queries) /\ Len(a) = i - 1
        /\ \A j \in 1..(i - 1) : a[j] = stored[j]
    <3>1. \A j \in 1..(i - 1) : stored[j] \in Queries
      BY <1>1, <2>1
    <3> QED BY <2>1, <2>3, <3>1, SubSeqProperties
  <2>5. /\ b \in Seq(Queries) /\ Len(b) = n - i
        /\ \A j \in 1..(n - i) : b[j] = stored[i + j]
    <3>1. \A j \in (i + 1)..n : stored[j] \in Queries
      BY <1>1, <2>1
    <3>2. /\ b \in Seq(Queries) /\ Len(b) = IF i + 1 <= n THEN n - (i + 1) + 1 ELSE 0
          /\ \A j \in 1..(n - (i + 1) + 1) : b[j] = stored[(i + 1) + j - 1]
      BY <2>1, <2>3, <3>1, SubSeqProperties
    <3>3. /\ n - (i + 1) + 1 = n - i /\ (~(i + 1 <= n) => n - i = 0)
          /\ \A j \in 1..(n - i) : (i + 1) + j - 1 = i + j
      <4>1. \A m \in Nat : \A h \in 1..m :
               /\ m - (h + 1) + 1 = m - h /\ (~(h + 1 <= m) => m - h = 0)
               /\ \A j \in 1..(m - h) : (h + 1) + j - 1 = h + j
        OBVIOUS
      <4>2. n \in Nat /\ i \in 1..n
        BY <1>1, <2>1
      <4> HIDE DEF n, b
      <4> QED BY <4>1, <4>2
    <3> HIDE DEF b, n
    <3>4. Len(b) = n - i
      BY <3>2, <3>3
    <3>5. ASSUME NEW j \in 1..(n - i) PROVE b[j] = stored[i + j]
      <4>1. j \in 1..(n - (i + 1) + 1) /\ (i + 1) + j - 1 = i + j
        BY <3>3
      <4>2. b[j] = stored[(i + 1) + j - 1]
        BY <3>2, <4>1
      <4> QED BY <4>1, <4>2
    <3> QED BY <3>2, <3>4, <3>5
  <2> HIDE DEF a, b
  <2>6. /\ s \in Seq(Queries) /\ Len(s) = n - 1
        /\ \A j \in 1..(n - 1) : s[j] = IF j <= i - 1 THEN stored[j] ELSE stored[j + 1]
    <3>1. /\ s \in Seq(Queries) /\ Len(s) = Len(a) + Len(b)
          /\ \A j \in 1..(Len(a) + Len(b)) : s[j] = IF j <= Len(a) THEN a[j] ELSE b[j - Len(a)]
      BY <2>4, <2>5, ConcatProperties
    <3>2. Len(a) + Len(b) = n - 1
      BY <1>1, <2>1, <2>4, <2>5
    <3>3. ASSUME NEW j \in 1..(n - 1)
          PROVE  s[j] = IF j <= i - 1 THEN stored[j] ELSE stored[j + 1]
      <4>1. CASE j <= i - 1
        BY <2>1, <2>4, <3>1, <3>2, <3>3, <4>1
      <4>2. CASE ~(j <= i - 1)
        <5>1. j - (i - 1) \in 1..(n - i) /\ i + (j - (i - 1)) = j + 1
          BY <1>1, <2>1, <3>3, <4>2
        <5> QED BY <2>4, <2>5, <3>1, <3>2, <3>3, <4>2, <5>1
      <4> QED BY <4>1, <4>2
    <3> QED BY <3>1, <3>2, <3>3
  <2> HIDE DEF s
  <2>7. DOMAIN s = 1..(n - 1)
    BY <2>6, LenProperties
  <2>8. IsInjective(s)
    <3> SUFFICES ASSUME NEW j \in 1..(n - 1), NEW k \in 1..(n - 1), s[j] = s[k] PROVE j = k
      BY <2>7 DEF IsInjective
    <3> QED BY <1>1, <2>1, <2>6
  <2>9. ToSet(s) = ToSet(stored) \ {q}
    <3>1. ASSUME NEW j \in 1..(n - 1) PROVE \E k \in 1..n : s[j] = stored[k] /\ s[j] # q
      <4> DEFINE k == IF j <= i - 1 THEN j ELSE j + 1
      <4>1. k \in 1..n /\ k # i
        BY <1>1, <2>1, <3>1
      <4>2. s[j] = stored[k]
        BY <2>6, <3>1
      <4> HIDE DEF k
      <4> QED BY <1>1, <2>1, <4>1, <4>2
    <3>2. ASSUME NEW k \in 1..n, stored[k] # q PROVE \E j \in 1..(n - 1) : s[j] = stored[k]
      <4>1. CASE k < i
        <5>1. k \in 1..(n - 1) /\ k <= i - 1
          BY <1>1, <2>1, <4>1
        <5> QED BY <2>6, <5>1
      <4>2. CASE k > i
        <5>1. k - 1 \in 1..(n - 1) /\ ~(k - 1 <= i - 1) /\ (k - 1) + 1 = k
          BY <1>1, <2>1, <4>2
        <5>2. s[k - 1] = stored[(k - 1) + 1]
          BY <2>6, <5>1
        <5> QED BY <5>1, <5>2
      <4> QED BY <2>1, <3>2, <4>1, <4>2
    <3>3. /\ ToSet(s) = {s[j] : j \in 1..(n - 1)}
          /\ ToSet(stored) = {stored[k] : k \in 1..n}
      BY <1>1, <2>7 DEF ToSet
    <3> HIDE DEF n
    <3> QED BY <3>1, <3>2, <3>3
  <2> QED BY <1>3, <2>2, <2>6, <2>8, <2>9
<1> QED BY <1>2, <1>3

(***************************************************************************)
(* A key at the most recent end is there once, beside those that were.     *)
(***************************************************************************)
LEMMA AppendKeeps ==
    ASSUME NEW s \in Seq(Queries), IsInjective(s), NEW q \in Queries, q \notin ToSet(s)
    PROVE  /\ Append(s, q) \in Seq(Queries) /\ IsInjective(Append(s, q))
           /\ ToSet(Append(s, q)) = ToSet(s) \cup {q}
           /\ Len(Append(s, q)) = Len(s) + 1
<1> DEFINE t == Append(s, q)
           n == Len(s)
<1>1. /\ t \in Seq(Queries) /\ Len(t) = n + 1 /\ n \in Nat
      /\ \A i \in 1..n : t[i] = s[i]
      /\ t[n + 1] = q
  BY AppendProperties, LenProperties
<1>2. DOMAIN s = 1..n /\ DOMAIN t = 1..(n + 1)
  BY <1>1, LenProperties
<1> HIDE DEF n, t
<1>3. \A i \in 1..(n + 1) : i = n + 1 \/ i \in 1..n
  BY <1>1
<1>4. 1..n \subseteq 1..(n + 1) /\ n + 1 \in 1..(n + 1)
  BY <1>1
<1>5. \A i \in 1..n : s[i] # q
  BY <1>2 DEF ToSet
<1>6. IsInjective(t)
  <2> SUFFICES ASSUME NEW i \in 1..(n + 1), NEW j \in 1..(n + 1), t[i] = t[j] PROVE i = j
    BY <1>2 DEF IsInjective
  <2>1. \A k, m \in 1..n : s[k] = s[m] => k = m
    BY <1>2 DEF IsInjective
  <2> QED BY <1>1, <1>3, <1>5, <2>1
<1>7. ToSet(t) = ToSet(s) \cup {q}
  <2>1. ToSet(t) = {t[i] : i \in 1..(n + 1)} /\ ToSet(s) = {s[i] : i \in 1..n}
    BY <1>2 DEF ToSet
  <2>2. ASSUME NEW i \in 1..(n + 1) PROVE t[i] \in ToSet(s) \cup {q}
    BY <1>1, <1>3, <2>1
  <2>3. ASSUME NEW i \in 1..n PROVE s[i] \in ToSet(t)
    BY <1>1, <1>4, <2>1
  <2>4. q \in ToSet(t)
    BY <1>1, <1>4, <2>1
  <2> QED BY <2>1, <2>2, <2>3, <2>4
<1> QED BY <1>1, <1>6, <1>7 DEF t, n

(***************************************************************************)
(* The least recent key makes room for the others, and takes none of them  *)
(* along: of two keys or more the most recent stays.                       *)
(***************************************************************************)
LEMMA TailKeeps ==
    ASSUME NEW s \in Seq(Queries), IsInjective(s), Len(s) > 1
    PROVE  /\ Tail(s) \in Seq(Queries) /\ IsInjective(Tail(s))
           /\ ToSet(Tail(s)) \subseteq ToSet(s) /\ s[Len(s)] \in ToSet(Tail(s))
           /\ Len(Tail(s)) = Len(s) - 1
<1> DEFINE t == Tail(s)
           n == Len(s)
<1>1. /\ n \in Nat /\ n > 1 /\ s # << >>
      /\ DOMAIN s = 1..n
  BY LenProperties
<1>2. /\ t \in Seq(Queries) /\ Len(t) = n - 1
      /\ \A i \in 1..(n - 1) : t[i] = s[i + 1]
  BY <1>1, HeadTailProperties
<1>3. DOMAIN t = 1..(n - 1)
  BY <1>2, LenProperties
<1> HIDE DEF n, t
<1>4. /\ \A i \in 1..(n - 1) : i + 1 \in 1..n
      /\ \A i, j \in 1..(n - 1) : i + 1 = j + 1 => i = j
      /\ n - 1 \in 1..(n - 1) /\ (n - 1) + 1 = n
  BY <1>1
<1>5. IsInjective(t)
  <2> SUFFICES ASSUME NEW i \in 1..(n - 1), NEW j \in 1..(n - 1), t[i] = t[j] PROVE i = j
    BY <1>3 DEF IsInjective
  <2>1. \A k, m \in 1..n : s[k] = s[m] => k = m
    BY <1>1 DEF IsInjective
  <2>2. s[i + 1] = s[j + 1]
    BY <1>2
  <2> QED BY <1>4, <2>1, <2>2
<1>6. ToSet(t) \subseteq ToSet(s) /\ s[n] \in ToSet(t)
  <2>1. ToSet(t) = {t[i] : i \in 1..(n - 1)} /\ ToSet(s) = {s[i] : i \in 1..n}
    BY <1>1, <1>3 DEF ToSet
  <2>2. ASSUME NEW i \in 1..(n - 1) PROVE t[i] \in ToSet(s)
    BY <1>2, <1>4, <2>1
  <2>3. t[n - 1] = s[n]
    BY <1>2, <1>4
  <2> QED BY <1>4, <2>1, <2>2, <2>3
<1> QED BY <1>2, <1>5, <1>6 DEF t, n

(***************************************************************************)
(* A look at the cache keeps it one, and drops at most the entry it looked *)
(* for, when that had expired.                                             *)
(***************************************************************************)
LEMMA GetKeeps ==
    ASSUME Cached, NEW q \in Queries, stored' = AfterGet(q), evicted' = evicted
    PROVE  /\ Cached'
           /\ ToSet(stored') = IF Hit(q) THEN ToSet(stored) ELSE ToSet(stored) \ {q}
<1> DEFINE w == Without(q)
<1>1. /\ w \in Seq(Queries) /\ IsInjective(w) /\ ToSet(w) = ToSet(stored) \ {q}
      /\ Len(w) = IF q \in ToSet(stored) THEN Len(stored) - 1 ELSE Len(stored)
  BY WithoutKeeps
<1>2. Len(stored) \in Nat /\ Len(stored) <= MaxSize /\ MaxSize \in Nat
  BY LenProperties, SearchAssumption DEF Cached
<1> HIDE DEF w
<1>3. CASE Hit(q)
  <2>1. stored' = Append(w, q) /\ q \in ToSet(stored) /\ q \notin ToSet(w)
    BY <1>1, <1>3 DEF AfterGet, Hit, w
  <2>2. /\ stored' \in Seq(Queries) /\ IsInjective(stored')
        /\ ToSet(stored') = ToSet(w) \cup {q} /\ Len(stored') = Len(w) + 1
    BY <1>1, <2>1, AppendKeeps
  <2>3. ToSet(stored') = ToSet(stored) /\ Len(stored') <= MaxSize
    BY <1>1, <1>2, <2>1, <2>2
  <2> QED BY <1>3, <2>2, <2>3 DEF Cached
<1>4. CASE ~Hit(q)
  <2>1. stored' = w
    BY <1>4 DEF AfterGet, w
  <2>2. Len(stored') <= MaxSize
    BY <1>1, <1>2, <2>1
  <2> QED BY <1>1, <1>4, <2>1, <2>2 DEF Cached
<1> QED BY <1>3, <1>4

(***************************************************************************)
(* A write to the cache keeps it one: the new answer is in it, and what it *)
(* pushed out is counted as thrown out.                                    *)
(***************************************************************************)
LEMMA SetKeeps ==
    ASSUME Cached, NEW q \in Queries, stored' = AfterSet(q),
           evicted' = (evicted \cup ToSet(stored)) \ ToSet(stored')
    PROVE  Cached' /\ q \in ToSet(stored') /\ ToSet(stored') \subseteq ToSet(stored) \cup {q}
<1> DEFINE w == Without(q)
           all == Append(w, q)
<1>1. /\ w \in Seq(Queries) /\ IsInjective(w) /\ ToSet(w) = ToSet(stored) \ {q}
      /\ Len(w) \in Nat /\ Len(w) <= MaxSize /\ MaxSize \in Nat /\ MaxSize >= 1
  <2>1. Len(stored) \in Nat /\ Len(stored) <= MaxSize /\ MaxSize \in Nat /\ MaxSize >= 1
    BY LenProperties, SearchAssumption DEF Cached
  <2>2. /\ w \in Seq(Queries) /\ IsInjective(w) /\ ToSet(w) = ToSet(stored) \ {q}
        /\ Len(w) = IF q \in ToSet(stored) THEN Len(stored) - 1 ELSE Len(stored)
    BY WithoutKeeps
  <2>3. Len(w) \in Nat
    BY <2>2, LenProperties
  <2> QED BY <2>1, <2>2, <2>3
<1>2. /\ all \in Seq(Queries) /\ IsInjective(all) /\ ToSet(all) = ToSet(stored) \cup {q}
      /\ Len(all) = Len(w) + 1 /\ all[Len(w) + 1] = q
  <2>1. q \notin ToSet(w)
    BY <1>1
  <2> QED BY <1>1, <2>1, AppendKeeps, AppendProperties
<1>3. ToSet(stored) \subseteq Queries
  BY LenProperties, ElementOfSeq DEF Cached, ToSet
<1>4. stored' = IF Len(all) > MaxSize THEN Tail(all) ELSE all
  BY DEF AfterSet
<1> HIDE DEF w, all
<1>5. CASE Len(all) > MaxSize
  <2>1. Len(all) > 1
    BY <1>1, <1>2, <1>5
  <2>2. /\ stored' \in Seq(Queries) /\ IsInjective(stored')
        /\ ToSet(stored') \subseteq ToSet(all) /\ q \in ToSet(stored')
        /\ Len(stored') = Len(all) - 1
    BY <1>2, <1>4, <1>5, <2>1, TailKeeps
  <2>3. Len(stored') <= MaxSize
    BY <1>1, <1>2, <2>2
  <2>4. evicted' \subseteq Queries /\ evicted' \cap ToSet(stored') = {}
    BY <1>3 DEF Cached
  <2> QED BY <1>2, <2>2, <2>3, <2>4 DEF Cached
<1>6. CASE ~(Len(all) > MaxSize)
  <2>1. stored' = all
    BY <1>4, <1>6
  <2>2. Len(all) <= MaxSize
    BY <1>1, <1>2, <1>6
  <2>3. evicted' \subseteq Queries /\ evicted' \cap ToSet(stored') = {}
    BY <1>3 DEF Cached
  <2> QED BY <1>2, <2>1, <2>2, <2>3 DEF Cached
<1> QED BY <1>5, <1>6

Served == Cached /\ Clocked /\ Matched /\ Kept

(***************************************************************************)
(* It holds before the first search.                                       *)
(***************************************************************************)
LEMMA InitServed == Init => Served
<1> SUFFICES ASSUME Init PROVE Served
  OBVIOUS
<1>1. Cached
  <2>1. stored = << >> /\ evicted = {}
    BY DEF Init
  <2>2. stored \in Seq(Queries) /\ Len(stored) = 0 /\ DOMAIN stored = {}
    BY <2>1, EmptySeq, LenProperties
  <2> QED BY <2>1, <2>2, SearchAssumption DEF Cached, IsInjective
<1> QED BY <1>1, SearchAssumption DEF Init, Served, Clocked, Clock, Matched, Kept

(***************************************************************************)
(* A turn of the loop of search keeps it; only an entry that has expired   *)
(* leaves the cache.                                                       *)
(***************************************************************************)
LEMMA LookServed ==
    ASSUME IInv, Served, NEW c \in Calls, Look(c),
           UNCHANGED <<now, query, fetched, evicted>>, pc[c] \in {"idle", "waiting"}
    PROVE  Served'
<1> DEFINE q == query[c]
<1> USE DEF Served
<1>0. q \in Queries /\ stored' = AfterGet(q) /\ future[c] = "none" /\ Ttl \in Nat
  BY SearchAssumption DEF IInv, Types, Led, Look
<1>1. Cached' /\ ToSet(stored') = IF Hit(q) THEN ToSet(stored) ELSE ToSet(stored) \ {q}
  BY <1>0, GetKeeps
<1>2. CASE /\ Hit(q)
           /\ pc' = [pc EXCEPT ![c] = "answered"]
           /\ answer' = [answer EXCEPT ![c] = fetched[q]]
           /\ UNCHANGED <<flight, future, inflight>>
  <2>1. Clocked'
    BY <1>0, <1>2 DEF Clocked, IInv, Types
  <2>2. Matched'
    BY <1>2 DEF Matched, IInv, Types
  <2>3. Kept'
    <3>1. q \in ToSet(stored) /\ ToSet(stored') = ToSet(stored)
      BY <1>1, <1>2 DEF Hit
    <3>2. fetched[q] \in Nat
      BY <1>0 DEF IInv, Types
    <3> QED BY <1>2, <3>1, <3>2 DEF Kept, IInv, Types
  <2> QED BY <1>1, <2>1, <2>2, <2>3
<1>3. ASSUME ~Hit(q), UNCHANGED answer,
             NEW s \in {"waiting", "fetching"}, pc' = [pc EXCEPT ![c] = s]
      PROVE  Clocked' /\ Kept'
  <2>1. Clocked'
    BY <1>3 DEF Clocked
  <2>2. ASSUME NEW d \in Calls, pc'[d] = "answered"
        PROVE  \/ answer[d] + Ttl <= now
               \/ query[d] \in evicted
               \/ query[d] \in ToSet(stored') /\ answer[d] <= fetched[query[d]]
    <3>1. pc[d] = "answered"
      BY <1>3, <2>2 DEF IInv, Types
    <3>2. CASE query[d] = q
      <4>1. fetched[q] \in Nat /\ answer[d] \in Nat /\ now \in Nat
        BY <1>0 DEF IInv, Types
      <4>2. q \in ToSet(stored) => fetched[q] + Ttl <= now
        BY <1>3 DEF Hit, Expired
      <4>3. \A x, y \in Nat : x <= y /\ y + Ttl <= now => x + Ttl <= now
        BY <1>0, <4>1
      <4> QED BY <3>1, <3>2, <4>1, <4>2, <4>3 DEF Kept
    <3>3. CASE query[d] # q
      BY <1>1, <1>3, <3>1, <3>3 DEF Kept
    <3> QED BY <3>2, <3>3
  <2>3. Kept'
    BY <1>3, <2>2 DEF Kept
  <2> QED BY <2>1, <2>3
<1>4. CASE /\ ~Hit(q) /\ inflight[q] # None
           /\ pc' = [pc EXCEPT ![c] = "waiting"]
           /\ flight' = [flight EXCEPT ![c] = inflight[q]]
           /\ UNCHANGED <<answer, future, inflight>>
  <2>1. inflight[q] \in Calls /\ query[inflight[q]] = q
    BY <1>0, <1>4 DEF IInv, Types, Registered
  <2>2. Matched'
    BY <1>0, <1>4, <2>1 DEF Matched, IInv, Types
  <2> QED BY <1>1, <1>3, <1>4, <2>2
<1>5. CASE /\ ~Hit(q) /\ inflight[q] = None
           /\ pc' = [pc EXCEPT ![c] = "fetching"]
           /\ future' = [future EXCEPT ![c] = "pending"]
           /\ inflight' = [inflight EXCEPT ![q] = c]
           /\ UNCHANGED <<flight, answer>>
  <2>1. Matched'
    BY <1>5 DEF Matched, IInv, Types
  <2> QED BY <1>1, <1>3, <1>5, <2>1
<1> QED BY <1>2, <1>4, <1>5 DEF Look

(***************************************************************************)
(* So does a flight that brings an answer: it is in the cache, with a time *)
(* no earlier than that of any other, before the flight is over.           *)
(***************************************************************************)
LEMMA FetchedServed == ASSUME IInv, Served, NEW c \in Calls, Fetched(c) PROVE Served'
<1> DEFINE q == query[c]
<1> USE DEF Served
<1>0. /\ q \in Queries /\ now \in Nat /\ Ttl \in Nat /\ \A d \in Calls : answer[d] \in Nat
      /\ pc' = [pc EXCEPT ![c] = "answered"] /\ answer' = [answer EXCEPT ![c] = now]
      /\ future' = [future EXCEPT ![c] = "result"]
      /\ UNCHANGED <<now, query, asked, flight>>
  BY SearchAssumption DEF IInv, Types, Fetched, Land
<1>1. Matched'
  BY <1>0 DEF Matched, IInv, Types
<1>2. CASE Ttl > 0
  <2>1. /\ stored' = AfterSet(q) /\ fetched' = [fetched EXCEPT ![q] = now]
        /\ evicted' = (evicted \cup ToSet(stored)) \ ToSet(stored')
    BY <1>2 DEF Fetched
  <2>2. /\ Cached' /\ q \in ToSet(stored')
        /\ ToSet(stored') \subseteq ToSet(stored) \cup {q}
    BY <1>0, <2>1, SetKeeps
  <2>3. Clocked'
    BY <1>0, <2>1 DEF Clocked, IInv, Types
  <2>4. ASSUME NEW d \in Calls, pc'[d] = "answered"
        PROVE  \/ answer'[d] + Ttl <= now
               \/ query[d] \in evicted'
               \/ query[d] \in ToSet(stored') /\ answer'[d] <= fetched'[query[d]]
    <3>1. answer'[d] <= now /\ query[d] \in Queries
      BY <1>0 DEF Clocked, IInv, Types
    <3>2. CASE query[d] = q
      BY <1>0, <2>1, <2>2, <3>1, <3>2 DEF IInv, Types
    <3>3. CASE query[d] # q
      <4>1. pc[d] = "answered" /\ answer'[d] = answer[d] /\ fetched'[query[d]] = fetched[query[d]]
        BY <1>0, <2>1, <2>4, <3>1, <3>3 DEF IInv, Types
      <4>2. evicted \cap ToSet(stored) = {}
        BY DEF Cached
      <4> QED BY <2>1, <2>2, <3>3, <4>1, <4>2 DEF Kept
    <3> QED BY <3>2, <3>3
  <2>5. Kept'
    BY <1>0, <2>4 DEF Kept
  <2> QED BY <1>1, <2>2, <2>3, <2>5
<1>3. CASE ~(Ttl > 0)
  <2>1. UNCHANGED <<stored, fetched, evicted>> /\ Ttl = 0
    BY <1>0, <1>3 DEF Fetched
  <2>2. Clocked'
    BY <1>0, <2>1 DEF Clocked, IInv, Types
  <2>3. Kept'
    <3>1. \A d \in Calls : answer'[d] \in Nat /\ answer'[d] <= now
      BY <1>0 DEF Clocked, IInv, Types
    <3>2. \A x \in Nat : x <= now => x + Ttl <= now
      BY <1>0, <2>1
    <3>3. \A d \in Calls : answer'[d] + Ttl <= now
      BY <3>1, <3>2
    <3> QED BY <1>0, <3>3 DEF Kept
  <2>4. Cached'
    BY <2>1 DEF Cached
  <2> QED BY <1>1, <2>2, <2>3, <2>4
<1> QED BY <1>2, <1>3

(***************************************************************************)
(* Every step keeps it.                                                    *)
(***************************************************************************)
LEMMA StepServed == IInv /\ Served /\ [Next]_vars => Served'
<1> SUFFICES ASSUME IInv, Served, [Next]_vars PROVE Served'
  OBVIOUS
<1>1. ASSUME NEW c \in Calls, Search(c) PROVE Served'
  BY <1>1, LookServed DEF Search
<1>2. ASSUME NEW c \in Calls, Retry(c) PROVE Served'
  BY <1>2, LookServed DEF Retry
<1>3. ASSUME NEW c \in Calls, Joined(c) PROVE Served'
  <2>1. /\ flight[c] \in Calls /\ query[flight[c]] = query[c]
        /\ future[flight[c]] = "result" => pc[flight[c]] = "answered"
    BY <1>3 DEF Joined, Served, Matched
  <2>2. Cached' /\ Clocked'
    BY <1>3, <2>1 DEF Joined, Served, Cached, Clocked, IInv, Types
  <2>3. Matched'
    BY <1>3 DEF Joined, Served, Matched, IInv, Types, Led
  <2>4. Kept'
    BY <1>3, <2>1 DEF Joined, Served, Kept, IInv, Types
  <2> QED BY <2>2, <2>3, <2>4 DEF Served
<1>4. ASSUME NEW c \in Calls, Fetched(c) PROVE Served'
  BY <1>4, FetchedServed
<1>5. ASSUME NEW c \in Calls, FetchFails(c) \/ CancelLeader(c) PROVE Served'
  <2>1. PICK how \in {"failed", "cancelled"} : pc' = [pc EXCEPT ![c] = how]
    BY <1>5 DEF FetchFails, CancelLeader
  <2>2. PICK what \in {"exception", "cancelled"} : future' = [future EXCEPT ![c] = what]
    BY <1>5 DEF FetchFails, CancelLeader, Land
  <2>3. UNCHANGED <<now, query, flight, answer, stored, fetched, evicted>> /\ pc[c] = "fetching"
    BY <1>5 DEF FetchFails, CancelLeader, Land
  <2>4. Cached' /\ Clocked'
    BY <2>3 DEF Served, Cached, Clocked
  <2>5. Matched'
    BY <2>1, <2>2, <2>3 DEF Served, Matched, IInv, Types, Led
  <2>6. Kept'
    BY <2>1, <2>3 DEF Served, Kept, IInv, Types
  <2> QED BY <2>4, <2>5, <2>6 DEF Served
<1>6. ASSUME NEW c \in Calls, CancelWaiter(c) PROVE Served'
  BY <1>6 DEF CancelWaiter, Served, Cached, Clocked, Matched, Kept, IInv, Types, Led
<1>7. CASE Tick
  <2>1. Clocked'
    BY <1>7, SearchAssumption DEF Tick, Served, Clocked, Clock, IInv, Types
  <2>2. Kept'
    <3>1. now \in Nat /\ Ttl \in Nat /\ \A d \in Calls : answer[d] \in Nat
      BY SearchAssumption DEF IInv, Types
    <3>2. \A d \in Calls : answer[d] + Ttl <= now => answer[d] + Ttl <= now + 1
      BY <3>1
    <3> QED BY <1>7, <3>2 DEF Tick, Served, Kept
  <2> QED BY <1>7, <2>1, <2>2 DEF Tick, Served, Cached, Matched
<1>8. CASE UNCHANGED vars
  BY <1>8 DEF vars, Served, Cached, Clocked, Matched, Kept
<1> QED
  BY <1>1, <1>2, <1>3, <1>4, <1>5, <1>6, <1>7, <1>8 DEF Next, CallStep

(***************************************************************************)
(* It holds throughout.                                                    *)
(***************************************************************************)
THEOREM ServedInvariant == Spec => [](IInv /\ Served)
  BY InitHolds, StepKeeps, InitServed, StepServed, PTL DEF Spec

(***************************************************************************)
(* The types: of times within the bound of the clock, and of a cache that  *)
(* never holds more than its cap nor one query twice.                      *)
(***************************************************************************)
THEOREM TypesHold == Spec => []TypeOK
<1>1. IInv /\ Served => TypeOK
  <2> SUFFICES ASSUME IInv, Served PROVE TypeOK
    OBVIOUS
  <2>1. \A x \in Nat : x <= now => x \in Clock
    BY SearchAssumption DEF Served, Clocked, Clock
  <2>2. asked \in [Calls -> Clock]
    BY <2>1 DEF IInv, Types, JoinedBefore
  <2>3. answer \in [Calls -> Clock] /\ fetched \in [Queries -> Clock]
    BY <2>1 DEF IInv, Types, Served, Clocked
  <2> QED BY <2>2, <2>3 DEF IInv, Types, Served, Cached, Clocked, TypeOK
<1> QED
  BY ServedInvariant, <1>1, PTL

(***************************************************************************)
(* No fetch of a query starts within the TTL of an answer to it, unless    *)
(* other queries pushed the answer out of the cache: an answer is in the   *)
(* cache before its flight leaves the registry.                            *)
(***************************************************************************)
THEOREM NoGapIsLeft == Spec => NoGap
<1> DEFINE Gap ==
        \A c, d \in Calls :
            /\ pc[c] # "fetching" /\ pc'[c] = "fetching"
            /\ pc[d] = "answered" /\ query[d] = query[c]
            => answer[d] + Ttl <= now \/ query[c] \in evicted
<1>1. IInv /\ Served /\ [Next]_vars => [Gap]_vars
  <2> SUFFICES ASSUME IInv, Served, Next,
                      NEW c \in Calls, NEW d \in Calls,
                      pc[c] # "fetching", pc'[c] = "fetching",
                      pc[d] = "answered", query[d] = query[c]
               PROVE  answer[d] + Ttl <= now \/ query[c] \in evicted
    OBVIOUS
  <2>1. Search(c) \/ Retry(c)
    BY DEF Next, CallStep, Search, Retry, Look, Joined, Fetched, FetchFails, CancelLeader,
           CancelWaiter, Tick, IInv, Types
  <2>2. ~Hit(query[c])
    BY <2>1 DEF Search, Retry, Look, IInv, Types
  <2>3. /\ answer[d] \in Nat /\ fetched[query[d]] \in Nat /\ now \in Nat /\ Ttl \in Nat
    BY SearchAssumption DEF IInv, Types
  <2>4. query[d] \in ToSet(stored) => fetched[query[d]] + Ttl <= now
    BY <2>2 DEF Hit, Expired
  <2>5. \A x, y \in Nat : x <= y /\ y + Ttl <= now => x + Ttl <= now
    BY <2>3
  <2> QED BY <2>3, <2>4, <2>5 DEF Served, Kept
<1> QED
  BY ServedInvariant, <1>1, PTL DEF Spec, NoGap
=============================================================================
