--------------------------- MODULE JobStreamProofs ---------------------------
(***************************************************************************)
(* Proofs about JobStream, for every number of readers, every ring and     *)
(* queue size and any number of events.                                    *)
(***************************************************************************)
EXTENDS JobStream, TLAPS

-----------------------------------------------------------------------------
(* Sequences as the ring and the queues use them.                          *)

LEMMA TailFacts ==
    ASSUME NEW S, NEW s \in Seq(S), s # <<>>
    PROVE  /\ Tail(s) \in Seq(S)
           /\ Len(Tail(s)) = Len(s) - 1
           /\ Len(s) \in Nat \ {0}
           /\ Head(s) \in S
           /\ Head(s) = s[1]
           /\ DOMAIN s = 1..Len(s)
           /\ DOMAIN Tail(s) = 1..(Len(s) - 1)
           /\ \A i \in 1..(Len(s) - 1) : Tail(s)[i] = s[i + 1]
    OBVIOUS

LEMMA AppendFacts ==
    ASSUME NEW S, NEW s \in Seq(S), NEW e \in S
    PROVE  /\ Append(s, e) \in Seq(S)
           /\ Len(Append(s, e)) = Len(s) + 1
           /\ DOMAIN Append(s, e) = 1..(Len(s) + 1)
           /\ \A i \in 1..Len(s) : Append(s, e)[i] = s[i]
           /\ Append(s, e)[Len(s) + 1] = e
    OBVIOUS

LEMMA TailElements ==
    ASSUME NEW S, NEW s \in Seq(S), s # <<>>
    PROVE  Elements(s) = {Head(s)} \cup Elements(Tail(s))
<1>1. ASSUME NEW x \in Elements(s)
      PROVE  x \in {Head(s)} \cup Elements(Tail(s))
  <2>1. PICK i \in 1..Len(s) : x = s[i]
    BY <1>1, TailFacts DEF Elements
  <2>2. CASE i = 1
    BY <2>1, <2>2, TailFacts
  <2>3. CASE i # 1
    <3>1. i - 1 \in 1..(Len(s) - 1) /\ Tail(s)[i - 1] = s[(i - 1) + 1]
      BY <2>1, <2>3, TailFacts
    <3>2. i - 1 \in DOMAIN Tail(s) /\ Tail(s)[i - 1] = x
      BY <3>1, <2>1, TailFacts
    <3> QED
      BY <3>2 DEF Elements
  <2> QED
    BY <2>2, <2>3
<1>2. ASSUME NEW x \in {Head(s)} \cup Elements(Tail(s))
      PROVE  x \in Elements(s)
  <2>1. CASE x = Head(s)
    <3>1. 1 \in DOMAIN s /\ s[1] = x
      BY <2>1, TailFacts
    <3> QED
      BY <3>1 DEF Elements
  <2>2. CASE x \in Elements(Tail(s))
    <3>1. PICK i \in DOMAIN Tail(s) : x = Tail(s)[i]
      BY <2>2 DEF Elements
    <3>2. i + 1 \in DOMAIN s /\ s[i + 1] = x
      BY <3>1, TailFacts
    <3> QED
      BY <3>2 DEF Elements
  <2> QED
    BY <1>2, <2>1, <2>2
<1> QED
  BY <1>1, <1>2

LEMMA AppendElements ==
    ASSUME NEW S, NEW s \in Seq(S), NEW e \in S
    PROVE  Elements(Append(s, e)) = Elements(s) \cup {e}
<1>1. ASSUME NEW x \in Elements(Append(s, e))
      PROVE  x \in Elements(s) \cup {e}
  <2>1. PICK i \in 1..(Len(s) + 1) : x = Append(s, e)[i]
    BY <1>1, AppendFacts DEF Elements
  <2>2. CASE i \in 1..Len(s)
    <3>1. i \in DOMAIN s /\ s[i] = x
      BY <2>1, <2>2, AppendFacts
    <3> QED
      BY <3>1 DEF Elements
  <2>3. CASE i = Len(s) + 1
    BY <2>1, <2>3, AppendFacts
  <2> QED
    BY <2>1, <2>2, <2>3
<1>2. ASSUME NEW x \in Elements(s)
      PROVE  x \in Elements(Append(s, e))
  <2>1. PICK i \in DOMAIN s : x = s[i]
    BY <1>2 DEF Elements
  <2>2. i \in DOMAIN Append(s, e) /\ Append(s, e)[i] = x
    BY <2>1, AppendFacts
  <2> QED
    BY <2>2 DEF Elements
<1>3. e \in Elements(Append(s, e))
  <2>1. Len(s) + 1 \in DOMAIN Append(s, e) /\ Append(s, e)[Len(s) + 1] = e
    BY AppendFacts
  <2> QED
    BY <2>1 DEF Elements
<1> QED
  BY <1>1, <1>2, <1>3

\* What Push keeps: all of s, or all but its oldest entry, and e at the end.
Shift(s, cap) == IF Len(s) < cap THEN 0 ELSE 1

LEMMA PushFacts ==
    ASSUME NEW s \in Seq(Nat), NEW e \in Nat,
           NEW cap \in Nat \ {0}, Len(s) <= cap
    PROVE  /\ Push(s, e, cap) \in Seq(Nat)
           /\ Len(Push(s, e, cap)) = Len(s) + 1 - Shift(s, cap)
           /\ Len(Push(s, e, cap)) <= cap
           /\ DOMAIN Push(s, e, cap) = 1..(Len(s) + 1 - Shift(s, cap))
           /\ \A i \in 1..(Len(s) - Shift(s, cap)) :
                Push(s, e, cap)[i] = s[i + Shift(s, cap)]
           /\ Push(s, e, cap)[Len(s) + 1 - Shift(s, cap)] = e
<1>1. CASE Len(s) < cap
  BY <1>1, AppendFacts DEF Push, Shift
<1>2. CASE ~(Len(s) < cap)
  <2>1. s # <<>>
    BY <1>2
  <2>2. Tail(s) \in Seq(Nat) /\ Len(Tail(s)) = Len(s) - 1 /\ Len(s) \in Nat \ {0}
        /\ \A i \in 1..(Len(s) - 1) : Tail(s)[i] = s[i + 1]
    BY <2>1, TailFacts
  <2>3. Push(s, e, cap) = Append(Tail(s), e) /\ Shift(s, cap) = 1
    BY <1>2 DEF Push, Shift
  <2> QED
    BY <2>2, <2>3, AppendFacts
<1> QED
  BY <1>1, <1>2

LEMMA PushElements ==
    ASSUME NEW s \in Seq(Nat), NEW e \in Nat,
           NEW cap \in Nat \ {0}, Len(s) <= cap
    PROVE  Elements(Push(s, e, cap)) \cup (IF Len(s) < cap THEN {} ELSE {Head(s)})
             = Elements(s) \cup {e}
<1>1. CASE Len(s) < cap
  BY <1>1, AppendElements DEF Push
<1>2. CASE ~(Len(s) < cap)
  <2>1. s # <<>> /\ Tail(s) \in Seq(Nat)
    BY <1>2, TailFacts
  <2>2. Elements(Append(Tail(s), e)) = Elements(Tail(s)) \cup {e}
    BY <2>1, AppendElements
  <2> QED
    BY <1>2, <2>1, <2>2, TailElements DEF Push
<1> QED
  BY <1>1, <1>2

-----------------------------------------------------------------------------
(* The order of what one reader has got, of its snapshot and of its queue. *)

Ordered(g, t, q) ==
    /\ Rising(g)
    /\ Rising(t)
    /\ Rising(q)
    /\ Before(g, t)
    /\ Before(g, q)
    /\ Before(t, q)

\* e is newer than everything in s.
Newer(e, s) == \A i \in DOMAIN s : s[i] < e

LEMMA OrderedOffer ==
    ASSUME NEW g \in Seq(Nat), NEW t \in Seq(Nat), NEW q \in Seq(Nat), NEW e \in Nat,
           Len(q) <= QueueSize,
           Ordered(g, t, q),
           e # End => Newer(e, g) /\ Newer(e, t) /\ Newer(e, q)
    PROVE  Ordered(g, t, Offer(q, e))
<1> DEFINE p == Offer(q, e)
           d == Shift(q, QueueSize)
           m == Len(q) - d
<1>1. /\ DOMAIN p = 1..(m + 1)
      /\ \A i \in 1..m : p[i] = q[i + d]
      /\ p[m + 1] = e
      /\ m \in Nat /\ d \in {0, 1} /\ m + d = Len(q)
      /\ \A i \in 1..m : i + d \in DOMAIN q
  <2>1. QueueSize \in Nat \ {0}
    BY StreamAssumption
  <2>2. d \in {0, 1} /\ m \in Nat /\ m + d = Len(q) /\ m + 1 = Len(q) + 1 - d
    BY <2>1 DEF Shift
  <2>3. \A i \in 1..m : i + d \in DOMAIN q
    BY <2>2
  <2> HIDE DEF d
  <2>4. /\ DOMAIN Push(q, e, QueueSize) = 1..(Len(q) + 1 - d)
        /\ \A i \in 1..(Len(q) - d) : Push(q, e, QueueSize)[i] = q[i + d]
        /\ Push(q, e, QueueSize)[Len(q) + 1 - d] = e
    <3>1. q \in Seq(Nat) /\ e \in Nat /\ QueueSize \in Nat \ {0} /\ Len(q) <= QueueSize
      BY <2>1
    <3>2. /\ DOMAIN Push(q, e, QueueSize) = 1..(Len(q) + 1 - Shift(q, QueueSize))
          /\ \A i \in 1..(Len(q) - Shift(q, QueueSize)) :
               Push(q, e, QueueSize)[i] = q[i + Shift(q, QueueSize)]
          /\ Push(q, e, QueueSize)[Len(q) + 1 - Shift(q, QueueSize)] = e
      BY <3>1, PushFacts, SMTT(30)
    <3> QED
      BY <3>2 DEF d
  <2>5. p = Push(q, e, QueueSize)
    BY DEF Offer
  <2> HIDE DEF p
  <2>6. DOMAIN p = 1..(m + 1) /\ p[m + 1] = e
    BY <2>2, <2>4, <2>5
  <2>7. \A i \in 1..m : p[i] = q[i + d]
    BY <2>4, <2>5
  <2> QED
    BY <2>2, <2>3, <2>6, <2>7
<1>2. /\ \A i \in DOMAIN q : q[i] \in Nat
      /\ \A i \in DOMAIN g : g[i] \in Nat
      /\ \A i \in DOMAIN t : t[i] \in Nat
      /\ DOMAIN q = 1..Len(q)
  OBVIOUS
<1>3. /\ \A i, k \in DOMAIN q : i < k /\ q[k] # 0 => q[i] < q[k]
      /\ \A i \in DOMAIN g, k \in DOMAIN q : q[k] # 0 => g[i] < q[k]
      /\ \A i \in DOMAIN t, k \in DOMAIN q : q[k] # 0 => t[i] < q[k]
      /\ e # 0 => /\ \A i \in DOMAIN q : q[i] < e
                  /\ \A i \in DOMAIN g : g[i] < e
                  /\ \A i \in DOMAIN t : t[i] < e
  BY DEF Ordered, Rising, Before, Newer, End
<1> HIDE DEF p, d, m
<1>4. \A i, k \in DOMAIN p : i < k /\ p[k] # 0 => p[i] < p[k]
  <2> SUFFICES ASSUME NEW i \in 1..(m + 1), NEW k \in 1..(m + 1), i < k, p[k] # 0
               PROVE  p[i] < p[k]
    BY <1>1
  <2>1. i \in 1..m /\ i + d \in DOMAIN q /\ p[i] = q[i + d]
    BY <1>1
  <2>2. CASE k = m + 1
    BY <2>1, <2>2, <1>1, <1>3
  <2>3. CASE k \in 1..m
    <3>1. k + d \in DOMAIN q /\ p[k] = q[k + d] /\ i + d < k + d
      BY <2>3, <1>1
    <3> QED
      BY <3>1, <2>1, <1>3
  <2> QED
    BY <2>2, <2>3, <1>1
<1>5. \A i \in DOMAIN g, k \in DOMAIN p : p[k] # 0 => g[i] < p[k]
  <2> SUFFICES ASSUME NEW i \in DOMAIN g, NEW k \in 1..(m + 1), p[k] # 0
               PROVE  g[i] < p[k]
    BY <1>1
  <2>1. CASE k = m + 1
    BY <2>1, <1>1, <1>3
  <2>2. CASE k \in 1..m
    BY <2>2, <1>1, <1>3
  <2> QED
    BY <2>1, <2>2, <1>1
<1>6. \A i \in DOMAIN t, k \in DOMAIN p : p[k] # 0 => t[i] < p[k]
  <2> SUFFICES ASSUME NEW i \in DOMAIN t, NEW k \in 1..(m + 1), p[k] # 0
               PROVE  t[i] < p[k]
    BY <1>1
  <2>1. CASE k = m + 1
    BY <2>1, <1>1, <1>3
  <2>2. CASE k \in 1..m
    BY <2>2, <1>1, <1>3
  <2> QED
    BY <2>1, <2>2, <1>1
<1>7. Rising(p) /\ Before(g, p) /\ Before(t, p)
  BY <1>4, <1>5, <1>6 DEF Rising, Before, End
<1> QED
  BY <1>7 DEF Ordered, p

\* The head of u moves to the end of g.
LEMMA OrderedMove ==
    ASSUME NEW g \in Seq(Nat), NEW u \in Seq(Nat), u # <<>>,
           Rising(g), Rising(u), Before(g, u)
    PROVE  /\ Rising(Tail(u))
           /\ Before(g, Tail(u))
           /\ \A v \in Seq(Nat) : Before(u, v) => Before(Tail(u), v)
           /\ Head(u) # End => /\ Rising(Append(g, Head(u)))
                               /\ Before(Append(g, Head(u)), Tail(u))
                               /\ \A v \in Seq(Nat) : Before(g, v) /\ Before(u, v) =>
                                    Before(Append(g, Head(u)), v)
<1> DEFINE w == Tail(u)
           h == Head(u)
           a == Append(g, h)
<1>1. /\ DOMAIN u = 1..Len(u) /\ Len(u) \in Nat \ {0}
      /\ DOMAIN w = 1..(Len(u) - 1)
      /\ \A i \in 1..(Len(u) - 1) : w[i] = u[i + 1]
      /\ h = u[1] /\ h \in Nat /\ 1 \in DOMAIN u
      /\ \A i \in DOMAIN u : u[i] \in Nat
  BY TailFacts
<1>2. /\ DOMAIN g = 1..Len(g) /\ Len(g) \in Nat
      /\ DOMAIN a = 1..(Len(g) + 1)
      /\ \A i \in 1..Len(g) : a[i] = g[i]
      /\ a[Len(g) + 1] = h
      /\ \A i \in DOMAIN g : g[i] \in Nat
  BY <1>1, AppendFacts
<1> HIDE DEF w, h, a
<1>3. \A i \in DOMAIN w : i + 1 \in DOMAIN u /\ w[i] = u[i + 1] /\ 1 < i + 1
  BY <1>1
<1>4. Rising(w) /\ Before(g, w) /\ \A v \in Seq(Nat) : Before(u, v) => Before(w, v)
  <2>1. \A i, k \in DOMAIN w : i < k /\ w[k] # 0 => w[i] < w[k]
    <3> SUFFICES ASSUME NEW i \in DOMAIN w, NEW k \in DOMAIN w, i < k, w[k] # 0
                 PROVE  w[i] < w[k]
      OBVIOUS
    <3>1. i + 1 \in DOMAIN u /\ k + 1 \in DOMAIN u /\ i + 1 < k + 1
      BY <1>1
    <3> QED
      BY <3>1, <1>3 DEF Rising, End
  <2> QED
    BY <2>1, <1>3 DEF Rising, Before, End
<1>5. ASSUME h # End
      PROVE  /\ Rising(a)
             /\ Before(a, w)
             /\ \A v \in Seq(Nat) : Before(g, v) /\ Before(u, v) => Before(a, v)
  <2>1. \A i \in DOMAIN g : g[i] < h
    BY <1>1, <1>3, <1>5 DEF Before, End
  <2>2. \A i \in DOMAIN a : (i \in DOMAIN g /\ a[i] = g[i]) \/ (i = Len(g) + 1 /\ a[i] = h)
    BY <1>2
  <2>3. Rising(a)
    <3> SUFFICES ASSUME NEW i \in DOMAIN a, NEW k \in DOMAIN a, i < k, a[k] # 0
                 PROVE  a[i] < a[k]
      BY DEF Rising, End
    <3>1. i \in DOMAIN g /\ a[i] = g[i]
      BY <2>2, <1>2
    <3> QED
      BY <3>1, <2>1, <2>2 DEF Rising, End
  <2>4. \A k \in DOMAIN w : w[k] # 0 => h < w[k]
    BY <1>1, <1>3 DEF Rising, End
  <2>5. Before(a, w)
    BY <2>2, <2>4, <1>4 DEF Before, End
  <2>6. ASSUME NEW v \in Seq(Nat), Before(g, v), Before(u, v)
        PROVE  Before(a, v)
    BY <2>2, <2>6, <1>1 DEF Before, End
  <2> QED
    BY <2>3, <2>5, <2>6
<1> QED
  BY <1>4, <1>5 DEF w, h, a

LEMMA OrderedReplay ==
    ASSUME NEW g \in Seq(Nat), NEW t \in Seq(Nat), NEW q \in Seq(Nat),
           t # <<>>, Head(t) # End,
           Ordered(g, t, q)
    PROVE  Ordered(Append(g, Head(t)), Tail(t), q)
  BY OrderedMove DEF Ordered

LEMMA OrderedPull ==
    ASSUME NEW g \in Seq(Nat), NEW t \in Seq(Nat), NEW q \in Seq(Nat),
           t = <<>>, q # <<>>,
           Ordered(g, t, q)
    PROVE  /\ Ordered(g, t, Tail(q))
           /\ Head(q) # End => Ordered(Append(g, Head(q)), t, Tail(q))
<1>1. \A s \in Seq(Nat) : Rising(t) /\ Before(t, s) /\ Before(s, t)
  BY DEF Rising, Before
<1>2. Tail(q) \in Seq(Nat) /\ Head(q) \in Nat /\ Append(g, Head(q)) \in Seq(Nat)
  BY TailFacts, AppendFacts
<1> QED
  BY <1>1, <1>2, OrderedMove DEF Ordered

-----------------------------------------------------------------------------
(* The inductive invariant.                                                *)

\* The ring holds the newest events and no others.
RingIsNewest ==
    /\ Len(ring) = IF n < MaxProgress THEN n ELSE MaxProgress
    /\ \A i \in DOMAIN ring : ring[i] = (n - Len(ring)) + i

Waiting(r) == Elements(got[r]) \cup Elements(todo[r]) \cup Elements(queue[r]) \cup lost[r]

ReaderInv(r) ==
    /\ Ordered(got[r], todo[r], queue[r])
    /\ Newer(n + 1, got[r]) /\ Newer(n + 1, todo[r]) /\ Newer(n + 1, queue[r])
    /\ joined[r] <= n
    /\ pc[r] # "replay" => todo[r] = <<>>
    /\ pc[r] = "idle" => got[r] = <<>> /\ queue[r] = <<>> /\ lost[r] = {}
    /\ pc[r] \in Attached /\ stage # "evicted" => Waiting(r) \ {End} = Since(r)..n

IInv == TypeOK /\ RingIsNewest /\ \A r \in Readers : ReaderInv(r)

LEMMA PushType ==
    ASSUME NEW S, NEW s \in Seq(S), NEW e \in S,
           NEW cap \in Nat \ {0}, Len(s) <= cap
    PROVE  /\ Push(s, e, cap) \in Seq(S)
           /\ Len(Push(s, e, cap)) <= cap
<1>1. CASE Len(s) < cap
  BY <1>1, AppendFacts DEF Push
<1>2. CASE ~(Len(s) < cap)
  <2>1. s # <<>>
    BY <1>2
  <2>2. Tail(s) \in Seq(S) /\ Len(Tail(s)) = Len(s) - 1
    BY <2>1, TailFacts
  <2> QED
    BY <1>2, <2>2, AppendFacts DEF Push
<1> QED
  BY <1>1, <1>2

LEMMA FanoutType ==
    ASSUME TypeOK, NEW e \in Events \cup {End}, Fanout(e)
    PROVE  /\ pc' \in [Readers -> {"idle", "done", "gone"} \cup Attached]
           /\ todo' \in [Readers -> Seq(Events)]
           /\ queue' \in [Readers -> Seq(Events \cup {End})]
           /\ \A r \in Readers : Len(queue'[r]) <= QueueSize
           /\ got' \in [Readers -> Seq(Events)]
           /\ lost' \in [Readers -> SUBSET (Events \cup {End})]
           /\ joined' \in [Readers -> 0..MaxEvents]
<1>1. ASSUME NEW r \in Readers
      PROVE  /\ Offer(queue[r], e) \in Seq(Events \cup {End})
             /\ Len(Offer(queue[r], e)) <= QueueSize
             /\ Dropped(queue[r]) \subseteq Events \cup {End}
  <2>1. QueueSize \in Nat \ {0} /\ queue[r] \in Seq(Events \cup {End})
        /\ Len(queue[r]) <= QueueSize
    BY StreamAssumption DEF TypeOK
  <2>2. CASE Len(queue[r]) < QueueSize
    BY <2>1, <2>2, PushType DEF Offer, Dropped
  <2>3. CASE ~(Len(queue[r]) < QueueSize)
    <3>1. queue[r] # <<>>
      BY <2>1, <2>3
    <3>2. Head(queue[r]) \in Events \cup {End}
      BY <2>1, <3>1, TailFacts
    <3> QED
      BY <2>1, <2>3, <3>2, PushType DEF Offer, Dropped
  <2> QED
    BY <2>2, <2>3
<1> QED
  BY <1>1 DEF Fanout, TypeOK

LEMMA TypeStep == TypeOK /\ [Next]_vars => TypeOK'
<1> SUFFICES ASSUME TypeOK, [Next]_vars PROVE TypeOK'
  OBVIOUS
<1>1. ASSUME NEW r \in Readers, NEW mode \in Attached, NEW dry \in {"done", "live"},
             Pull(r, mode, dry)
      PROVE  /\ pc' \in [Readers -> {"idle", "done", "gone"} \cup Attached]
             /\ queue' \in [Readers -> Seq(Events \cup {End})]
             /\ \A x \in Readers : Len(queue'[x]) <= QueueSize
             /\ got' \in [Readers -> Seq(Events)]
  <2>1. queue[r] \in Seq(Events \cup {End}) /\ got[r] \in Seq(Events)
        /\ Len(queue[r]) <= QueueSize /\ QueueSize \in Nat
    BY StreamAssumption DEF TypeOK
  <2>2. CASE queue[r] = <<>>
    BY <2>2, <1>1 DEF Pull, TypeOK, Attached
  <2>3. CASE queue[r] # <<>>
    <3>1. /\ Tail(queue[r]) \in Seq(Events \cup {End})
          /\ Len(Tail(queue[r])) <= QueueSize
          /\ Head(queue[r]) \in Events \cup {End}
          /\ Head(queue[r]) # End => Append(got[r], Head(queue[r])) \in Seq(Events)
      BY <2>1, <2>3, TailFacts, AppendFacts
    <3> QED
      BY <2>3, <3>1, <1>1 DEF Pull, TypeOK, Attached
  <2> QED
    BY <2>2, <2>3
<1>2. ASSUME Publish
      PROVE  /\ n' \in 0..MaxEvents
             /\ n + 1 \in Events
             /\ ring' \in Seq(Events) /\ Len(ring') <= MaxProgress
  <2>1. n + 1 \in Events /\ n' \in 0..MaxEvents
    BY <1>2, StreamAssumption DEF Publish, TypeOK, Events
  <2>2. ring \in Seq(Events) /\ Len(ring) <= MaxProgress /\ MaxProgress \in Nat \ {0}
    BY StreamAssumption DEF TypeOK
  <2>3. Push(ring, n + 1, MaxProgress) \in Seq(Events)
        /\ Len(Push(ring, n + 1, MaxProgress)) <= MaxProgress
    BY <2>1, <2>2, PushType
  <2> QED
    BY <1>2, <2>1, <2>3 DEF Publish
<1>3. ASSUME NEW e \in Events \cup {End}, Fanout(e),
             stage' \in {"running", "settled", "closed", "evicted"}, n' \in 0..MaxEvents, ring' \in Seq(Events), Len(ring') <= MaxProgress,
             finals' \subseteq Events, late' \in BOOLEAN
      PROVE  TypeOK'
  BY <1>3, FanoutType DEF TypeOK
<1>L. late \in BOOLEAN /\ (late' = late \/ Emit => late' \in BOOLEAN)
  BY DEF TypeOK, Emit
<1>4. CASE Begin
  <2>1. late' \in BOOLEAN
    BY <1>4, <1>L DEF Begin
  <2> QED
    BY <1>4, <1>2, <1>3, <2>1 DEF Begin, Publish, TypeOK
<1>5. CASE Emit
  <2>1. late' \in BOOLEAN
    BY <1>5, <1>L
  <2> QED
    BY <1>5, <1>2, <1>3, <2>1 DEF Emit, Publish, TypeOK, Terminal
<1>6. CASE Settle
  <2>1. late' \in BOOLEAN
    BY <1>6, <1>L DEF Settle
  <2> QED
    BY <1>6, <1>2, <1>3, <2>1 DEF Settle, Publish, TypeOK
<1>7. CASE EndOfStream
  <2>1. late' \in BOOLEAN
    BY <1>7, <1>L DEF EndOfStream
  <2> QED
    BY <1>7, <1>3, <2>1 DEF EndOfStream, TypeOK
<1>8. CASE Evict
  BY <1>8 DEF Evict, TypeOK, readerVars
<1>9. ASSUME NEW r \in Readers,
             Subscribe(r) \/ Replay(r) \/ Drain(r) \/ Listen(r) \/ Get(r) \/ Disconnect(r)
      PROVE  TypeOK'
  <2>1. CASE Subscribe(r)
    BY <2>1 DEF Subscribe, TypeOK, jobVars, Attached
  <2>2. CASE Replay(r)
    <3>1. todo[r] \in Seq(Events) /\ got[r] \in Seq(Events) /\ todo[r] # <<>>
      BY <2>2 DEF Replay, TypeOK
    <3>2. Tail(todo[r]) \in Seq(Events) /\ Append(got[r], Head(todo[r])) \in Seq(Events)
      BY <3>1, TailFacts, AppendFacts
    <3> QED
      BY <2>2, <3>2 DEF Replay, TypeOK, jobVars
  <2>3. CASE Drain(r)
    BY <2>3, <1>1 DEF Drain, TypeOK, jobVars, Attached
  <2>4. CASE Listen(r)
    BY <2>4, <1>1 DEF Listen, TypeOK, jobVars, Attached
  <2>5. CASE Get(r)
    BY <2>5, <1>1 DEF Get, TypeOK, jobVars, Attached
  <2>6. CASE Disconnect(r)
    <3>1. <<>> \in Seq(Events) /\ <<>> \in Seq(Events \cup {End}) /\ Len(<<>>) <= QueueSize
      BY StreamAssumption
    <3> QED
      BY <2>6, <3>1 DEF Disconnect, TypeOK, jobVars, Attached
  <2> QED
    BY <1>9, <2>1, <2>2, <2>3, <2>4, <2>5, <2>6
<1>10. CASE UNCHANGED vars
  BY <1>10 DEF TypeOK, vars, jobVars, readerVars
<1> QED
  BY <1>4, <1>5, <1>6, <1>7, <1>8, <1>9, <1>10 DEF Next, JobStep, Resume

LEMMA ReaderTypes ==
    ASSUME TypeOK, NEW r \in Readers
    PROVE  /\ got[r] \in Seq(Nat) /\ todo[r] \in Seq(Nat) /\ queue[r] \in Seq(Nat)
           /\ got[r] \in Seq(Events) /\ todo[r] \in Seq(Events)
           /\ queue[r] \in Seq(Events \cup {End})
           /\ lost[r] \subseteq Nat
           /\ Len(queue[r]) <= QueueSize
           /\ QueueSize \in Nat \ {0} /\ MaxProgress \in Nat \ {0} /\ MaxEvents \in Nat
           /\ n \in Nat /\ joined[r] \in Nat
           /\ pc[r] \in {"idle", "done", "gone"} \cup Attached
<1>1. Events \subseteq Nat /\ Events \cup {End} \subseteq Nat
  BY StreamAssumption DEF Events, End
<1>2. got[r] \in Seq(Events) /\ todo[r] \in Seq(Events)
      /\ queue[r] \in Seq(Events \cup {End}) /\ lost[r] \subseteq Events \cup {End}
  BY DEF TypeOK
<1>3. \A S, T : S \subseteq T => Seq(S) \subseteq Seq(T)
  OBVIOUS
<1>4. got[r] \in Seq(Nat) /\ todo[r] \in Seq(Nat) /\ queue[r] \in Seq(Nat) /\ lost[r] \subseteq Nat
  BY <1>1, <1>2, <1>3, Zenon
<1> QED
  BY <1>2, <1>4, StreamAssumption DEF TypeOK

LEMMA NewerOffer ==
    ASSUME NEW q \in Seq(Nat), Len(q) <= QueueSize, NEW b \in Nat, NEW e \in Nat,
           e < b, Newer(b, q)
    PROVE  Newer(b, Offer(q, e))
<1>1. QueueSize \in Nat \ {0}
  BY StreamAssumption
<1>2. /\ DOMAIN Offer(q, e) = 1..(Len(q) + 1 - Shift(q, QueueSize))
      /\ \A i \in 1..(Len(q) - Shift(q, QueueSize)) :
           Offer(q, e)[i] = q[i + Shift(q, QueueSize)]
      /\ Offer(q, e)[Len(q) + 1 - Shift(q, QueueSize)] = e
  BY <1>1, PushFacts DEF Offer
<1>3. Shift(q, QueueSize) \in {0, 1} /\ Shift(q, QueueSize) <= Len(q)
      /\ DOMAIN q = 1..Len(q)
  BY <1>1 DEF Shift
<1>4. ASSUME NEW i \in DOMAIN Offer(q, e)
      PROVE  Offer(q, e)[i] < b
  <2>1. CASE i = Len(q) + 1 - Shift(q, QueueSize)
    BY <2>1, <1>2
  <2>2. CASE i # Len(q) + 1 - Shift(q, QueueSize)
    <3>1. i \in 1..(Len(q) - Shift(q, QueueSize))
      BY <2>2, <1>2, <1>3
    <3>2. i + Shift(q, QueueSize) \in DOMAIN q
      BY <3>1, <1>3
    <3> QED
      BY <3>1, <3>2, <1>2 DEF Newer
  <2> QED
    BY <2>1, <2>2
<1> QED
  BY <1>4 DEF Newer

LEMMA NewerWeakens ==
    ASSUME NEW s \in Seq(Nat), NEW b \in Nat, Newer(b, s)
    PROVE  Newer(b + 1, s)
<1>1. \A i \in DOMAIN s : s[i] \in Nat
  OBVIOUS
<1> QED
  BY <1>1 DEF Newer

\* A published event, or the sentinel, reaches every subscribed reader.
LEMMA FanoutReader ==
    ASSUME TypeOK, NEW r \in Readers, ReaderInv(r), NEW e \in Nat, Fanout(e),
           (e = End /\ n' = n) \/ (e = n + 1 /\ n' = n + 1),
           stage' = "evicted" <=> stage = "evicted"
    PROVE  ReaderInv(r)'
<1> DEFINE g == got[r]
           t == todo[r]
           q == queue[r]
<1>1. /\ pc'[r] = pc[r] /\ todo'[r] = t /\ got'[r] = g /\ joined'[r] = joined[r]
      /\ queue'[r] = IF Subscribed(r) THEN Offer(q, e) ELSE q
      /\ lost'[r] = IF Subscribed(r) THEN lost[r] \cup Dropped(q) ELSE lost[r]
  BY DEF Fanout, TypeOK
<1>2. /\ g \in Seq(Nat) /\ t \in Seq(Nat) /\ q \in Seq(Nat)
      /\ lost[r] \subseteq Nat /\ Len(q) <= QueueSize
      /\ QueueSize \in Nat \ {0} /\ MaxProgress \in Nat \ {0}
      /\ n \in Nat /\ joined[r] \in Nat
  BY ReaderTypes
<1>3. n' \in Nat /\ n <= n' /\ e < n' + 1
  BY <1>2 DEF End
<1>4. Newer(n' + 1, g) /\ Newer(n' + 1, t) /\ Newer(n' + 1, q)
  <2>1. Newer(n + 1, g) /\ Newer(n + 1, t) /\ Newer(n + 1, q)
    BY DEF ReaderInv
  <2>2. CASE n' = n
    BY <2>1, <2>2
  <2>3. CASE n' = n + 1
    BY <2>1, <2>3, <1>2, NewerWeakens
  <2> QED
    BY <2>2, <2>3
<1>5. joined'[r] <= n' /\ Since(r)' = Since(r)
  BY <1>1, <1>2, <1>3 DEF ReaderInv, Since
<1>6. CASE ~Subscribed(r)
  <2>1. ~(pc'[r] \in Attached /\ stage' # "evicted")
    BY <1>6, <1>1 DEF Subscribed
  <2> QED
    BY <1>6, <1>1, <1>4, <1>5, <2>1 DEF ReaderInv
<1>7. CASE Subscribed(r)
  <2>1. queue'[r] = Offer(q, e) /\ lost'[r] = lost[r] \cup Dropped(q)
    BY <1>7, <1>1
  <2>2. Newer(n' + 1, Offer(q, e))
    BY <1>2, <1>3, <1>4, NewerOffer
  <2>3. e # End => Newer(e, g) /\ Newer(e, t) /\ Newer(e, q)
    BY DEF ReaderInv
  <2>4. Ordered(g, t, Offer(q, e))
    BY <1>2, <2>3, OrderedOffer DEF ReaderInv
  <2>5. pc[r] # "idle"
    BY <1>7 DEF Subscribed, Attached
  <2>6. Waiting(r) \ {End} = Since(r)..n
    BY <1>7 DEF Subscribed, ReaderInv
  <2>7. Elements(Offer(q, e)) \cup Dropped(q) = Elements(q) \cup {e}
    <3>1. Elements(Push(q, e, QueueSize))
            \cup (IF Len(q) < QueueSize THEN {} ELSE {Head(q)}) = Elements(q) \cup {e}
      BY <1>2, PushElements
    <3> QED
      BY <3>1 DEF Offer, Dropped
  <2>8. Waiting(r)' \ {End} = (Waiting(r) \cup {e}) \ {End}
    <3>1. Waiting(r)' = Elements(g) \cup Elements(t) \cup Elements(Offer(q, e))
                          \cup lost[r] \cup Dropped(q)
      BY <1>1, <2>1 DEF Waiting, Elements
    <3> QED
      BY <3>1, <2>7 DEF Waiting
  <2>9. Since(r) \in Nat /\ Since(r) <= n + 1
    <3>1. joined[r] <= n
      BY DEF ReaderInv
    <3> QED
      BY <1>2, <3>1 DEF Since
  <2>10. Waiting(r)' \ {End} = Since(r)..n'
    <3>1. CASE e = End /\ n' = n
      BY <3>1, <2>6, <2>8
    <3>2. CASE e = n + 1 /\ n' = n + 1
      <4>1. Since(r)..(n + 1) = (Since(r)..n) \cup {n + 1}
        BY <2>9, <1>2
      <4>2. e # End
        BY <3>2, <1>2 DEF End
      <4> QED
        BY <3>2, <4>1, <4>2, <2>6, <2>8
    <3> QED
      BY <3>1, <3>2
  <2> QED
    BY <1>1, <1>4, <1>5, <2>1, <2>2, <2>4, <2>5, <2>10 DEF ReaderInv
<1> QED
  BY <1>6, <1>7

LEMMA RingPush ==
    ASSUME TypeOK, RingIsNewest, Publish
    PROVE  RingIsNewest'
<1> DEFINE d == Shift(ring, MaxProgress)
           m == Len(ring)
<1>1. /\ MaxProgress \in Nat \ {0} /\ n \in Nat /\ ring \in Seq(Nat) /\ m <= MaxProgress
      /\ n + 1 \in Nat /\ m \in Nat
  <2>1. Events \subseteq Nat /\ ring \in Seq(Events)
    BY DEF Events, TypeOK
  <2>2. ring \in Seq(Nat)
    <3>1. \A S, T : S \subseteq T => Seq(S) \subseteq Seq(T)
      OBVIOUS
    <3> QED
      BY <2>1, <3>1, Zenon
  <2> QED
    BY <2>2, StreamAssumption DEF TypeOK
<1>2. /\ Len(ring') = m + 1 - d
      /\ DOMAIN ring' = 1..(m + 1 - d)
      /\ \A i \in 1..(m - d) : ring'[i] = ring[i + d]
      /\ ring'[m + 1 - d] = n + 1
  BY <1>1, PushFacts DEF Publish
<1>3. n' = n + 1
  BY DEF Publish
<1>4. d = (IF m < MaxProgress THEN 0 ELSE 1) /\ DOMAIN ring = 1..m
  BY <1>1 DEF Shift
<1> HIDE DEF d, m
<1>5. m = (IF n < MaxProgress THEN n ELSE MaxProgress) /\ \A i \in 1..m : ring[i] = (n - m) + i
  BY <1>4 DEF RingIsNewest, m
<1>6. Len(ring') = IF n' < MaxProgress THEN n' ELSE MaxProgress
  BY <1>1, <1>2, <1>3, <1>4, <1>5
<1>7. ASSUME NEW i \in DOMAIN ring'
      PROVE  ring'[i] = (n' - Len(ring')) + i
  <2>1. CASE i = m + 1 - d
    BY <2>1, <1>1, <1>2, <1>3, <1>4
  <2>2. CASE i # m + 1 - d
    <3>1. i \in 1..(m - d) /\ i + d \in 1..m
      BY <2>2, <1>1, <1>2, <1>4
    <3>2. ring'[i] = (n - m) + (i + d)
      BY <3>1, <1>2, <1>5
    <3> QED
      BY <3>1, <3>2, <1>1, <1>2, <1>3, <1>4
  <2> QED
    BY <2>1, <2>2
<1> QED
  BY <1>6, <1>7 DEF RingIsNewest

LEMMA MoveHead ==
    ASSUME NEW g \in Seq(Nat), NEW u \in Seq(Nat), u # <<>>, NEW b \in Nat,
           Newer(b, g), Newer(b, u)
    PROVE  /\ Newer(b, Tail(u))
           /\ Newer(b, Append(g, Head(u)))
           /\ Elements(Append(g, Head(u))) \cup Elements(Tail(u)) = Elements(g) \cup Elements(u)
           /\ Elements(u) = Elements(Tail(u)) \cup {Head(u)}
           /\ Tail(u) \in Seq(Nat) /\ Append(g, Head(u)) \in Seq(Nat)
<1>1. /\ DOMAIN u = 1..Len(u) /\ Len(u) \in Nat \ {0}
      /\ Head(u) \in Nat /\ Head(u) = u[1]
      /\ DOMAIN Tail(u) = 1..(Len(u) - 1)
      /\ \A i \in 1..(Len(u) - 1) : Tail(u)[i] = u[i + 1]
      /\ Tail(u) \in Seq(Nat)
  BY TailFacts
<1>2. /\ DOMAIN Append(g, Head(u)) = 1..(Len(g) + 1)
      /\ \A i \in 1..Len(g) : Append(g, Head(u))[i] = g[i]
      /\ Append(g, Head(u))[Len(g) + 1] = Head(u)
      /\ Append(g, Head(u)) \in Seq(Nat)
      /\ DOMAIN g = 1..Len(g) /\ Len(g) \in Nat
  BY <1>1, AppendFacts
<1>3. \A i \in DOMAIN Tail(u) : i + 1 \in DOMAIN u /\ Tail(u)[i] = u[i + 1]
  BY <1>1
<1>4. Newer(b, Tail(u))
  BY <1>3 DEF Newer
<1>5. 1 \in DOMAIN u
  BY <1>1
<1>6. Newer(b, Append(g, Head(u)))
  <2> SUFFICES ASSUME NEW i \in 1..(Len(g) + 1) PROVE Append(g, Head(u))[i] < b
    BY <1>2 DEF Newer
  <2>1. CASE i = Len(g) + 1
    BY <2>1, <1>1, <1>2, <1>5 DEF Newer
  <2>2. CASE i \in 1..Len(g)
    BY <2>2, <1>2 DEF Newer
  <2> QED
    BY <2>1, <2>2, <1>2
<1>7. Elements(Append(g, Head(u))) = Elements(g) \cup {Head(u)}
  BY <1>1, AppendElements
<1>8. Elements(u) = {Head(u)} \cup Elements(Tail(u))
  BY TailElements
<1> QED
  BY <1>1, <1>2, <1>4, <1>6, <1>7, <1>8

\* What only one reader's step needs: the others keep their invariant.
LEMMA OtherReaders ==
    ASSUME TypeOK, NEW r \in Readers, NEW x \in Readers, x # r, ReaderInv(x),
           Subscribe(r) \/ Replay(r) \/ Drain(r) \/ Listen(r) \/ Get(r) \/ Disconnect(r)
    PROVE  ReaderInv(x)'
<1>1. /\ n' = n /\ stage' = stage
      /\ pc'[x] = pc[x] /\ todo'[x] = todo[x] /\ queue'[x] = queue[x]
      /\ got'[x] = got[x] /\ lost'[x] = lost[x] /\ joined'[x] = joined[x]
  BY DEF TypeOK, Subscribe, Replay, Drain, Listen, Get, Pull, Disconnect, jobVars
<1>2. Waiting(x)' = Waiting(x) /\ Since(x)' = Since(x)
  BY <1>1 DEF Waiting, Since
<1> QED
  BY <1>1, <1>2 DEF ReaderInv

LEMMA PullReader ==
    ASSUME TypeOK, NEW r \in Readers, ReaderInv(r), todo[r] = <<>>, pc[r] \in Attached,
           NEW mode \in {"drain", "live"}, NEW dry \in {"done", "live"}, Pull(r, mode, dry),
           UNCHANGED <<jobVars, todo, lost, joined>>
    PROVE  ReaderInv(r)'
<1> DEFINE g == got[r]
           t == todo[r]
           q == queue[r]
<1>1. /\ g \in Seq(Nat) /\ t \in Seq(Nat) /\ q \in Seq(Nat) /\ n + 1 \in Nat
  BY ReaderTypes
<1>2. /\ n' = n /\ stage' = stage /\ todo'[r] = t /\ lost'[r] = lost[r]
      /\ joined'[r] = joined[r] /\ Since(r)' = Since(r)
  BY DEF jobVars, Since
<1>3. /\ Ordered(g, t, q) /\ Newer(n + 1, g) /\ Newer(n + 1, t) /\ Newer(n + 1, q)
      /\ joined[r] <= n
      /\ stage # "evicted" => Waiting(r) \ {End} = Since(r)..n
  BY DEF ReaderInv
<1>4. CASE q = <<>>
  <2>1. /\ pc'[r] = dry /\ queue'[r] = q /\ got'[r] = g
    BY <1>4 DEF Pull, TypeOK
  <2>2. Waiting(r)' = Waiting(r)
    BY <2>1, <1>2 DEF Waiting
  <2> QED
    BY <2>1, <2>2, <1>2, <1>3 DEF ReaderInv
<1>5. CASE q # <<>> /\ Head(q) = End
  <2>1. /\ pc'[r] = "done" /\ queue'[r] = Tail(q) /\ got'[r] = g
    BY <1>5 DEF Pull, TypeOK
  <2>2. Ordered(g, t, Tail(q)) /\ Newer(n + 1, Tail(q))
    BY <1>1, <1>3, <1>5, OrderedPull, MoveHead
  <2> QED
    BY <2>1, <2>2, <1>2, <1>3 DEF ReaderInv, Attached
<1>6. CASE q # <<>> /\ Head(q) # End
  <2>1. /\ pc'[r] = mode /\ queue'[r] = Tail(q) /\ got'[r] = Append(g, Head(q))
    BY <1>6 DEF Pull, TypeOK
  <2>2. Ordered(Append(g, Head(q)), t, Tail(q))
    BY <1>1, <1>3, <1>6, OrderedPull
  <2>3. /\ Newer(n + 1, Tail(q)) /\ Newer(n + 1, Append(g, Head(q)))
        /\ Elements(Append(g, Head(q))) \cup Elements(Tail(q)) = Elements(g) \cup Elements(q)
    BY <1>1, <1>3, <1>6, MoveHead
  <2>4. Waiting(r)' = Waiting(r)
    <3>1. Waiting(r)' = Elements(Append(g, Head(q))) \cup Elements(t)
                          \cup Elements(Tail(q)) \cup lost[r]
      BY <2>1, <1>2 DEF Waiting, Elements
    <3> QED
      BY <3>1, <2>3 DEF Waiting
  <2> QED
    BY <2>1, <2>2, <2>3, <2>4, <1>2, <1>3 DEF ReaderInv
<1> QED
  BY <1>4, <1>5, <1>6

LEMMA SubscribeReader ==
    ASSUME TypeOK, RingIsNewest, NEW r \in Readers, ReaderInv(r), Subscribe(r)
    PROVE  ReaderInv(r)'
<1>1. /\ n' = n /\ stage' = stage /\ todo'[r] = ring /\ joined'[r] = n /\ pc'[r] = "replay"
      /\ queue'[r] = <<>> /\ got'[r] = <<>> /\ lost'[r] = {}
  BY DEF Subscribe, TypeOK, jobVars, ReaderInv
<1>2. /\ n \in Nat /\ MaxProgress \in Nat \ {0} /\ ring \in Seq(Nat)
      /\ DOMAIN ring = 1..Len(ring) /\ Len(ring) \in Nat
  <2>1. Events \subseteq Nat /\ ring \in Seq(Events)
    BY DEF Events, TypeOK
  <2>2. \A S, T : S \subseteq T => Seq(S) \subseteq Seq(T)
    OBVIOUS
  <2>3. ring \in Seq(Nat)
    BY <2>1, <2>2, Zenon
  <2> QED
    BY <2>3, StreamAssumption DEF TypeOK
<1> DEFINE m == Len(ring)
           s == IF n < MaxProgress THEN 1 ELSE n - MaxProgress + 1
<1>3. m = (IF n < MaxProgress THEN n ELSE MaxProgress) /\ \A i \in 1..m : ring[i] = (n - m) + i
  BY <1>2 DEF RingIsNewest
<1>4. Since(r)' = s
  BY <1>1 DEF Since
<1>5. s = (n - m) + 1
  BY <1>2, <1>3
<1> HIDE DEF m, s
<1>6. Elements(ring) = s..n
  <2>1. ASSUME NEW x \in s..n PROVE x \in Elements(ring)
    <3>1. x - (n - m) \in 1..m
      BY <1>2, <1>3, <1>5
    <3>2. x - (n - m) \in DOMAIN ring /\ ring[x - (n - m)] = x
      BY <3>1, <1>2, <1>3 DEF m
    <3> QED
      BY <3>2 DEF Elements
  <2>2. ASSUME NEW x \in Elements(ring) PROVE x \in s..n
    <3>1. PICK i \in 1..m : x = ring[i]
      BY <2>2, <1>2 DEF Elements, m
    <3> QED
      BY <3>1, <1>2, <1>3, <1>5
  <2> QED
    BY <2>1, <2>2
<1>7. Ordered(<<>>, ring, <<>>) /\ Newer(n + 1, ring) /\ Newer(n + 1, <<>>)
  <2>1. \A i, k \in DOMAIN ring : i < k => ring[i] < ring[k]
    BY <1>2, <1>3 DEF m
  <2>2. \A i \in DOMAIN ring : ring[i] < n + 1
    BY <1>2, <1>3 DEF m
  <2> QED
    BY <2>1, <2>2 DEF Ordered, Rising, Before, Newer
<1>8. Waiting(r)' \ {End} = s..n
  <2>1. Elements(<<>>) = {}
    BY DEF Elements
  <2>2. 0 \notin s..n
    BY <1>2, <1>3, <1>5
  <2>3. Waiting(r)' = Elements(<<>>) \cup Elements(ring) \cup Elements(<<>>) \cup {}
    BY <1>1 DEF Waiting, Elements
  <2> QED
    BY <2>1, <2>2, <2>3, <1>6 DEF End
<1>9. n <= n
  BY <1>2
<1> QED
  BY <1>1, <1>4, <1>7, <1>8, <1>9 DEF ReaderInv

LEMMA ReplayReader ==
    ASSUME TypeOK, NEW r \in Readers, ReaderInv(r), Replay(r)
    PROVE  ReaderInv(r)'
<1> DEFINE g == got[r]
           t == todo[r]
<1>1. /\ n' = n /\ stage' = stage /\ pc'[r] = pc[r] /\ pc[r] = "replay"
      /\ todo'[r] = Tail(t) /\ got'[r] = Append(g, Head(t)) /\ t # <<>>
      /\ queue'[r] = queue[r] /\ lost'[r] = lost[r] /\ joined'[r] = joined[r]
  BY DEF Replay, TypeOK, jobVars
<1>2. g \in Seq(Nat) /\ t \in Seq(Nat) /\ queue[r] \in Seq(Nat) /\ n + 1 \in Nat
  BY ReaderTypes
<1>3. Head(t) # End
  <2>1. Head(t) \in Events
    BY <1>1, ReaderTypes, TailFacts
  <2> QED
    BY <2>1, StreamAssumption DEF Events, End
<1>4. /\ Ordered(g, t, queue[r]) /\ Newer(n + 1, g) /\ Newer(n + 1, t)
      /\ Newer(n + 1, queue[r]) /\ joined[r] <= n
      /\ stage # "evicted" => Waiting(r) \ {End} = Since(r)..n
  BY <1>1 DEF ReaderInv, Attached
<1>5. Ordered(Append(g, Head(t)), Tail(t), queue[r])
  BY <1>1, <1>2, <1>3, <1>4, OrderedReplay
<1>6. /\ Newer(n + 1, Tail(t)) /\ Newer(n + 1, Append(g, Head(t)))
      /\ Elements(Append(g, Head(t))) \cup Elements(Tail(t)) = Elements(g) \cup Elements(t)
  BY <1>1, <1>2, <1>4, MoveHead
<1>7. Waiting(r)' = Waiting(r) /\ Since(r)' = Since(r)
  <2>1. Waiting(r)' = Elements(Append(g, Head(t))) \cup Elements(Tail(t))
                        \cup Elements(queue[r]) \cup lost[r]
    BY <1>1 DEF Waiting, Elements
  <2> QED
    BY <2>1, <1>1, <1>6 DEF Waiting, Since
<1> QED
  BY <1>1, <1>4, <1>5, <1>6, <1>7 DEF ReaderInv

LEMMA DisconnectReader ==
    ASSUME TypeOK, NEW r \in Readers, ReaderInv(r), Disconnect(r)
    PROVE  ReaderInv(r)'
<1>1. /\ n' = n /\ stage' = stage /\ pc'[r] = "gone" /\ todo'[r] = <<>>
      /\ queue'[r] = <<>> /\ got'[r] = got[r] /\ joined'[r] = joined[r]
  BY DEF Disconnect, TypeOK, jobVars
<1>2. Ordered(got[r], <<>>, <<>>) /\ Newer(n + 1, <<>>)
  BY DEF ReaderInv, Ordered, Rising, Before, Newer
<1> QED
  BY <1>1, <1>2 DEF ReaderInv, Attached

LEMMA ReaderStep ==
    ASSUME IInv, NEW r \in Readers,
           Subscribe(r) \/ Replay(r) \/ Drain(r) \/ Listen(r) \/ Get(r) \/ Disconnect(r)
    PROVE  RingIsNewest' /\ \A x \in Readers : ReaderInv(x)'
<1>1. TypeOK /\ RingIsNewest /\ ReaderInv(r)
  BY DEF IInv
<1>2. ReaderInv(r)'
  <2>1. CASE Subscribe(r)
    BY <2>1, <1>1, SubscribeReader
  <2>2. CASE Replay(r)
    BY <2>2, <1>1, ReplayReader
  <2>3. CASE Drain(r)
    <3>1. pc[r] \in {"drain", "replay"}
      BY <2>3 DEF Drain, Replayed
    <3>2. todo[r] = <<>>
      BY <2>3, <1>1 DEF Drain, Replayed, ReaderInv
    <3> QED
      BY <2>3, <3>1, <3>2, <1>1, PullReader DEF Drain, Attached
  <2>4. CASE Listen(r)
    BY <2>4, <1>1, PullReader DEF Listen, Replayed, Attached
  <2>5. CASE Get(r)
    <3>1. todo[r] = <<>>
      BY <2>5, <1>1 DEF Get, ReaderInv
    <3> QED
      BY <2>5, <3>1, <1>1, PullReader DEF Get, Attached
  <2>6. CASE Disconnect(r)
    BY <2>6, <1>1, DisconnectReader
  <2> QED
    BY <2>1, <2>2, <2>3, <2>4, <2>5, <2>6
<1>3. ASSUME NEW x \in Readers, x # r PROVE ReaderInv(x)'
  BY <1>1, <1>3, OtherReaders DEF IInv
<1>4. ring' = ring /\ n' = n
  BY DEF Subscribe, Replay, Drain, Listen, Get, Disconnect, jobVars
<1>5. RingIsNewest'
  BY <1>1, <1>4 DEF RingIsNewest
<1> QED
  BY <1>2, <1>3, <1>5

LEMMA InitIInv == Init => IInv
<1> SUFFICES ASSUME Init PROVE IInv
  OBVIOUS
<1>1. TypeOK
  <2>1. <<>> \in Seq(Events) /\ <<>> \in Seq(Events \cup {End}) /\ Len(<<>>) = 0
    OBVIOUS
  <2>2. late \in BOOLEAN
    BY DEF Init
  <2> QED
    BY <2>1, <2>2, StreamAssumption DEF Init, TypeOK
<1>2. RingIsNewest
  BY StreamAssumption DEF Init, RingIsNewest
<1>3. ASSUME NEW r \in Readers PROVE ReaderInv(r)
  BY <1>3 DEF Init, ReaderInv, Ordered, Rising, Before, Newer, Attached
<1> QED
  BY <1>1, <1>2, <1>3 DEF IInv

LEMMA NextIInv == IInv /\ [Next]_vars => IInv'
<1> SUFFICES ASSUME IInv, [Next]_vars PROVE IInv'
  OBVIOUS
<1>1. TypeOK'
  BY TypeStep DEF IInv
<1>2. ASSUME Publish, stage' = "evicted" <=> stage = "evicted"
      PROVE  IInv'
  <2>1. RingIsNewest'
    BY <1>2, RingPush DEF IInv
  <2>2. n + 1 \in Nat /\ n' = n + 1 /\ Fanout(n + 1)
    BY <1>2, StreamAssumption DEF Publish, IInv, TypeOK
  <2>3. ASSUME NEW r \in Readers PROVE ReaderInv(r)'
    BY <1>2, <2>2, <2>3, FanoutReader DEF IInv
  <2> QED
    BY <1>1, <2>1, <2>3 DEF IInv
<1>3. CASE Begin
  BY <1>2, <1>3 DEF Begin
<1>4. CASE Emit
  BY <1>2, <1>4 DEF Emit
<1>5. CASE Settle
  BY <1>2, <1>5 DEF Settle
<1>6. CASE EndOfStream
  <2>1. ASSUME NEW r \in Readers PROVE ReaderInv(r)'
    BY <1>6, <2>1, FanoutReader DEF IInv, EndOfStream, End
  <2>2. RingIsNewest'
    BY <1>6 DEF EndOfStream, RingIsNewest, IInv
  <2> QED
    BY <1>1, <2>1, <2>2 DEF IInv
<1>7. CASE Evict
  BY <1>1, <1>7 DEF Evict, IInv, RingIsNewest, ReaderInv, Waiting, Since, readerVars
<1>8. ASSUME NEW r \in Readers,
             Subscribe(r) \/ Replay(r) \/ Drain(r) \/ Listen(r) \/ Get(r) \/ Disconnect(r)
      PROVE  IInv'
  BY <1>1, <1>8, ReaderStep DEF IInv
<1>9. CASE UNCHANGED vars
  BY <1>1, <1>9 DEF IInv, RingIsNewest, ReaderInv, Waiting, Since, vars, jobVars, readerVars
<1> QED
  BY <1>3, <1>4, <1>5, <1>6, <1>7, <1>8, <1>9 DEF Next, JobStep, Resume

-----------------------------------------------------------------------------
(* The invariant is inductive, with any number of late emits.              *)
THEOREM Invariance == Spec => []IInv
  BY InitIInv, NextIInv, PTL DEF Spec

(* Every queue and the ring stay within their bounds.                      *)
THEOREM TypeCorrect == Spec => []TypeOK
<1>1. IInv => TypeOK
  BY DEF IInv
<1> QED
  BY <1>1, Invariance, PTL

(* No reader sees an event twice or out of order.                          *)
THEOREM ReadersSeeOrder == Spec => []InOrder
<1>1. IInv => InOrder
  BY DEF IInv, InOrder, ReaderInv, Ordered
<1> QED
  BY <1>1, Invariance, PTL

(* No event between snapshot and queue is missed, "never both, never       *)
(* neither": what a reader lacks was dropped because it fell behind.       *)
THEOREM NothingSlipsBetween == Spec => []NoneMissing
<1>1. IInv => NoneMissing
  BY DEF IInv, NoneMissing, ReaderInv, Waiting
<1> QED
  BY <1>1, Invariance, PTL

-----------------------------------------------------------------------------
(* The end of the stream, when no task outlives the body with its emit.    *)

LEMMA OfferLast ==
    ASSUME NEW q \in Seq(Nat), Len(q) <= QueueSize, NEW e \in Nat
    PROVE  e \in Elements(Offer(q, e))
<1>1. QueueSize \in Nat \ {0}
  BY StreamAssumption
<1> DEFINE k == Len(q) + 1 - Shift(q, QueueSize)
<1>2. DOMAIN Offer(q, e) = 1..k /\ Offer(q, e)[k] = e
  BY <1>1, PushFacts DEF Offer
<1>3. k \in 1..k
  BY <1>1 DEF Shift
<1> QED
  BY <1>2, <1>3 DEF Elements

LEMMA FanoutOne ==
    ASSUME TypeOK, NEW e, Fanout(e), NEW r \in Readers
    PROVE  /\ pc'[r] = pc[r] /\ todo'[r] = todo[r] /\ got'[r] = got[r]
           /\ queue'[r] = IF Subscribed(r) THEN Offer(queue[r], e) ELSE queue[r]
  BY DEF Fanout, TypeOK

\* Whoever emits late leaves a trace: without one every emit was in time.
LEMMA LateStep ==
    ASSUME [Next]_vars, ~late'
    PROVE  ~late /\ (Emit => stage = "running")
<1>1. CASE Emit
  BY <1>1 DEF Emit
<1>2. CASE late' = late
  BY <1>2 DEF Emit
<1>3. CASE JobStep
  BY <1>1, <1>2, <1>3 DEF JobStep, Begin, Settle, EndOfStream, Evict
<1>4. ASSUME NEW r \in Readers, Subscribe(r) \/ Resume(r) \/ Disconnect(r)
      PROVE  late' = late
  BY <1>4 DEF Subscribe, Resume, Replay, Drain, Listen, Get, Disconnect, jobVars
<1>5. CASE UNCHANGED vars
  BY <1>2, <1>5 DEF vars, jobVars
<1> QED
  BY <1>2, <1>3, <1>4, <1>5 DEF Next

LEMMA SentinelStep ==
    ASSUME IInv, SentinelKept, [Next]_vars
    PROVE  SentinelKept'
<1> SUFFICES ASSUME ~late' PROVE SentinelNeverDropped'
  BY DEF SentinelKept
<1>1. TypeOK /\ SentinelNeverDropped /\ (Emit => stage = "running")
  BY LateStep DEF IInv, SentinelKept
<1>2. SUFFICES ASSUME NEW r \in Readers, pc'[r] = "live", stage' \in {"closed", "evicted"}
               PROVE  End \in Elements(queue'[r])
  BY DEF SentinelNeverDropped, Elements
<1>3. CASE Begin \/ Emit \/ Settle
  BY <1>1, <1>2, <1>3 DEF Begin, Emit, Settle
<1>4. CASE EndOfStream
  <2>1. Subscribed(r)
    BY <1>1, <1>2, <1>4, FanoutOne DEF EndOfStream, Subscribed, Attached
  <2>2. queue'[r] = Offer(queue[r], End)
    BY <1>1, <1>4, <2>1, FanoutOne DEF EndOfStream
  <2> QED
    BY <1>1, <2>2, ReaderTypes, OfferLast DEF End
<1>5. CASE Evict
  BY <1>1, <1>2, <1>5 DEF Evict, readerVars, SentinelNeverDropped
<1>6. ASSUME NEW x \in Readers,
             Subscribe(x) \/ Replay(x) \/ Drain(x) \/ Listen(x) \/ Get(x) \/ Disconnect(x)
      PROVE  End \in Elements(queue'[r])
  <2>1. stage' = stage
    BY <1>6 DEF Subscribe, Replay, Drain, Listen, Get, Disconnect, jobVars
  <2>2. CASE x # r
    <3>1. pc'[r] = pc[r] /\ queue'[r] = queue[r]
      BY <1>1, <1>6, <2>2 DEF TypeOK, Subscribe, Replay, Drain, Listen, Get, Pull, Disconnect
    <3> QED
      BY <1>1, <1>2, <2>1, <3>1 DEF SentinelNeverDropped
  <2>3. CASE x = r
    <3>1. ~(Subscribe(r) \/ Disconnect(r) \/ Replay(r) \/ Drain(r) \/ Listen(r))
      BY <1>1, <1>2, <2>1
         DEF TypeOK, Subscribe, Disconnect, Replay, Drain, Listen, Pull, Terminal
    <3>2. Get(r)
      BY <1>6, <2>3, <3>1
    <3>3. queue[r] # <<>> /\ Head(queue[r]) # End /\ queue'[r] = Tail(queue[r])
      BY <1>1, <1>2, <3>2 DEF Get, Pull, TypeOK
    <3>4. End \in Elements(queue[r])
      BY <1>1, <1>2, <2>1, <3>2 DEF Get, SentinelNeverDropped
    <3>5. queue[r] \in Seq(Nat)
      BY <1>1, ReaderTypes
    <3> QED
      BY <3>3, <3>4, <3>5, TailElements
  <2> QED
    BY <2>2, <2>3
<1>7. CASE UNCHANGED vars
  BY <1>1, <1>2, <1>7 DEF vars, jobVars, readerVars, SentinelNeverDropped
<1> QED
  BY <1>3, <1>4, <1>5, <1>6, <1>7 DEF Next, JobStep, Resume

(* The sentinel is never dropped, however small the queues, as long as the *)
(* body leaves no task behind that still emits.                            *)
THEOREM SentinelIsKept == Spec => []SentinelKept
<1>1. Init => SentinelKept
  BY DEF Init, SentinelKept, SentinelNeverDropped
<1>2. IInv /\ SentinelKept /\ [Next]_vars => SentinelKept'
  BY SentinelStep
<1> QED
  BY <1>1, <1>2, Invariance, PTL DEF Spec

\* The outcome is the last event, and it is ahead of whoever is attached; the
\* sentinel is the last entry of a queue.
SeenOrWaiting(r) == Elements(got[r]) \cup Elements(todo[r]) \cup Elements(queue[r])

EndIsLast(q) == \A i \in DOMAIN q : q[i] = End => i = Len(q)

Delivered == \A r \in Readers : pc[r] = "done" => Elements(got[r]) \cap finals # {}

OutcomeInv ==
    /\ Terminal => n \in finals
    /\ \A r \in Readers :
         /\ End \in Elements(queue[r]) => stage \in {"closed", "evicted"}
         /\ EndIsLast(queue[r])
         /\ Terminal /\ pc[r] \in Attached => n \in SeenOrWaiting(r)
         /\ pc[r] = "drain" => Terminal
    /\ Delivered

LEMMA OfferEndIsLast ==
    ASSUME NEW q \in Seq(Nat), Len(q) <= QueueSize, NEW e \in Nat, End \notin Elements(q)
    PROVE  /\ EndIsLast(Offer(q, e))
           /\ e # End => End \notin Elements(Offer(q, e))
<1>1. QueueSize \in Nat \ {0}
  BY StreamAssumption
<1> DEFINE d == Shift(q, QueueSize)
<1>2. /\ DOMAIN Offer(q, e) = 1..(Len(q) + 1 - d)
      /\ Len(Offer(q, e)) = Len(q) + 1 - d
      /\ \A i \in 1..(Len(q) - d) : Offer(q, e)[i] = q[i + d]
      /\ Offer(q, e)[Len(q) + 1 - d] = e
  BY <1>1, PushFacts DEF Offer
<1>3. d \in {0, 1} /\ d <= Len(q) /\ DOMAIN q = 1..Len(q) /\ Len(q) \in Nat
  BY <1>1 DEF Shift
<1> HIDE DEF d
<1>4. ASSUME NEW i \in DOMAIN Offer(q, e), Offer(q, e)[i] = End
      PROVE  i = Len(Offer(q, e)) /\ e = End
  <2>1. ~(i \in 1..(Len(q) - d))
    <3>1. i \in 1..(Len(q) - d) => i + d \in DOMAIN q /\ q[i + d] = End
      BY <1>2, <1>3, <1>4
    <3> QED
      BY <3>1 DEF Elements
  <2> QED
    BY <2>1, <1>2, <1>3, <1>4
<1> QED
  BY <1>4 DEF EndIsLast, Elements

\* The sentinel does not push the outcome out of a queue of two or more.
LEMMA OfferKeepsNewest ==
    ASSUME NEW q \in Seq(Nat), Len(q) <= QueueSize, QueueSize >= 2, NEW m \in Nat,
           Rising(q), Newer(m + 1, q), End \notin Elements(q), m \in Elements(q)
    PROVE  m \in Elements(Offer(q, End))
<1>1. QueueSize \in Nat \ {0}
  BY StreamAssumption
<1>2. Elements(Push(q, End, QueueSize))
        \cup (IF Len(q) < QueueSize THEN {} ELSE {Head(q)}) = Elements(q) \cup {End}
  BY <1>1, PushElements DEF End
<1>3. CASE Len(q) < QueueSize
  BY <1>2, <1>3 DEF Offer
<1>4. CASE ~(Len(q) < QueueSize)
  <2>1. 1 \in DOMAIN q /\ 2 \in DOMAIN q /\ Head(q) = q[1] /\ q[1] \in Nat /\ q[2] \in Nat
    <3>1. Len(q) \in Nat /\ Len(q) >= 2 /\ DOMAIN q = 1..Len(q)
      BY <1>1, <1>4
    <3>2. 1 \in DOMAIN q /\ 2 \in DOMAIN q /\ q # <<>>
      BY <3>1
    <3> QED
      BY <3>2, TailFacts
  <2>2. q[2] # End
    BY <2>1 DEF Elements
  <2>3. q[1] < q[2] /\ q[2] < m + 1
    BY <2>1, <2>2 DEF Rising, Newer
  <2>4. Head(q) # m
    BY <2>1, <2>3
  <2> QED
    BY <1>2, <1>4, <2>4 DEF Offer
<1> QED
  BY <1>3, <1>4

LEMMA PublishOutcome ==
    ASSUME Emit => stage = "running", IInv, OutcomeInv, Begin \/ Emit \/ Settle
    PROVE  OutcomeInv'
<1>1. /\ stage \notin {"closed", "evicted"} /\ stage' \notin {"closed", "evicted"}
      /\ n \in Nat /\ n' = n + 1 /\ Fanout(n + 1) /\ finals \subseteq finals'
      /\ Terminal' => n' \in finals'
      /\ n + 1 # End /\ (Terminal => Terminal')
  BY StreamAssumption DEF IInv, TypeOK, Begin, Emit, Settle, Publish, Terminal, End
<1>2. ASSUME NEW r \in Readers
      PROVE  /\ End \notin Elements(queue'[r])
             /\ EndIsLast(queue'[r])
             /\ Terminal' /\ pc'[r] \in Attached => n' \in SeenOrWaiting(r)'
             /\ pc'[r] = pc[r] /\ got'[r] = got[r]
  <2>1. queue[r] \in Seq(Nat) /\ Len(queue[r]) <= QueueSize /\ End \notin Elements(queue[r])
    BY <1>1, ReaderTypes DEF IInv, OutcomeInv
  <2>2. /\ pc'[r] = pc[r] /\ got'[r] = got[r]
        /\ queue'[r] = IF Subscribed(r) THEN Offer(queue[r], n + 1) ELSE queue[r]
    BY <1>1, FanoutOne DEF IInv
  <2>3. CASE Subscribed(r)
    <3>1. n + 1 \in Elements(Offer(queue[r], n + 1))
      BY <1>1, <2>1, OfferLast
    <3>2. EndIsLast(Offer(queue[r], n + 1)) /\ End \notin Elements(Offer(queue[r], n + 1))
      BY <1>1, <2>1, OfferEndIsLast
    <3> QED
      BY <1>1, <2>2, <2>3, <3>1, <3>2 DEF SeenOrWaiting, Elements
  <2>4. CASE ~Subscribed(r)
    <3>1. pc'[r] \notin Attached
      BY <1>1, <2>2, <2>4 DEF Subscribed
    <3> QED
      BY <2>1, <2>2, <2>4, <3>1 DEF OutcomeInv
  <2> QED
    BY <2>3, <2>4
<1>3. Delivered'
  <2> SUFFICES ASSUME NEW r \in Readers, pc'[r] = "done"
               PROVE  Elements(got'[r]) \cap finals' # {}
    BY DEF Delivered, Elements
  <2>1. Elements(got[r]) \cap finals # {}
    BY <1>2 DEF OutcomeInv, Delivered
  <2> QED
    BY <2>1, <1>1, <1>2
<1> QED
  BY <1>1, <1>2, <1>3 DEF OutcomeInv, Elements

LEMMA EndOutcome ==
    ASSUME QueueSize >= 2, IInv, OutcomeInv, EndOfStream
    PROVE  OutcomeInv'
<1>1. /\ stage = "settled" /\ stage' = "closed" /\ n' = n /\ n \in Nat /\ finals' = finals
      /\ Fanout(End) /\ Terminal /\ End \in Nat
  BY StreamAssumption DEF EndOfStream, Terminal, IInv, TypeOK, End
<1>2. ASSUME NEW r \in Readers
      PROVE  /\ EndIsLast(queue'[r])
             /\ pc'[r] \in Attached => n' \in SeenOrWaiting(r)'
             /\ pc'[r] = pc[r] /\ got'[r] = got[r]
  <2>1. queue[r] \in Seq(Nat) /\ Len(queue[r]) <= QueueSize /\ End \notin Elements(queue[r])
    BY <1>1, ReaderTypes DEF IInv, OutcomeInv
  <2>2. /\ pc'[r] = pc[r] /\ got'[r] = got[r] /\ todo'[r] = todo[r]
        /\ queue'[r] = IF Subscribed(r) THEN Offer(queue[r], End) ELSE queue[r]
    BY <1>1, FanoutOne DEF IInv
  <2>3. CASE Subscribed(r)
    <3>1. n \in SeenOrWaiting(r)
      BY <1>1, <2>3 DEF Subscribed, OutcomeInv
    <3>2. Rising(queue[r]) /\ Newer(n + 1, queue[r])
      BY DEF IInv, ReaderInv, Ordered
    <3>3. n \in Elements(queue[r]) => n \in Elements(Offer(queue[r], End))
      BY <1>1, <2>1, <3>2, OfferKeepsNewest
    <3>4. EndIsLast(Offer(queue[r], End))
      BY <1>1, <2>1, OfferEndIsLast
    <3> QED
      BY <1>1, <2>2, <2>3, <3>1, <3>3, <3>4 DEF SeenOrWaiting, Elements
  <2>4. CASE ~Subscribed(r)
    <3>1. pc'[r] \notin Attached
      BY <1>1, <2>2, <2>4 DEF Subscribed
    <3> QED
      BY <2>2, <2>4, <3>1 DEF OutcomeInv
  <2> QED
    BY <2>3, <2>4
<1> QED
  BY <1>1, <1>2 DEF OutcomeInv, Delivered, Elements, Terminal

LEMMA PullOutcome ==
    ASSUME IInv, OutcomeInv, NEW r \in Readers, todo[r] = <<>>, pc[r] \in Attached,
           NEW mode \in {"drain", "live"}, NEW dry \in {"done", "live"}, Pull(r, mode, dry),
           dry = "done" => Terminal
    PROVE  /\ End \in Elements(queue'[r]) => stage \in {"closed", "evicted"}
           /\ EndIsLast(queue'[r])
           /\ Terminal /\ pc'[r] \in Attached =>
                n \in Elements(got'[r]) \cup Elements(queue'[r])
           /\ pc'[r] = "drain" => mode = "drain"
           /\ pc'[r] = "done" => Elements(got'[r]) \cap finals # {}
<1> DEFINE g == got[r]
           q == queue[r]
<1>1. /\ g \in Seq(Nat) /\ q \in Seq(Nat) /\ n + 1 \in Nat
      /\ Newer(n + 1, g) /\ Newer(n + 1, q)
  BY ReaderTypes DEF IInv, ReaderInv
<1>2. Terminal => n \in Elements(g) \cup Elements(q) /\ n \in finals /\ n # End
  <2>1. Elements(todo[r]) = {}
    BY DEF Elements
  <2>2. End \notin finals
    BY DEF IInv, TypeOK, Events, End
  <2> QED
    BY <2>1, <2>2 DEF OutcomeInv, SeenOrWaiting
<1>3. EndIsLast(q) /\ (End \in Elements(q) => stage \in {"closed", "evicted"})
  BY DEF OutcomeInv
<1>4. CASE q = <<>>
  <2>1. pc'[r] = dry /\ queue'[r] = q /\ got'[r] = g
    BY <1>4 DEF Pull, IInv, TypeOK
  <2>2. Elements(q) = {}
    BY <1>4 DEF Elements
  <2> QED
    BY <2>1, <2>2, <1>2, <1>3 DEF Attached
<1>5. CASE q # <<>>
  <2>1. /\ Len(q) \in Nat \ {0} /\ DOMAIN q = 1..Len(q) /\ Head(q) = q[1]
        /\ Tail(q) \in Seq(Nat) /\ Len(Tail(q)) = Len(q) - 1
        /\ DOMAIN Tail(q) = 1..(Len(q) - 1)
        /\ \A i \in 1..(Len(q) - 1) : Tail(q)[i] = q[i + 1]
    BY <1>1, <1>5, TailFacts
  <2>2. Elements(q) = Elements(Tail(q)) \cup {Head(q)}
        /\ Elements(Append(g, Head(q))) \cup Elements(Tail(q)) = Elements(g) \cup Elements(q)
    BY <1>1, <1>5, MoveHead
  <2>3. EndIsLast(Tail(q))
    <3> SUFFICES ASSUME NEW i \in 1..(Len(q) - 1), q[i + 1] = End PROVE i = Len(q) - 1
      BY <2>1 DEF EndIsLast
    <3>1. i + 1 = Len(q)
      BY <1>3, <2>1 DEF EndIsLast
    <3> QED
      BY <3>1, <2>1
  <2>4. CASE Head(q) = End
    <3>1. pc'[r] = "done" /\ queue'[r] = Tail(q) /\ got'[r] = g
      BY <1>5, <2>4 DEF Pull, IInv, TypeOK
    <3>2. Len(q) = 1
      <4>1. 1 \in DOMAIN q /\ q[1] = End
        BY <2>1, <2>4
      <4> QED
        BY <4>1, <1>3 DEF EndIsLast
    <3>3. Elements(Tail(q)) = {}
      BY <3>2, <2>1 DEF Elements
    <3>4. Terminal
      BY <2>2, <2>4, <1>3 DEF Terminal
    <3>5. n \in Elements(g) /\ n \in finals
      BY <1>2, <2>2, <2>4, <3>3, <3>4
    <3> QED
      BY <3>1, <3>3, <3>5, <2>3 DEF Attached
  <2>5. CASE Head(q) # End
    <3>1. pc'[r] = mode /\ queue'[r] = Tail(q) /\ got'[r] = Append(g, Head(q))
      BY <1>5, <2>5 DEF Pull, IInv, TypeOK
    <3> QED
      BY <3>1, <2>2, <2>3, <1>2, <1>3
  <2> QED
    BY <2>4, <2>5
<1> QED
  BY <1>4, <1>5

LEMMA ReaderOutcome ==
    ASSUME IInv, OutcomeInv, NEW r \in Readers,
           Subscribe(r) \/ Replay(r) \/ Drain(r) \/ Listen(r) \/ Get(r) \/ Disconnect(r)
    PROVE  OutcomeInv'
<1>1. stage' = stage /\ n' = n /\ finals' = finals /\ Terminal' = Terminal
  BY DEF Subscribe, Replay, Drain, Listen, Get, Disconnect, jobVars, Terminal
<1>2. ASSUME NEW x \in Readers, x # r
      PROVE  /\ pc'[x] = pc[x] /\ got'[x] = got[x]
             /\ todo'[x] = todo[x] /\ queue'[x] = queue[x]
  BY <1>2 DEF IInv, TypeOK, Subscribe, Replay, Drain, Listen, Get, Pull, Disconnect
<1> DEFINE Good(x) ==
             /\ End \in Elements(queue'[x]) => stage \in {"closed", "evicted"}
             /\ EndIsLast(queue'[x])
             /\ Terminal /\ pc'[x] \in Attached =>
                  n \in Elements(got'[x]) \cup Elements(todo'[x]) \cup Elements(queue'[x])
             /\ pc'[x] = "drain" => Terminal
             /\ pc'[x] = "done" => Elements(got'[x]) \cap finals # {}
<1>3. ASSUME NEW x \in Readers, x # r PROVE Good(x)
  BY <1>2, <1>3 DEF OutcomeInv, Delivered, SeenOrWaiting
<1>4. Good(r)
  <2>1. ASSUME NEW mode \in {"drain", "live"}, NEW dry \in {"done", "live"},
               Pull(r, mode, dry), dry = "done" => Terminal, mode = "drain" => Terminal,
               todo[r] = <<>>, pc[r] \in Attached, todo' = todo
        PROVE  Good(r)
    BY <2>1, PullOutcome
  <2>2. CASE Subscribe(r)
    <3>1. /\ pc'[r] = "replay" /\ todo'[r] = ring /\ queue'[r] = <<>> /\ got'[r] = <<>>
      BY <2>2 DEF Subscribe, IInv, TypeOK, ReaderInv
    <3>2. Terminal => n \in Elements(ring)
      <4> SUFFICES ASSUME Terminal PROVE n \in Elements(ring)
        OBVIOUS
      <4>1. n \in Nat \ {0} /\ MaxProgress \in Nat \ {0}
        BY StreamAssumption DEF OutcomeInv, IInv, TypeOK, Events
      <4>2. Len(ring) \in Nat \ {0} /\ DOMAIN ring = 1..Len(ring)
        BY <4>1 DEF IInv, TypeOK, RingIsNewest
      <4>3. Len(ring) \in DOMAIN ring /\ ring[Len(ring)] = n
        BY <4>1, <4>2 DEF IInv, RingIsNewest
      <4> QED
        BY <4>3 DEF Elements
    <3> QED
      BY <3>1, <3>2 DEF EndIsLast, Elements
  <2>3. CASE Replay(r)
    <3>1. /\ pc'[r] = "replay" /\ pc[r] = "replay" /\ queue'[r] = queue[r] /\ todo[r] # <<>>
          /\ todo'[r] = Tail(todo[r]) /\ got'[r] = Append(got[r], Head(todo[r]))
      BY <2>3 DEF Replay, IInv, TypeOK
    <3>2. /\ got[r] \in Seq(Nat) /\ todo[r] \in Seq(Nat) /\ n + 1 \in Nat
          /\ Newer(n + 1, got[r]) /\ Newer(n + 1, todo[r])
      BY ReaderTypes DEF IInv, ReaderInv
    <3>3. Elements(Append(got[r], Head(todo[r]))) \cup Elements(Tail(todo[r]))
            = Elements(got[r]) \cup Elements(todo[r])
      BY <3>1, <3>2, MoveHead
    <3> QED
      BY <3>1, <3>3 DEF OutcomeInv, SeenOrWaiting, Attached
  <2>4. CASE Drain(r)
    <3>1. todo[r] = <<>> /\ pc[r] \in Attached
      BY <2>4 DEF Drain, Replayed, Attached, IInv, ReaderInv
    <3>2. Terminal
      BY <2>4 DEF Drain, OutcomeInv
    <3> QED
      BY <2>1, <2>4, <3>1, <3>2 DEF Drain
  <2>5. CASE Listen(r)
    BY <2>1, <2>5 DEF Listen, Replayed, Attached
  <2>6. CASE Get(r)
    <3>1. todo[r] = <<>> /\ pc[r] \in Attached
      BY <2>6 DEF Get, Attached, IInv, ReaderInv
    <3> QED
      BY <2>1, <2>6, <3>1 DEF Get
  <2>7. CASE Disconnect(r)
    BY <2>7 DEF Disconnect, IInv, TypeOK, EndIsLast, Elements, Attached
  <2> QED
    BY <2>2, <2>3, <2>4, <2>5, <2>6, <2>7
<1>5. \A x \in Readers : Good(x)
  BY <1>3, <1>4
<1> HIDE DEF Good
<1> QED
  BY <1>1, <1>5 DEF OutcomeInv, Delivered, SeenOrWaiting, Elements, Good

LEMMA OutcomeStep ==
    ASSUME QueueSize >= 2, IInv, OutcomeInv, [Next]_vars, Emit => stage = "running"
    PROVE  OutcomeInv'
<1>1. CASE Begin \/ Emit \/ Settle
  BY <1>1, PublishOutcome
<1>2. CASE EndOfStream
  BY <1>2, EndOutcome
<1>3. CASE Evict
  BY <1>3 DEF Evict, readerVars, OutcomeInv, Delivered, SeenOrWaiting, Terminal
<1>4. ASSUME NEW r \in Readers,
             Subscribe(r) \/ Replay(r) \/ Drain(r) \/ Listen(r) \/ Get(r) \/ Disconnect(r)
      PROVE  OutcomeInv'
  BY <1>4, ReaderOutcome
<1>5. CASE UNCHANGED vars
  BY <1>5 DEF vars, jobVars, readerVars, OutcomeInv, Delivered, SeenOrWaiting, Terminal
<1> QED
  BY <1>1, <1>2, <1>3, <1>4, <1>5 DEF Next, JobStep, Resume

(* A stream that ends by itself has delivered the outcome of the job, when *)
(* queues hold at least two events and no task outlives the body.          *)
THEOREM OutcomesAreDelivered ==
    ASSUME QueueSize >= 2
    PROVE  Spec => []OutcomeDelivered
<1> DEFINE InTime == ~late => OutcomeInv
<1>1. Init => InTime
  BY DEF Init, OutcomeInv, Delivered, EndIsLast, Elements, Terminal, Attached
<1>2. IInv /\ InTime /\ [Next]_vars => InTime'
  <2> SUFFICES ASSUME IInv, InTime, [Next]_vars, ~late' PROVE OutcomeInv'
    OBVIOUS
  <2> QED
    BY LateStep, OutcomeStep
<1>3. InTime => OutcomeDelivered
  BY DEF OutcomeInv, OutcomeDelivered, Delivered
<1> HIDE DEF InTime
<1> QED
  BY <1>1, <1>2, <1>3, Invariance, PTL DEF Spec
=============================================================================
