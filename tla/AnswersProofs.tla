---------------------------- MODULE AnswersProofs ----------------------------
(***************************************************************************)
(* Proofs about Answers, for any calls, kinds, keys, cap, slots, results   *)
(* and pages: its types, that an answer is billed once, that the daily     *)
(* cap is exceeded by no more than the calls in flight, and that an        *)
(* arbitration keeps some of its results.  None of it depends on who waits *)
(* for a slot of the model, so nothing is said of the semaphore.           *)
(***************************************************************************)
EXTENDS Answers, FiniteSetTheorems, TLAPS

Paying == {"answer", "stream"}

\* Where a call that pays stands says what it has paid and what it was given.
Books ==
    \A c \in Calls :
        /\ stage[c] = "billing" => kind[c] \in Paying
        /\ stage[c] = "preparing" => kind[c] # "rank"
        /\ stage[c] \in {"idle", "preparing", "asking"} => usage[c] = 0
        /\ kind[c] \in {"extract", "tool"} => usage[c] = 0
        /\ kind[c] \in Paying =>
             /\ stage[c] \in {"idle", "preparing"} => charged[c] = 0 /\ billed[c] = 0
             /\ usage[c] <= charged[c] /\ billed[c] <= usage[c]
             /\ stage[c] = "billing" => from[c] = c
             /\ stage[c] = "done" =>
                  /\ from[c] \in Calls /\ kind[from[c]] = kind[c]
                  /\ stage[from[c]] \in {"billing", "done", "gone"}
                  /\ stage[from[c]] = "done" => billed[from[c]] = usage[from[c]]
                  /\ c # from[c] => charged[c] = 0 /\ usage[c] = 0 /\ billed[c] = 0

\* What the caches hold was made by a call of that kind.
Entries ==
    \A m \in Memoized, k \in Keys : memo[m][k] # None =>
        LET d == memo[m][k]
        IN  /\ d \in Calls /\ kind[d] = m
            /\ m = "answer" =>
                 /\ stage[d] \in {"billing", "done", "gone"}
                 /\ stage[d] = "done" => billed[d] = usage[d]
            /\ m = "rank" => stage[d] = "done" /\ kept[d] \in 1..TopK

\* The calls that have been let in and have yet to pay.
Owing == {c \in Calls : kind[c] \in Paying /\ stage[c] \in InFlight}

\* Each of them adds one to the ledger, and the last of them was let in below
\* the cap.
Overshoot == Cap > 0 => ledger + Cardinality(Owing) < Cap + peak

IInv == TypeOK /\ Books /\ Entries /\ RankKeepsSome /\ Overshoot

(***************************************************************************)
(* An arbitration keeps some of its results, whatever the model names.     *)
(***************************************************************************)
LEMMA RankedType == \A named : Ranked(named) \in 1..TopK
<1> SUFFICES ASSUME NEW named PROVE Ranked(named) \in 1..TopK
  OBVIOUS
<1>1. Results \in Nat \ {0} /\ TopK \in Nat \ {0}
  BY AnswersAssumption
<1>2. IsFiniteSet(Valid(named))
  <2>1. IsFiniteSet(0..Results - 1)
    BY <1>1, FS_Interval
  <2> QED BY <2>1, FS_Subset DEF Valid
<1>3. Valid(named) # {} => Cardinality(Valid(named)) \in Nat \ {0}
  BY <1>2, FS_CardinalityType, FS_EmptySet
<1> DEFINE n == IF Valid(named) = {} THEN Results ELSE Cardinality(Valid(named))
<1>4. n \in Nat \ {0}
  BY <1>1, <1>3
<1> HIDE DEF n
<1>5. Lesser(TopK, n) \in 1..TopK
  BY <1>1, <1>4 DEF Lesser
<1> QED BY <1>5 DEF Ranked, n

(***************************************************************************)
(* The calls that have yet to pay can be counted.                          *)
(***************************************************************************)
LEMMA OwingFinite == IsFiniteSet(Owing) /\ Cardinality(Owing) \in Nat
<1>1. Owing \subseteq Calls
  BY DEF Owing
<1> QED BY <1>1, AnswersAssumption, FS_Subset, FS_CardinalityType

(***************************************************************************)
(* A step that lets nobody in and bills nobody keeps the overshoot.        *)
(***************************************************************************)
LEMMA OvershootKeeps ==
    ASSUME TypeOK, Overshoot, Owing' \subseteq Owing, UNCHANGED <<ledger, peak>>
    PROVE  Overshoot'
<1>1. Cardinality(Owing') \in Nat /\ Cardinality(Owing') <= Cardinality(Owing)
  BY OwingFinite, FS_Subset, FS_CardinalityType
<1>2. Cap \in Nat /\ ledger \in Nat /\ peak \in Nat /\ Cardinality(Owing) \in Nat
  BY AnswersAssumption, OwingFinite DEF TypeOK
<1> QED BY <1>1, <1>2 DEF Overshoot

(***************************************************************************)
(* A call that pays no more than one leaves those that owe: their sum with *)
(* the ledger does not grow.                                               *)
(***************************************************************************)
LEMMA PaymentKeeps ==
    ASSUME TypeOK, Overshoot, NEW c \in Calls, kind[c] \in Paying, stage[c] \in InFlight,
           NEW bill \in 0..1, ledger' = ledger + bill, Owing' = Owing \ {c}, peak' = peak
    PROVE  Overshoot'
<1>1. c \in Owing
  BY DEF Owing
<1>2. Cardinality(Owing') = Cardinality(Owing) - 1
  BY <1>1, OwingFinite, FS_RemoveElement
<1>3. Cap \in Nat /\ ledger \in Nat /\ peak \in Nat /\ Cardinality(Owing) \in Nat
  BY AnswersAssumption, OwingFinite DEF TypeOK
<1> QED BY <1>2, <1>3 DEF Overshoot

(***************************************************************************)
(* Each step keeps the invariant; the steps that end a call of the model   *)
(* first, which only differ in where the call goes.                        *)
(***************************************************************************)
LEMMA ModelKeeps ==
    ASSUME IInv, NEW c \in Calls,
           Answer(c) \/ Token(c) \/ StreamEnds(c) \/ AnswerFails(c) \/ Rank(c)
    PROVE  IInv'
<1> USE DEF IInv, Goto
<1>1. CASE Answer(c)
  <2> USE <1>1 DEF Answer, Record, Asking, Leave, Store
  <2>1. TypeOK'
    BY DEF TypeOK, InFlight, Ended, Memoized
  <2>2. Books'
    BY DEF Books, TypeOK, Paying
  <2>3. Entries'
    BY DEF Entries, TypeOK, Memoized
  <2>4. RankKeepsSome'
    BY DEF RankKeepsSome, TypeOK
  <2>5. Owing' \subseteq Owing
    BY DEF Owing, TypeOK, InFlight
  <2> QED BY <2>1, <2>2, <2>3, <2>4, <2>5, OvershootKeeps
<1>2. CASE Token(c)
  <2> USE <1>2 DEF Token, Asking
  <2>1. TypeOK'
    BY DEF TypeOK
  <2>2. Books'
    BY DEF Books, TypeOK, Paying
  <2>3. Entries'
    BY DEF Entries, TypeOK, Memoized
  <2>4. RankKeepsSome'
    BY DEF RankKeepsSome
  <2>5. Owing' \subseteq Owing
    BY DEF Owing
  <2> QED BY <2>1, <2>2, <2>3, <2>4, <2>5, OvershootKeeps
<1>3. CASE StreamEnds(c)
  <2> USE <1>3 DEF StreamEnds, Record, Asking, Leave
  <2>1. TypeOK'
    BY DEF TypeOK, InFlight, Ended
  <2>2. Books'
    BY DEF Books, TypeOK, Paying
  <2>3. Entries'
    BY DEF Entries, TypeOK, Memoized
  <2>4. RankKeepsSome'
    BY DEF RankKeepsSome, TypeOK
  <2>5. Owing' \subseteq Owing
    BY DEF Owing, TypeOK, InFlight
  <2> QED BY <2>1, <2>2, <2>3, <2>4, <2>5, OvershootKeeps
<1>4. CASE AnswerFails(c)
  <2> USE <1>4 DEF AnswerFails, Asking, Leave
  <2>1. TypeOK'
    BY DEF TypeOK, InFlight, Ended
  <2>2. Books'
    BY DEF Books, TypeOK, Paying
  <2>3. Entries'
    BY DEF Entries, TypeOK, Memoized
  <2>4. RankKeepsSome'
    BY DEF RankKeepsSome, TypeOK
  <2>5. Owing' \subseteq Owing
    BY DEF Owing, TypeOK, InFlight
  <2> QED BY <2>1, <2>2, <2>3, <2>4, <2>5, OvershootKeeps
<1>5. CASE Rank(c)
  <2>1. PICK n \in 1..TopK : kept' = [kept EXCEPT ![c] = n]
    BY <1>5, RankedType DEF Rank
  <2>2. TopK \in Nat /\ 1..TopK \subseteq 0..TopK
    BY AnswersAssumption
  <2> USE <1>5 DEF Rank, Record, Asking, Leave, Store
  <2>3. TypeOK'
    BY <2>1, <2>2 DEF TypeOK, InFlight, Ended, Memoized
  <2>4. Books'
    BY DEF Books, TypeOK, Paying
  <2>5. Entries'
    BY <2>1 DEF Entries, TypeOK, Memoized
  <2>6. RankKeepsSome'
    BY <2>1 DEF RankKeepsSome, TypeOK
  <2>7. Owing' \subseteq Owing
    BY DEF Owing, TypeOK, InFlight, Paying
  <2> QED BY <2>3, <2>4, <2>5, <2>6, <2>7, OvershootKeeps
<1> QED BY <1>1, <1>2, <1>3, <1>4, <1>5

(***************************************************************************)
(* A call that is let in below the cap.                                    *)
(***************************************************************************)
LEMMA PrepareKeeps ==
    ASSUME IInv, NEW c \in Calls, Prepare(c)
    PROVE  IInv'
<1> USE DEF IInv, Goto, Prepare
<1> DEFINE flying == {d \in Calls : stage'[d] \in InFlight}
<1>1. IsFiniteSet(flying) /\ Cardinality(flying) \in Nat
  <2>1. flying \subseteq Calls
    OBVIOUS
  <2> QED BY <2>1, AnswersAssumption, FS_Subset, FS_CardinalityType
<1>2. peak \in Nat /\ ledger \in Nat /\ Cap \in Nat
  BY AnswersAssumption DEF TypeOK
<1>3. peak' = IF Cardinality(flying) > peak THEN Cardinality(flying) ELSE peak
  OBVIOUS
<1>4. peak' \in Nat /\ Cardinality(flying) <= peak' /\ peak <= peak'
  <2> HIDE DEF flying
  <2> QED BY <1>1, <1>2, <1>3
<1>5. TypeOK'
  BY <1>4 DEF TypeOK, InFlight
<1>6. Books'
  BY DEF Books, TypeOK, Paying
<1>7. Entries'
  BY DEF Entries, TypeOK, Memoized
<1>8. RankKeepsSome'
  BY DEF RankKeepsSome, TypeOK
<1>9. Overshoot'
  <2>1. CASE kind[c] \in Paying
    <3>1. Owing' \subseteq flying
      BY DEF Owing
    <3>2. Cardinality(Owing') \in Nat /\ Cardinality(Owing') <= Cardinality(flying)
      BY <3>1, <1>1, FS_Subset, FS_CardinalityType
    <3>3. Cap > 0 => ~ (ledger >= Cap)
      BY <2>1 DEF OverCap, Capped, Paying
    <3> HIDE DEF flying
    <3> QED BY <1>1, <1>2, <1>4, <3>2, <3>3 DEF Overshoot
  <2>2. CASE kind[c] \notin Paying
    <3>1. Owing' = Owing
      BY <2>2 DEF Owing, TypeOK
    <3>2. Cardinality(Owing) \in Nat
      BY OwingFinite
    <3> QED BY <1>2, <1>4, <3>1, <3>2 DEF Overshoot
  <2> QED BY <2>1, <2>2
<1> QED BY <1>5, <1>6, <1>7, <1>8, <1>9

(***************************************************************************)
(* The other steps of a call that is yet to be let in, or is being         *)
(* prepared.                                                               *)
(***************************************************************************)
LEMMA EntryKeeps ==
    ASSUME IInv, NEW c \in Calls,
           Refuse(c) \/ Hit(c) \/ Arbitrate(c) \/ Prepared(c) \/ PrepareFails(c)
    PROVE  IInv'
<1> USE DEF IInv, Goto
<1>1. CASE Refuse(c)
  <2> USE <1>1 DEF Refuse
  <2>1. TypeOK'
    BY DEF TypeOK, Ended
  <2>2. Books'
    BY DEF Books, TypeOK, Paying
  <2>3. Entries'
    BY DEF Entries, TypeOK, Memoized
  <2>4. RankKeepsSome'
    BY DEF RankKeepsSome, TypeOK
  <2>5. Owing' \subseteq Owing
    BY DEF Owing, TypeOK, InFlight
  <2> QED BY <2>1, <2>2, <2>3, <2>4, <2>5, OvershootKeeps
<1>2. CASE Hit(c)
  <2> DEFINE d == Entry(c)
  <2>1. kind[c] \in Memoized /\ key[c] \in Keys /\ d = memo[kind[c]][key[c]] /\ d # None
    BY <1>2 DEF Hit, Entry, TypeOK
  <2>2. d \in Calls /\ kind[d] = kind[c]
    BY <2>1 DEF Entries
  <2>3. kind[c] = "answer" =>
          /\ stage[d] \in {"billing", "done", "gone"}
          /\ stage[d] = "done" => billed[d] = usage[d]
    BY <2>1 DEF Entries
  <2>4. kind[c] = "rank" => stage[d] = "done" /\ kept[d] \in 1..TopK
    BY <2>1 DEF Entries
  <2>5. /\ stage' = [stage EXCEPT ![c] = "done"]
        /\ from' = [from EXCEPT ![c] = d]
        /\ kept' = [kept EXCEPT ![c] = kept[d]]
        /\ stage[c] = "idle"
        /\ UNCHANGED <<kind, key, todo, charged, usage, billed, model, memo, ledger, peak>>
    BY <1>2 DEF Hit
  <2> HIDE DEF d
  <2>6. TypeOK'
    BY <2>2, <2>5 DEF TypeOK, Ended
  <2>7. Books'
    BY <2>1, <2>2, <2>3, <2>5 DEF Books, TypeOK, Paying, Memoized
  <2>8. Entries'
    BY <2>5 DEF Entries, TypeOK, Memoized
  <2>9. RankKeepsSome'
    BY <2>2, <2>4, <2>5 DEF RankKeepsSome, TypeOK
  <2>10. Owing' \subseteq Owing
    BY <2>5 DEF Owing, TypeOK, InFlight
  <2> QED BY <2>5, <2>6, <2>7, <2>8, <2>9, <2>10, OvershootKeeps
<1>3. CASE Arbitrate(c)
  <2>1. /\ stage' = [stage EXCEPT ![c] = "asking"]
        /\ todo' = [todo EXCEPT ![c] = {0}]
        /\ stage[c] = "idle" /\ kind[c] = "rank"
        /\ UNCHANGED <<kind, key, from, kept, charged, usage, billed, memo, ledger, peak>>
    BY <1>3 DEF Arbitrate, Request
  <2>2. {0} \subseteq 0..Pages
    BY AnswersAssumption
  <2>3. TypeOK'
    BY <2>1, <2>2 DEF TypeOK, InFlight
  <2>4. Books'
    BY <2>1 DEF Books, TypeOK, Paying
  <2>5. Entries'
    BY <2>1 DEF Entries, TypeOK, Memoized
  <2>6. RankKeepsSome'
    BY <2>1 DEF RankKeepsSome, TypeOK
  <2>7. Owing' \subseteq Owing
    BY <2>1 DEF Owing, TypeOK, InFlight, Paying
  <2> QED BY <2>1, <2>3, <2>4, <2>5, <2>6, <2>7, OvershootKeeps
<1>4. CASE Prepared(c)
  <2>1. PICK read \in SUBSET (1..Pages) :
          Request(c, IF kind[c] \in {"answer", "stream"} THEN {0} ELSE read)
    BY <1>4 DEF Prepared
  <2> DEFINE requests == IF kind[c] \in {"answer", "stream"} THEN {0} ELSE read
  <2>2. requests \subseteq 0..Pages
    BY AnswersAssumption
  <2>3. requests = {} => kind[c] \notin Paying
    BY DEF Paying
  <2>4. /\ stage' = [stage EXCEPT ![c] = IF requests = {} THEN "done" ELSE "asking"]
        /\ todo' = [todo EXCEPT ![c] = requests]
    BY <2>1 DEF Request
  <2> HIDE DEF requests
  <2>5. /\ stage[c] = "preparing"
        /\ UNCHANGED <<kind, key, from, kept, charged, usage, billed, memo, ledger, peak>>
    BY <1>4 DEF Prepared
  <2>6. TypeOK'
    BY <2>2, <2>4, <2>5 DEF TypeOK, InFlight, Ended
  <2>7. Books'
    BY <2>3, <2>4, <2>5 DEF Books, TypeOK, Paying
  <2>8. Entries'
    BY <2>4, <2>5 DEF Entries, TypeOK, Memoized
  <2>9. RankKeepsSome'
    BY <2>4, <2>5 DEF RankKeepsSome, TypeOK, Books
  <2>10. Owing' \subseteq Owing
    BY <2>4, <2>5 DEF Owing, TypeOK, InFlight
  <2> QED BY <2>5, <2>6, <2>7, <2>8, <2>9, <2>10, OvershootKeeps
<1>5. CASE PrepareFails(c)
  <2> USE <1>5 DEF PrepareFails
  <2>1. TypeOK'
    BY DEF TypeOK, Ended
  <2>2. Books'
    BY DEF Books, TypeOK, Paying
  <2>3. Entries'
    BY DEF Entries, TypeOK, Memoized
  <2>4. RankKeepsSome'
    BY DEF RankKeepsSome, TypeOK
  <2>5. Owing' \subseteq Owing
    BY DEF Owing, TypeOK, InFlight
  <2> QED BY <2>1, <2>2, <2>3, <2>4, <2>5, OvershootKeeps
<1> QED BY <1>1, <1>2, <1>3, <1>4, <1>5

(***************************************************************************)
(* The steps that end a call: an extracted page, the bill, a client that   *)
(* is gone.                                                                *)
(***************************************************************************)
LEMMA EndingKeeps ==
    ASSUME IInv, NEW c \in Calls,
           Bill(c) \/ Depart(c) \/ \E t \in Tasks : t[1] = c /\ ExtractOne(t)
    PROVE  IInv'
<1> USE DEF IInv, Goto
<1>1. CASE Bill(c)
  <2> USE <1>1 DEF Bill
  <2>0. usage[c] \in 0..1 /\ ledger \in Nat
    BY DEF TypeOK
  <2>1. TypeOK'
    <3>1. ledger' \in Nat
      BY <2>0
    <3>2. stage' \in [Calls -> {"idle"} \cup InFlight \cup Ended]
      BY DEF TypeOK, Ended
    <3>3. billed' \in [Calls -> 0..1]
      BY <2>0 DEF TypeOK
    <3> QED BY <3>1, <3>2, <3>3 DEF TypeOK
  <2>2. Books'
    BY DEF Books, TypeOK, Paying
  <2>3. Entries'
    BY DEF Entries, Books, TypeOK, Memoized, Paying
  <2>4. RankKeepsSome'
    BY DEF RankKeepsSome, TypeOK, Books, Paying
  <2>5. Owing' = Owing \ {c}
    BY DEF Owing, TypeOK, InFlight
  <2>6. kind[c] \in Paying /\ stage[c] \in InFlight
    BY DEF Books, InFlight
  <2>7. ledger' = ledger + usage[c] /\ peak' = peak
    OBVIOUS
  <2>8. Overshoot'
    BY <2>0, <2>5, <2>6, <2>7, PaymentKeeps
  <2> QED BY <2>1, <2>2, <2>3, <2>4, <2>8
<1>2. CASE Depart(c)
  <2>1. PICK bill \in {0, usage[c]} :
          /\ billed' = [billed EXCEPT ![c] = bill]
          /\ ledger' = ledger + bill
    BY <1>2 DEF Depart
  <2>2. bill \in 0..1 /\ ledger \in Nat
    BY <2>1 DEF TypeOK
  <2>3. /\ stage[c] \in InFlight
        /\ stage' = [stage EXCEPT ![c] = "gone"]
        /\ todo' = [todo EXCEPT ![c] = {}]
        /\ UNCHANGED <<kind, key, from, kept, charged, usage, memo, peak>>
    BY <1>2 DEF Depart, Leave
  <2>4. TypeOK'
    <3>1. ledger' \in Nat
      BY <2>1, <2>2
    <3>2. stage' \in [Calls -> {"idle"} \cup InFlight \cup Ended]
      BY <2>3 DEF TypeOK, Ended
    <3>3. billed' \in [Calls -> 0..1]
      BY <2>1, <2>2 DEF TypeOK
    <3>4. todo' \in [Calls -> SUBSET (0..Pages)]
      BY <2>3 DEF TypeOK
    <3> QED BY <2>3, <3>1, <3>2, <3>3, <3>4 DEF TypeOK
  <2>5. Books'
    BY <2>1, <2>3 DEF Books, TypeOK, Paying, InFlight
  <2>6. Entries'
    BY <2>1, <2>3 DEF Entries, TypeOK, Memoized, InFlight
  <2>7. RankKeepsSome'
    BY <2>3 DEF RankKeepsSome, TypeOK
  <2>8. Overshoot'
    <3>1. CASE kind[c] \in Paying
      <4>1. Owing' = Owing \ {c}
        BY <2>3 DEF Owing, TypeOK, InFlight
      <4> QED BY <2>1, <2>2, <2>3, <3>1, <4>1, PaymentKeeps
    <3>2. CASE kind[c] \notin Paying
      <4>1. Owing' \subseteq Owing
        BY <2>3 DEF Owing, TypeOK, InFlight
      <4>2. usage[c] = 0
        BY <2>3, <3>2 DEF Books, InFlight
      <4>3. ledger' = ledger
        BY <2>1, <2>2, <4>2
      <4> QED BY <2>3, <4>1, <4>3, OvershootKeeps
    <3> QED BY <3>1, <3>2
  <2> QED BY <2>4, <2>5, <2>6, <2>7, <2>8
<1>3. ASSUME NEW t \in Tasks, t[1] = c, ExtractOne(t)
      PROVE  IInv'
  <2>1. /\ kind[c] \in {"extract", "tool"}
        /\ todo' = [todo EXCEPT ![c] = todo[c] \ {t[2]}]
        /\ stage' = [stage EXCEPT ![c] = IF todo'[c] = {} THEN "done" ELSE "asking"]
        /\ charged' = [charged EXCEPT ![c] = charged[c] + 1]
        /\ UNCHANGED <<kind, key, from, kept, usage, billed, memo, ledger, peak>>
    BY <1>3 DEF ExtractOne
  <2>2. charged[c] \in Nat /\ todo[c] \ {t[2]} \subseteq 0..Pages
    BY DEF TypeOK
  <2>3. TypeOK'
    <3>1. charged' \in [Calls -> Nat]
      BY <2>1, <2>2 DEF TypeOK
    <3>2. stage' \in [Calls -> {"idle"} \cup InFlight \cup Ended]
      BY <2>1 DEF TypeOK, InFlight, Ended
    <3>3. todo' \in [Calls -> SUBSET (0..Pages)]
      BY <2>1, <2>2 DEF TypeOK
    <3> QED BY <2>1, <3>1, <3>2, <3>3 DEF TypeOK
  <2>4. Books'
    BY <2>1 DEF Books, TypeOK, Paying
  <2>5. Entries'
    BY <2>1 DEF Entries, TypeOK, Memoized
  <2>6. RankKeepsSome'
    BY <2>1 DEF RankKeepsSome, TypeOK
  <2>7. Owing' \subseteq Owing
    BY <2>1 DEF Owing, Paying, TypeOK
  <2> QED BY <2>1, <2>3, <2>4, <2>5, <2>6, <2>7, OvershootKeeps
<1> QED BY <1>1, <1>2, <1>3

(***************************************************************************)
(* The invariant, and what it was found for.                               *)
(***************************************************************************)
THEOREM Invariance == Spec => []IInv
<1>1. Init => IInv
  <2> SUFFICES ASSUME Init PROVE IInv
    OBVIOUS
  <2>1. Cap \in Nat /\ 0 \in 0..TopK
    BY AnswersAssumption
  <2>2. TypeOK
    BY <2>1 DEF Init, TypeOK
  <2>3. Owing = {}
    BY DEF Init, Owing, InFlight
  <2>4. Cardinality(Owing) = 0
    BY <2>3, FS_EmptySet
  <2>5. Books /\ RankKeepsSome
    BY DEF Init, Books, RankKeepsSome
  <2>6. Entries
    BY DEF Init, Entries
  <2>7. Overshoot
    BY <2>1, <2>4 DEF Init, Overshoot
  <2> QED BY <2>2, <2>5, <2>6, <2>7 DEF IInv
<1>2. IInv /\ [Next]_vars => IInv'
  <2> SUFFICES ASSUME IInv, [Next]_vars PROVE IInv'
    OBVIOUS
  <2>1. ASSUME NEW c \in Calls,
               Answer(c) \/ Token(c) \/ StreamEnds(c) \/ AnswerFails(c) \/ Rank(c)
        PROVE  IInv'
    BY <2>1, ModelKeeps
  <2>2. ASSUME NEW c \in Calls,
               Refuse(c) \/ Hit(c) \/ Arbitrate(c) \/ Prepared(c) \/ PrepareFails(c)
        PROVE  IInv'
    BY <2>2, EntryKeeps
  <2>3. ASSUME NEW c \in Calls, Prepare(c) PROVE IInv'
    BY <2>3, PrepareKeeps
  <2>4. ASSUME NEW c \in Calls, Bill(c) \/ Depart(c) PROVE IInv'
    BY <2>4, EndingKeeps
  <2>5. ASSUME NEW t \in Tasks, ExtractOne(t) PROVE IInv'
    <3>1. t[1] \in Calls
      BY DEF Tasks
    <3> QED BY <2>5, <3>1, EndingKeeps
  <2>6. ASSUME NEW m \in Memoized, NEW k \in Keys, Forget(m, k) PROVE IInv'
    <3> USE <2>6 DEF Forget, IInv
    <3>1. TypeOK'
      BY DEF TypeOK
    <3>2. Books' /\ RankKeepsSome'
      BY DEF Books, RankKeepsSome
    <3>3. Entries'
      BY DEF Entries, TypeOK
    <3>4. Owing' \subseteq Owing
      BY DEF Owing
    <3> QED BY <3>1, <3>2, <3>3, <3>4, OvershootKeeps
  <2>7. CASE UNCHANGED vars
    <3> USE <2>7 DEF vars
    <3>1. TypeOK' /\ Books' /\ Entries' /\ RankKeepsSome'
      BY DEF IInv, TypeOK, Books, Entries, RankKeepsSome
    <3>2. Owing' \subseteq Owing
      BY DEF Owing
    <3> QED BY <3>1, <3>2, OvershootKeeps DEF IInv
  <2> QED BY <2>1, <2>2, <2>3, <2>4, <2>5, <2>6, <2>7 DEF Next, Work
<1> QED BY <1>1, <1>2, PTL DEF Spec

\* The types of Answers, for any constants.
THEOREM TypeCorrect == Spec => []TypeOK
BY Invariance, PTL DEF IInv

\* An answer is billed once, to the call that asked the model for it, at what
\* its tracker learned and never above what was charged; those that are given
\* it later pay nothing (the answer cache and routes/answer.py).
THEOREM AnswersPaidOnce == Spec => []PaidOnce
<1>1. IInv => PaidOnce
  <2> SUFFICES ASSUME IInv PROVE PaidOnce
    OBVIOUS
  <2> QED BY DEF IInv, TypeOK, Books, PaidOnce, Paying
<1> QED BY <1>1, Invariance, PTL

\* The ledger exceeds the cap by less than the calls that were in flight at
\* once: each was let in below the cap, and each adds one.
THEOREM CapIsExceededByFlights == Spec => []OvershootIsInFlight
<1>1. IInv => OvershootIsInFlight
  <2> SUFFICES ASSUME IInv PROVE OvershootIsInFlight
    OBVIOUS
  <2>1. Cap \in Nat /\ ledger \in Nat /\ peak \in Nat /\ Cardinality(Owing) \in Nat
    BY AnswersAssumption, OwingFinite DEF IInv, TypeOK
  <2> QED BY <2>1 DEF IInv, Overshoot, OvershootIsInFlight
<1> QED BY <1>1, Invariance, PTL

\* An arbitration keeps some of its results and no more than it may.
THEOREM ArbitrationsKeepSome == Spec => []RankKeepsSome
BY Invariance, PTL DEF IInv
=============================================================================
