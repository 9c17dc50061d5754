----------------------------- MODULE CallerProofs -----------------------------
(***************************************************************************)
(* Proofs about what a caller may take, is charged and gets: ResearchRuns, *)
(* for any number of runs, slots and costs; then RateLimiter, for any      *)
(* clients, limits, windows and size of the table; then ToolResults, for   *)
(* any calls, pages, ceiling and size of the store.                        *)
(***************************************************************************)
EXTENDS ResearchRuns, RateLimiter, ToolResults, FiniteSetTheorems, WellFoundedInduction, TLAPS

-----------------------------------------------------------------------------
(* Research runs.                                                          *)

(***************************************************************************)
(* The inductive invariant.  A run has no outcome and no bill before it    *)
(* closes its books, no cost before its checks (Ahead); the statement that *)
(* bills it determines what was billed (Books), an outcome that is about   *)
(* to be reported is one the bill preceded (Closing), and the webhook is   *)
(* called between the two (Callback).                                      *)
(***************************************************************************)
Before == {"idle", "checking", "clarifying", "eliciting", "creating", "starting", "running",
           "stranded"}

Ahead ==
    \A r \in Runs : pc[r] \in Before =>
        /\ outcome[r] = "none" /\ due[r] = "no" /\ heard[r] = "nothing"
        /\ pc[r] \in {"idle", "checking"} => usage[r] = 0

Books ==
    \A r \in Runs :
        /\ owed[r] <= usage[r]
        /\ due[r] = "no" => owed[r] = 0
        /\ billed[r] = IF due[r] = "done" THEN owed[r] ELSE 0

Closing ==
    \A r \in Runs :
        /\ pc[r] = "billing" =>
             /\ outcome[r] # "none"
             /\ due[r] # "no"
             /\ heard[r] = "nothing"
        /\ pc[r] = "notifying" => outcome[r] \in {"completed", "failed"}
        /\ pc[r] \in {"billing", "notifying", "over"} /\ outcome[r] \in {"completed", "returned"}
             /\ ~(outcome[r] = "returned" /\ due[r] = "no")
             => owed[r] = usage[r]
        /\ outcome[r] = "returned" /\ kind[r] # "mcp" /\ usage[r] > 0 => due[r] # "no"

Callback ==
    \A r \in Runs :
        /\ pc[r] = "notifying" => heard[r] \in {"nothing", outcome[r]}
        /\ outcome[r] = "returned" => heard[r] = "nothing"

IInv ==
    /\ TypeOK
    /\ SlotsMatch
    /\ Ahead
    /\ Books
    /\ Closing
    /\ Callback
    /\ SettledRunsAreBilled
    /\ CallbackMatchesOutcome

-----------------------------------------------------------------------------
LEMMA InitIInv == Init => IInv
<1>1. Init => SlotsMatch
  <2> SUFFICES ASSUME Init PROVE SlotsMatch
    OBVIOUS
  <2>1. {r \in Runs : Holds(r)} = {}
    BY DEF Init, Holds
  <2> QED
    BY <2>1, FS_EmptySet DEF Init, SlotsMatch
<1>2. Init => TypeOK
  BY RunsAssumption DEF Init, TypeOK, Surfaces, Outcomes
<1> QED
  BY <1>1, <1>2 DEF Init, IInv, Ahead, Books, Closing, Callback, Before,
                    SettledRunsAreBilled, CallbackMatchesOutcome

-----------------------------------------------------------------------------
(* The bill and the callback.                                              *)

Money ==
    /\ Ahead
    /\ Books
    /\ Closing
    /\ Callback
    /\ SettledRunsAreBilled
    /\ CallbackMatchesOutcome

LEMMA MoneyStep ==
  ASSUME TypeOK, Money, [Next]_vars
  PROVE  Money'
<1> USE RunsAssumption DEF TypeOK, Money, Ahead, Books, Closing, Callback, SettledRunsAreBilled,
        CallbackMatchesOutcome, Before, Surfaces, Outcomes, Goto
<1>1. ASSUME NEW r \in Runs, NEW surface \in Surfaces, Ask(r, surface) PROVE Money'
  BY <1>1 DEF Ask
<1>2. ASSUME NEW r \in Runs, Refuse(r) \/ Quote(r) \/ RefuseWebhook(r) PROVE Money'
  BY <1>2 DEF Refuse, Quote, RefuseWebhook, End
<1>3. ASSUME NEW r \in Runs, ReadSpent(r) PROVE Money'
  BY <1>3 DEF ReadSpent
<1>4. ASSUME NEW r \in Runs, Admit(r) PROVE Money'
  BY <1>4 DEF Admit, Proceed, End
<1>5. ASSUME NEW r \in Runs, Clarify(r) PROVE Money'
  BY <1>5 DEF Clarify
<1>6. ASSUME NEW r \in Runs, Clarified(r) PROVE Money'
  BY <1>6 DEF Clarified, Proceed, End
<1>7. ASSUME NEW r \in Runs, Elicit(r) PROVE Money'
  BY <1>7 DEF Elicit
<1>8. ASSUME NEW r \in Runs, HandBack(r) PROVE Money'
  BY <1>8 DEF HandBack, Record
<1>9. ASSUME NEW r \in Runs, Created(r) PROVE Money'
  BY <1>9 DEF Created
<1>10. ASSUME NEW r \in Runs, HangUp(r) PROVE Money'
  BY <1>10 DEF HangUp, End
<1>11. ASSUME NEW r \in Runs, Begin(r) PROVE Money'
  BY <1>11 DEF Begin
<1>12. ASSUME NEW r \in Runs, Spend(r) PROVE Money'
  BY <1>12 DEF Spend
<1>13. ASSUME NEW r \in Runs, SpendLate(r) PROVE Money'
  BY <1>13 DEF SpendLate
<1>14. ASSUME NEW r \in Runs, Return(r) PROVE Money'
  BY <1>14 DEF Return, Record
<1>15. ASSUME NEW r \in Runs, Raise(r) PROVE Money'
  BY <1>15 DEF Raise, Record
<1>16. ASSUME NEW r \in Runs, Recorded(r) PROVE Money'
  BY <1>16 DEF Recorded
<1>17. ASSUME NEW r \in Runs, Deliver(r) PROVE Money'
  BY <1>17 DEF Deliver
<1>18. ASSUME NEW r \in Runs, Notified(r) PROVE Money'
  BY <1>18 DEF Notified
<1>19. ASSUME NEW r \in Runs, Bill(r) PROVE Money'
  BY <1>19 DEF Bill
<1>20. ASSUME NEW r \in Runs, CancelStarting(r) PROVE Money'
  BY <1>20 DEF CancelStarting
<1>21. ASSUME NEW r \in Runs, CancelRunning(r) PROVE Money'
  BY <1>21 DEF CancelRunning, Record, End
<1>22. ASSUME NEW r \in Runs, CancelEnding(r) PROVE Money'
  BY <1>22 DEF CancelEnding, End
<1>23. ASSUME UNCHANGED vars PROVE Money'
  BY <1>23 DEF vars
<1> HIDE DEF TypeOK, Money, Ahead, Books, Closing, Callback, SettledRunsAreBilled,
        CallbackMatchesOutcome, Before, Surfaces, Outcomes, Goto
<1>24. CASE Next
  <2>1. PICK r \in Runs :
          \/ \E surface \in Surfaces : Ask(r, surface)
          \/ ReadSpent(r) \/ Refuse(r) \/ Quote(r) \/ RefuseWebhook(r) \/ Admit(r)
          \/ Clarify(r) \/ Clarified(r) \/ Elicit(r) \/ HandBack(r) \/ Created(r)
          \/ HangUp(r) \/ Begin(r) \/ Spend(r) \/ SpendLate(r) \/ Return(r) \/ Raise(r)
          \/ Recorded(r) \/ Deliver(r) \/ Notified(r) \/ Bill(r)
          \/ CancelStarting(r) \/ CancelRunning(r) \/ CancelEnding(r)
    BY <1>24 DEF Next
  <2> QED
    BY <1>1, <1>2, <1>3, <1>4, <1>5, <1>6, <1>7, <1>8, <1>9, <1>10, <1>11, <1>12, <1>13,
       <1>14, <1>15, <1>16, <1>17, <1>18, <1>19, <1>20, <1>21, <1>22, <2>1
<1> QED
  BY <1>23, <1>24

-----------------------------------------------------------------------------
(* The types and the slots.                                                *)

LEMMA TypeStep ==
  ASSUME TypeOK, Closing, [Next]_vars
  PROVE  TypeOK'
<1> USE RunsAssumption DEF TypeOK, Surfaces, Outcomes, Goto, Released
<1>1. ASSUME NEW r \in Runs, NEW surface \in Surfaces, Ask(r, surface) PROVE TypeOK'
  BY <1>1 DEF Ask
<1>2. ASSUME NEW r \in Runs, Refuse(r) \/ Quote(r) \/ RefuseWebhook(r) PROVE TypeOK'
  BY <1>2 DEF Refuse, Quote, RefuseWebhook, End
<1>3. ASSUME NEW r \in Runs, ReadSpent(r) PROVE TypeOK'
  BY <1>3 DEF ReadSpent
<1>4. ASSUME NEW r \in Runs, Admit(r) PROVE TypeOK'
  BY <1>4 DEF Admit, Proceed, Free, End
<1>5. ASSUME NEW r \in Runs, Clarify(r) PROVE TypeOK'
  BY <1>5 DEF Clarify
<1>6. ASSUME NEW r \in Runs, Clarified(r) PROVE TypeOK'
  BY <1>6 DEF Clarified, Proceed, Free, End
<1>7. ASSUME NEW r \in Runs, Elicit(r) PROVE TypeOK'
  BY <1>7 DEF Elicit
<1>8. ASSUME NEW r \in Runs, HandBack(r) PROVE TypeOK'
  BY <1>8 DEF HandBack, Record
<1>9. ASSUME NEW r \in Runs, Created(r) PROVE TypeOK'
  BY <1>9 DEF Created
<1>10. ASSUME NEW r \in Runs, HangUp(r) PROVE TypeOK'
  BY <1>10 DEF HangUp, End
<1>11. ASSUME NEW r \in Runs, Begin(r) PROVE TypeOK'
  BY <1>11 DEF Begin
<1>12. ASSUME NEW r \in Runs, Spend(r) PROVE TypeOK'
  BY <1>12 DEF Spend
<1>13. ASSUME NEW r \in Runs, SpendLate(r) PROVE TypeOK'
  BY <1>13 DEF SpendLate
<1>14. ASSUME NEW r \in Runs, Return(r) PROVE TypeOK'
  BY <1>14 DEF Return, Record
<1>15. ASSUME NEW r \in Runs, Raise(r) PROVE TypeOK'
  BY <1>15 DEF Raise, Record
<1>16. ASSUME NEW r \in Runs, Recorded(r) PROVE TypeOK'
  BY <1>16 DEF Recorded
<1>17. ASSUME NEW r \in Runs, Deliver(r) PROVE TypeOK'
  BY <1>17 DEF Deliver, Closing
<1>18. ASSUME NEW r \in Runs, Notified(r) PROVE TypeOK'
  BY <1>18 DEF Notified
<1>19. ASSUME NEW r \in Runs, Bill(r) PROVE TypeOK'
  BY <1>19 DEF Bill
<1>20. ASSUME NEW r \in Runs, CancelStarting(r) PROVE TypeOK'
  BY <1>20 DEF CancelStarting
<1>21. ASSUME NEW r \in Runs, CancelRunning(r) PROVE TypeOK'
  BY <1>21 DEF CancelRunning, Record, End
<1>22. ASSUME NEW r \in Runs, CancelEnding(r) PROVE TypeOK'
  BY <1>22 DEF CancelEnding, End
<1>23. ASSUME UNCHANGED vars PROVE TypeOK'
  BY <1>23 DEF vars
<1> HIDE DEF TypeOK, Surfaces, Outcomes, Goto, Released
<1> QED
  BY <1>1, <1>2, <1>3, <1>4, <1>5, <1>6, <1>7, <1>8, <1>9, <1>10, <1>11, <1>12, <1>13, <1>14, <1>15, <1>16, <1>17, <1>18, <1>19, <1>20, <1>21, <1>22, <1>23 DEF Next

Holders == {r \in Runs : Holds(r)}

\* A run takes a slot, and the count goes up by one.
LEMMA TakeSlot ==
  ASSUME SlotsMatch, NEW r \in Runs, ~Holds(r),
         Holders' = Holders \cup {r}, active' = active + 1
  PROVE  SlotsMatch'
<1>1. IsFiniteSet(Holders)
  BY RunsAssumption, FS_Subset DEF Holders
<1>2. Cardinality(Holders \cup {r}) = Cardinality(Holders) + 1
  BY <1>1, FS_AddElement DEF Holders
<1> QED
  BY <1>2 DEF SlotsMatch, Holders

\* A run that holds a slot returns it, and the count goes down by one.
LEMMA ReturnSlot ==
  ASSUME SlotsMatch, NEW r \in Runs, Holds(r),
         Holders' = Holders \ {r}, active' = Released
  PROVE  SlotsMatch'
<1>1. IsFiniteSet(Holders)
  BY RunsAssumption, FS_Subset DEF Holders
<1>2. Cardinality(Holders \ {r}) = Cardinality(Holders) - 1
  BY <1>1, FS_RemoveElement DEF Holders
<1>3. Cardinality(Holders) \in Nat /\ Cardinality(Holders) # 0
  BY <1>1, FS_CardinalityType, FS_EmptySet DEF Holders
<1> QED
  BY <1>2, <1>3 DEF SlotsMatch, Holders, Released

LEMMA KeepSlots ==
  ASSUME SlotsMatch, Holders' = Holders, active' = active
  PROVE  SlotsMatch'
  BY DEF SlotsMatch, Holders

LEMMA SlotsStep ==
  ASSUME TypeOK, Ahead, SlotsMatch, [Next]_vars
  PROVE  SlotsMatch'
<1> USE RunsAssumption DEF TypeOK, Goto, Holds, Holders
<1>1. ASSUME NEW r \in Runs, Admit(r) \/ Clarified(r) PROVE SlotsMatch'
  <2>1. CASE kind[r] = "mcp" /\ Slots > 0 /\ Free
    <3>1. ~Holds(r) /\ Holders' = Holders \cup {r} /\ active' = active + 1
      BY <1>1, <2>1 DEF Admit, Clarified, Proceed, End
    <3> QED
      BY <3>1, TakeSlot
  <2>2. CASE ~(kind[r] = "mcp" /\ Slots > 0 /\ Free)
    <3>1. Holders' = Holders /\ active' = active
      BY <1>1, <2>2 DEF Admit, Clarified, Proceed, End
    <3> QED
      BY <3>1, KeepSlots
  <2> QED
    BY <2>1, <2>2
<1>2. ASSUME NEW r \in Runs,
             HangUp(r) \/ Return(r) \/ Recorded(r) \/ CancelEnding(r)
      PROVE  SlotsMatch'
  <2>1. CASE Holds(r)
    <3>1. Holders' = Holders \ {r} /\ active' = Released
      BY <1>2, <2>1 DEF HangUp, Return, Recorded, CancelEnding, End, Record
    <3> QED
      BY <2>1, <3>1, ReturnSlot
  <2>2. CASE ~Holds(r)
    <3>1. Holders' = Holders /\ active' = active
      BY <1>2, <2>2 DEF HangUp, Return, Recorded, CancelEnding, End, Record
    <3> QED
      BY <3>1, KeepSlots
  <2> QED
    BY <2>1, <2>2
<1>3. ASSUME NEW r \in Runs,
             \/ ReadSpent(r) \/ Refuse(r) \/ Quote(r) \/ RefuseWebhook(r) \/ Clarify(r) \/ Elicit(r) \/ HandBack(r)
             \/ Created(r) \/ Begin(r) \/ Spend(r) \/ SpendLate(r) \/ Deliver(r)
             \/ Notified(r) \/ Bill(r) \/ CancelStarting(r)
      PROVE  SlotsMatch'
  <2>1. Holders' = Holders /\ active' = active
    BY <1>3 DEF ReadSpent, Refuse, Quote, RefuseWebhook, Clarify, Elicit, HandBack, Created, Begin, Spend,
                SpendLate, Deliver, Notified, Bill, CancelStarting, End, Record
  <2> QED
    BY <2>1, KeepSlots
<1>4. ASSUME NEW r \in Runs, Raise(r) \/ CancelRunning(r) PROVE SlotsMatch'
  <2>1. Holders' = Holders /\ active' = active
    BY <1>4 DEF Raise, CancelRunning, End, Record
  <2> QED
    BY <2>1, KeepSlots
<1>5. ASSUME NEW r \in Runs, NEW surface \in Surfaces, Ask(r, surface) PROVE SlotsMatch'
  <2>1. Holders' = Holders /\ active' = active
    BY <1>5 DEF Ask
  <2> QED
    BY <2>1, KeepSlots
<1>6. ASSUME UNCHANGED vars PROVE SlotsMatch'
  <2>1. Holders' = Holders /\ active' = active
    BY <1>6 DEF vars
  <2> QED
    BY <2>1, KeepSlots
<1> QED
  BY <1>1, <1>2, <1>3, <1>4, <1>5, <1>6 DEF Next

-----------------------------------------------------------------------------
(***************************************************************************)
(* Every reachable state satisfies the inductive invariant.                *)
(***************************************************************************)
THEOREM Invariance == Spec => []IInv
<1>1. IInv /\ [Next]_vars => IInv'
  BY TypeStep, SlotsStep, MoneyStep DEF IInv, Money
<1> QED
  BY <1>1, InitIInv, PTL DEF Spec

(***************************************************************************)
(* The variables keep their types; the count of slots stays within them.   *)
(***************************************************************************)
THEOREM TypeCorrect == Spec => []TypeOK
<1>1. IInv => TypeOK
  BY DEF IInv
<1> QED
  BY <1>1, Invariance, PTL

(***************************************************************************)
(* The count of slots is the number of runs that hold one.                 *)
(***************************************************************************)
THEOREM SlotsAreCounted == Spec => []SlotsMatch
<1>1. IInv => SlotsMatch
  BY DEF IInv
<1> QED
  BY <1>1, Invariance, PTL

(***************************************************************************)
(* Runs of the tool in the engine never outnumber the slots: each of them  *)
(* holds one, and the count of those held is bounded.                      *)
(***************************************************************************)
THEOREM EngineRunsAreBounded == Spec => []RunsAreBounded
<1>1. ASSUME IInv PROVE RunsAreBounded
  <2> DEFINE Working == {r \in Runs : kind[r] = "mcp" /\ pc[r] = "running"}
  <2>1. SUFFICES ASSUME Slots > 0 PROVE Cardinality(Working) <= Slots
    BY DEF RunsAreBounded
  <2>2. Working \subseteq Holders
    BY <2>1 DEF Holders, Holds
  <2>3. IsFiniteSet(Holders)
    BY RunsAssumption, FS_Subset DEF Holders
  <2>4. Cardinality(Working) <= Cardinality(Holders)
    BY <2>2, <2>3, FS_Subset
  <2>5. IsFiniteSet(Working)
    BY <2>2, <2>3, FS_Subset
  <2>6. Cardinality(Working) \in Nat /\ Cardinality(Holders) \in Nat
    BY <2>3, <2>5, FS_CardinalityType
  <2>7. Cardinality(Holders) <= Slots
    BY <1>1, RunsAssumption DEF IInv, SlotsMatch, TypeOK, Holders
  <2> HIDE DEF Working
  <2> QED
    BY <2>4, <2>6, <2>7, RunsAssumption
<1>2. IInv => RunsAreBounded
  BY <1>1
<1> QED
  BY <1>2, Invariance, PTL

(***************************************************************************)
(* No run is billed more than it spent.                                    *)
(***************************************************************************)
THEOREM NothingBilledTwice == Spec => []BilledOnce
<1>1. IInv => BilledOnce
  BY DEF IInv, Books, BilledOnce, TypeOK
<1> QED
  BY <1>1, Invariance, PTL

(***************************************************************************)
(* A run that ends by itself is billed first.                              *)
(***************************************************************************)
THEOREM SettledRunsPay == Spec => []SettledRunsAreBilled
<1>1. IInv => SettledRunsAreBilled
  BY DEF IInv
<1> QED
  BY <1>1, Invariance, PTL

(***************************************************************************)
(* The webhook of a job that ends by itself was told its outcome.          *)
(***************************************************************************)
THEOREM CallbacksAreTrue == Spec => []CallbackMatchesOutcome
<1>1. IInv => CallbackMatchesOutcome
  BY DEF IInv
<1> QED
  BY <1>1, Invariance, PTL

-----------------------------------------------------------------------------
(* Sequences.                                                              *)

(***************************************************************************)
(* A set of numbers has a least one: 1..m shrinks with m, and no infinite  *)
(* descent through finite sets exists.                                     *)
(***************************************************************************)
LEMMA LeastNumber ==
    ASSUME NEW U, U \subseteq Nat, U # {}
    PROVE  \E m \in U : \A k \in U : m <= k
<1> DEFINE Intervals == {1..m : m \in U}
<1>1. Intervals # {}
  OBVIOUS
<1>2. Intervals \subseteq FiniteSubsetsOf(Nat)
  <2> SUFFICES ASSUME NEW m \in U PROVE 1..m \in FiniteSubsetsOf(Nat)
    OBVIOUS
  <2>1. IsFiniteSet(1..m)
    BY FS_Interval
  <2> QED BY <2>1 DEF FiniteSubsetsOf
<1>3. \E x \in Intervals : \A y \in Intervals : ~ (<<y, x>> \in StrictSubsetOrdering(Nat))
  <2> HIDE DEF Intervals
  <2> QED BY <1>1, <1>2, FS_StrictSubsetOrderingWellFounded, WFMin
<1>4. PICK m \in U : \A k \in U : ~ (<<1..k, 1..m>> \in StrictSubsetOrdering(Nat))
  BY <1>3
<1> SUFFICES ASSUME NEW k \in U, k < m PROVE FALSE
  OBVIOUS
<1>5. 1..k \subseteq Nat /\ 1..m \subseteq Nat /\ 1..k \subseteq 1..m /\ 1..k # 1..m
  <2>1. m \in 1..m /\ m \notin 1..k
    OBVIOUS
  <2> QED BY <2>1
<1>6. <<1..k, 1..m>> \in StrictSubsetOrdering(Nat)
  <2> DEFINE a == 1..k
             b == 1..m
  <2> HIDE DEF a, b
  <2>1. a \subseteq Nat /\ b \subseteq Nat /\ a \subseteq b /\ a # b
    BY <1>5 DEF a, b
  <2>2. <<a, b>> \in StrictSubsetOrdering(Nat)
    BY <2>1 DEF StrictSubsetOrdering
  <2> QED BY <2>2 DEF a, b
<1> QED
  BY <1>4, <1>6

(***************************************************************************)
(* So a set of positions that has the first one, and each with the one     *)
(* before, has them all.                                                   *)
(***************************************************************************)
LEMMA Positions ==
    ASSUME NEW n \in Nat, NEW U, 0 \in U, \A i \in 1..n : i - 1 \in U => i \in U
    PROVE  0..n \subseteq U
<1> DEFINE V == {i \in 0..n : i \notin U}
<1> SUFFICES ASSUME V # {} PROVE FALSE
  OBVIOUS
<1>1. PICK m \in V : \A k \in V : m <= k
  <2>1. V \subseteq Nat
    OBVIOUS
  <2> HIDE DEF V
  <2> QED BY <2>1, LeastNumber
<1>2. m \in 1..n /\ m - 1 \in 0..n /\ ~(m <= m - 1)
  OBVIOUS
<1>3. m - 1 \in U
  BY <1>1, <1>2
<1> QED
  BY <1>2, <1>3

\* f starts with first and goes on by these steps.
Follows(f, n, first, step) ==
    \A i \in 0..n : f[i] = IF i = 0 THEN first ELSE step[i][f[i - 1]]

(***************************************************************************)
(* A recursive function of the position exists: each step is a function of *)
(* the value before.                                                       *)
(***************************************************************************)
LEMMA RecursionExists ==
    ASSUME NEW n \in Nat, NEW X, NEW first \in X, NEW step \in [1..n -> [X -> X]]
    PROVE  \E f \in [0..n -> X] : Follows(f, n, first, step)
<1> DEFINE Good(m, f) == Follows(f, m, first, step)
           U == {m \in 0..n : \E f \in [0..m -> X] : Good(m, f)}
<1>1. 0 \in U
  <2> DEFINE f == [i \in 0..0 |-> first]
  <2>1. f \in [0..0 -> X] /\ Good(0, f)
    BY DEF Follows
  <2>2. 0 \in 0..n
    OBVIOUS
  <2> HIDE DEF f, Good
  <2> QED BY <2>1, <2>2
<1>2. ASSUME NEW m \in 1..n, m - 1 \in U
      PROVE  m \in U
  <2>1. PICK f \in [0..(m - 1) -> X] : Good(m - 1, f)
    BY <1>2
  <2> DEFINE g == [i \in 0..m |-> IF i = m THEN step[m][f[m - 1]] ELSE f[i]]
  <2>2. step[m][f[m - 1]] \in X
    OBVIOUS
  <2>3. g \in [0..m -> X]
    BY <2>2
  <2>4. Good(m, g)
    <3> SUFFICES ASSUME NEW i \in 0..m
                 PROVE  g[i] = IF i = 0 THEN first ELSE step[i][g[i - 1]]
      BY DEF Follows
    <3>1. CASE i = m
      BY <3>1
    <3>2. CASE i # m
      <4>1. i \in 0..(m - 1) /\ g[i] = f[i] /\ (i # 0 => g[i - 1] = f[i - 1])
        BY <3>2
      <4> QED BY <2>1, <4>1 DEF Follows
    <3> QED BY <3>1, <3>2
  <2>5. m \in 0..n
    OBVIOUS
  <2> HIDE DEF g, Good
  <2> QED BY <2>3, <2>4, <2>5
<1>3. n \in U
  <2> HIDE DEF U
  <2>1. 0..n \subseteq U
    BY <1>1, <1>2, Positions
  <2> QED BY <2>1
<1> QED
  BY <1>3

-----------------------------------------------------------------------------
(* Sums.                                                                   *)

(***************************************************************************)
(* The totals of a sequence of numbers start at 0 and add one each.        *)
(***************************************************************************)
LEMMA TotalsStep ==
    ASSUME NEW s \in Seq(Nat)
    PROVE  /\ Totals(s) \in [0..Len(s) -> Nat]
           /\ Totals(s)[0] = 0
           /\ \A i \in 1..Len(s) : Totals(s)[i] = Totals(s)[i - 1] + s[i]
<1> DEFINE n == Len(s)
           Is(f) == f = [i \in 0..n |-> IF i = 0 THEN 0 ELSE f[i - 1] + s[i]]
<1>1. n \in Nat /\ \A i \in 1..n : s[i] \in Nat
  OBVIOUS
<1>2. Totals(s) = CHOOSE f : Is(f)
  BY DEF Totals
<1>3. \E f \in [0..n -> Nat] : Is(f)
  <2> DEFINE step == [i \in 1..n |-> [x \in Nat |-> x + s[i]]]
  <2>1. step \in [1..n -> [Nat -> Nat]]
    BY <1>1
  <2> HIDE DEF n
  <2>2. PICK f \in [0..n -> Nat] : Follows(f, n, 0, step)
    <3> HIDE DEF step
    <3> QED BY <1>1, <2>1, RecursionExists
  <2>3. ASSUME NEW i \in 0..n
        PROVE  f[i] = IF i = 0 THEN 0 ELSE f[i - 1] + s[i]
    <3>1. f[i] = IF i = 0 THEN 0 ELSE step[i][f[i - 1]]
      BY <2>2 DEF Follows
    <3>2. i # 0 => i \in 1..n /\ f[i - 1] \in Nat
      BY <1>1
    <3> QED BY <3>1, <3>2
  <2>4. f = [i \in 0..n |-> IF i = 0 THEN 0 ELSE f[i - 1] + s[i]]
    BY <2>3
  <2> QED BY <2>4
<1>4. Is(Totals(s))
  <2> HIDE DEF Is
  <2> QED BY <1>2, <1>3
<1> DEFINE f == Totals(s)
<1>5. \A i \in 0..n : f[i] = IF i = 0 THEN 0 ELSE f[i - 1] + s[i]
  BY <1>4
<1> HIDE DEF f, n
<1>6. f[0] = 0 /\ \A i \in 1..n : f[i] = f[i - 1] + s[i]
  BY <1>1, <1>5
<1>7. \A i \in 0..n : f[i] \in Nat
  <2> DEFINE U == {i \in 0..n : f[i] \in Nat}
  <2>1. 0 \in U
    BY <1>1, <1>6
  <2>2. ASSUME NEW i \in 1..n, i - 1 \in U PROVE i \in U
    BY <1>1, <1>6, <2>2
  <2> HIDE DEF U
  <2>3. 0..n \subseteq U
    BY <1>1, <2>1, <2>2, Positions
  <2> QED BY <2>3 DEF U
<1>8. f \in [0..n -> Nat]
  <2>1. f = [i \in 0..n |-> IF i = 0 THEN 0 ELSE f[i - 1] + s[i]]
    BY <1>4 DEF f, n
  <2> QED BY <1>7, <2>1
<1> QED
  BY <1>6, <1>8 DEF f, n

(***************************************************************************)
(* Totals only grow.                                                       *)
(***************************************************************************)
LEMMA TotalsGrow ==
    ASSUME NEW s \in Seq(Nat), NEW k \in 0..Len(s)
    PROVE  Totals(s)[k] <= Total(s)
<1> DEFINE n == Len(s)
           f == Totals(s)
           U == {i \in 0..n : i < k \/ f[k] <= f[i]}
<1>1. n \in Nat /\ f \in [0..n -> Nat] /\ \A i \in 1..n : f[i] = f[i - 1] + s[i] /\ s[i] \in Nat
  BY TotalsStep
<1> HIDE DEF f
<1>2. 0 \in U
  BY <1>1
<1>3. ASSUME NEW i \in 1..n, i - 1 \in U PROVE i \in U
  <2>a. i \in 0..n /\ i - 1 \in 0..n /\ k \in 0..n
    BY <1>1
  <2>b. \A j \in 0..n : f[j] \in Nat
    BY <1>1
  <2>0. f[i] \in Nat /\ f[i - 1] \in Nat /\ f[k] \in Nat
    BY <2>a, <2>b
  <2>1. CASE i - 1 < k
    <3>1. i < k \/ i = k
      BY <2>1, <2>a
    <3> QED BY <2>0, <2>a, <3>1
  <2>2. CASE f[k] <= f[i - 1]
    <3>1. f[i] = f[i - 1] + s[i] /\ s[i] \in Nat
      BY <1>1
    <3>2. f[k] <= f[i]
      BY <2>0, <2>2, <3>1
    <3> QED BY <2>a, <3>2
  <2> QED BY <1>3, <2>1, <2>2
<1>4. n \in U
  <2>0. n \in Nat /\ n \in 0..n
    BY <1>1
  <2> HIDE DEF U, n
  <2>1. 0..n \subseteq U
    BY <2>0, <1>2, <1>3, Positions
  <2> QED BY <2>0, <2>1
<1> QED
  BY <1>1, <1>4 DEF Total, f

(***************************************************************************)
(* What one more number adds.                                              *)
(***************************************************************************)
LEMMA TotalsAppend ==
    ASSUME NEW s \in Seq(Nat), NEW x \in Nat
    PROVE  /\ \A k \in 0..Len(s) : Totals(Append(s, x))[k] = Totals(s)[k]
           /\ Total(Append(s, x)) = Total(s) + x
<1> DEFINE n == Len(s)
           t == Append(s, x)
           f == Totals(s)
           g == Totals(t)
           U == {k \in 0..n : g[k] = f[k]}
<1>1. n \in Nat /\ t \in Seq(Nat) /\ Len(t) = n + 1 /\ t[n + 1] = x /\ \A i \in 1..n : t[i] = s[i]
  OBVIOUS
<1>2. f[0] = 0 /\ \A i \in 1..n : f[i] = f[i - 1] + s[i]
  BY TotalsStep
<1>3. g[0] = 0 /\ \A i \in 1..(n + 1) : g[i] = g[i - 1] + t[i]
  BY <1>1, TotalsStep
<1> HIDE DEF f, g, t, n
<1>4. 0 \in U
  BY <1>1, <1>2, <1>3
<1>5. ASSUME NEW i \in 1..n, i - 1 \in U PROVE i \in U
  BY <1>1, <1>2, <1>3, <1>5
<1>6. \A k \in 0..n : g[k] = f[k]
  <2> HIDE DEF U
  <2>1. 0..n \subseteq U
    BY <1>1, <1>4, <1>5, Positions
  <2> QED BY <2>1 DEF U
<1>7. g[n + 1] = f[n] + x
  <2>1. n + 1 \in 1..(n + 1) /\ (n + 1) - 1 = n /\ n \in 0..n
    BY <1>1
  <2>2. g[n + 1] = g[n] + x
    BY <1>1, <1>3, <2>1
  <2> QED BY <1>6, <2>1, <2>2
<1> QED
  BY <1>1, <1>6, <1>7 DEF Total, f, g, t, n

(***************************************************************************)
(* What is left of a sequence comes to what its head did not.              *)
(***************************************************************************)
LEMMA TotalsShift ==
    ASSUME NEW s \in Seq(Nat), NEW d \in 0..Len(s), NEW t \in Seq(Nat),
           Len(t) = Len(s) - d, \A i \in 1..Len(t) : t[i] = s[d + i]
    PROVE  \A k \in 0..Len(t) : Totals(t)[k] = Totals(s)[d + k] - Totals(s)[d]
<1> DEFINE n == Len(t)
           f == Totals(s)
           g == Totals(t)
           U == {k \in 0..n : g[k] = f[d + k] - f[d]}
<1>1. n \in Nat /\ Len(s) \in Nat /\ \A i \in 1..n : d + i \in 1..Len(s) /\ t[i] = s[d + i] /\ s[d + i] \in Nat
  OBVIOUS
<1>2. f \in [0..Len(s) -> Nat] /\ \A i \in 1..Len(s) : f[i] = f[i - 1] + s[i]
  BY TotalsStep
<1>3. g[0] = 0 /\ \A i \in 1..n : g[i] = g[i - 1] + t[i]
  BY TotalsStep
<1>4. \A k \in 0..n : d + k \in 0..Len(s) /\ f[d + k] \in Nat /\ f[d] \in Nat
  <2>1. \A k \in 0..n : d + k \in 0..Len(s)
    BY <1>1
  <2> QED BY <1>2, <2>1
<1> HIDE DEF f, g
<1>5. 0 \in U
  <2>1. 0 \in 0..n /\ d + 0 = d
    BY <1>1
  <2>2. f[d] \in Nat
    BY <1>4, <2>1
  <2> QED BY <1>3, <2>1, <2>2
<1>6. ASSUME NEW i \in 1..n, i - 1 \in U PROVE i \in U
  <2>1. g[i - 1] = f[d + (i - 1)] - f[d] /\ d + (i - 1) = (d + i) - 1
    BY <1>6, <1>1
  <2>2. f[d + i] = f[(d + i) - 1] + s[d + i] /\ g[i] = g[i - 1] + s[d + i]
    BY <1>1, <1>2, <1>3
  <2>3. i - 1 \in 0..n /\ i \in 0..n /\ s[d + i] \in Nat
    BY <1>1
  <2>4. f[(d + i) - 1] \in Nat /\ f[d] \in Nat
    BY <1>4, <2>1, <2>3
  <2> DEFINE a == f[(d + i) - 1]
             b == f[d]
             c == s[d + i]
  <2>a. a \in Nat /\ b \in Nat /\ c \in Nat
    BY <2>3, <2>4
  <2>b. g[i] = (a - b) + c /\ f[d + i] = a + c
    BY <2>1, <2>2
  <2> HIDE DEF a, b, c
  <2>c. (a - b) + c = (a + c) - b
    BY <2>a
  <2>5. g[i] = f[d + i] - f[d]
    BY <2>b, <2>c DEF b
  <2> QED BY <2>3, <2>5
<1>7. 0..n \subseteq U
  <2> HIDE DEF U, n
  <2> QED BY <1>1, <1>5, <1>6, Positions
<1> QED
  BY <1>7 DEF f, g

(***************************************************************************)
(* Totals are numbers, none above the last.                                *)
(***************************************************************************)
LEMMA TotalsFacts ==
    ASSUME NEW s \in Seq(Nat)
    PROVE  /\ Total(s) \in Nat
           /\ \A k \in 0..Len(s) : Totals(s)[k] \in Nat /\ Totals(s)[k] <= Total(s)
<1>1. Totals(s) \in [0..Len(s) -> Nat]
  BY TotalsStep
<1>2. Len(s) \in Nat
  OBVIOUS
<1>3. Total(s) \in Nat
  BY <1>1, <1>2 DEF Total
<1>4. \A k \in 0..Len(s) : Totals(s)[k] \in Nat
  BY <1>1
<1>5. \A k \in 0..Len(s) : Totals(s)[k] <= Total(s)
  BY TotalsGrow
<1> QED
  BY <1>3, <1>4, <1>5

-----------------------------------------------------------------------------
(* Filters.                                                                *)

\* x is what the first i members of s leave without those of gone: p says
\* where in s each of its members was.
Left(x, s, i, gone, p) ==
    /\ p \in [1..Len(x) -> 1..i] /\ Len(x) <= i
    /\ \A a \in 1..Len(x) : x[a] = s[p[a]] /\ x[a] \notin gone
    /\ \A a, b \in 1..Len(x) : a < b => p[a] < p[b]
    /\ \A j \in 1..i : s[j] \notin gone => \E a \in 1..Len(x) : p[a] = j

\* What the loop of a filter builds, one position after the other.
Filters(f, s, gone) ==
    /\ f[0] = <<>>
    /\ \A i \in 1..Len(s) :
          f[i] = IF s[i] \in gone THEN f[i - 1] ELSE Append(f[i - 1], s[i])
    /\ Removed(s, gone) = f[Len(s)]

(***************************************************************************)
(* The loop of a filter.                                                   *)
(***************************************************************************)
LEMMA RemovedStep ==
    ASSUME NEW S, NEW s \in Seq(S), NEW gone
    PROVE  \E f \in [0..Len(s) -> Seq(S)] : Filters(f, s, gone)
<1> DEFINE n == Len(s)
           Is(f) == f = [i \in 0..n |-> IF i = 0 THEN <<>>
                                        ELSE IF s[i] \in gone THEN f[i - 1]
                                        ELSE Append(f[i - 1], s[i])]
           g == CHOOSE f : Is(f)
<1>1. n \in Nat /\ \A i \in 1..n : s[i] \in S
  OBVIOUS
<1>2. Removed(s, gone) = g[n]
  BY DEF Removed
<1>3. \E f \in [0..n -> Seq(S)] : Is(f)
  <2> DEFINE step == [i \in 1..n |->
                         [x \in Seq(S) |-> IF s[i] \in gone THEN x ELSE Append(x, s[i])]]
  <2>1. step \in [1..n -> [Seq(S) -> Seq(S)]]
    BY <1>1
  <2> HIDE DEF n
  <2>2. PICK f \in [0..n -> Seq(S)] : Follows(f, n, <<>>, step)
    <3> HIDE DEF step
    <3>1. <<>> \in Seq(S)
      OBVIOUS
    <3> QED BY <1>1, <2>1, <3>1, RecursionExists
  <2>3. ASSUME NEW i \in 0..n
        PROVE  f[i] = IF i = 0 THEN <<>>
                      ELSE IF s[i] \in gone THEN f[i - 1] ELSE Append(f[i - 1], s[i])
    <3>1. f[i] = IF i = 0 THEN <<>> ELSE step[i][f[i - 1]]
      BY <2>2 DEF Follows
    <3>2. i # 0 => i \in 1..n /\ f[i - 1] \in Seq(S)
      BY <1>1
    <3> QED BY <3>1, <3>2
  <2>4. f = [i \in 0..n |-> IF i = 0 THEN <<>>
                            ELSE IF s[i] \in gone THEN f[i - 1] ELSE Append(f[i - 1], s[i])]
    BY <2>3
  <2> QED BY <2>4
<1>4. Is(g)
  <2> HIDE DEF Is
  <2> QED BY <1>3
<1>5. \A i \in 0..n : g[i] = IF i = 0 THEN <<>>
                             ELSE IF s[i] \in gone THEN g[i - 1] ELSE Append(g[i - 1], s[i])
  <2> HIDE DEF g, n
  <2> QED BY <1>4
<1>6. g[0] = <<>> /\ \A i \in 1..n : g[i] = IF s[i] \in gone THEN g[i - 1] ELSE Append(g[i - 1], s[i])
  <2> HIDE DEF g, n
  <2> QED BY <1>1, <1>5
<1>7. g \in [0..n -> Seq(S)]
  <2> DEFINE U == {i \in 0..n : g[i] \in Seq(S)}
  <2> HIDE DEF g, n
  <2>1. 0 \in U
    <3>1. 0 \in 0..n /\ <<>> \in Seq(S)
      BY <1>1
    <3> QED BY <1>6, <3>1
  <2>2. ASSUME NEW i \in 1..n, i - 1 \in U PROVE i \in U
    <3>1. g[i - 1] \in Seq(S) /\ s[i] \in S /\ i \in 0..n
      BY <1>1, <2>2
    <3>2. Append(g[i - 1], s[i]) \in Seq(S)
      BY <3>1
    <3>3. g[i] = g[i - 1] \/ g[i] = Append(g[i - 1], s[i])
      BY <1>6
    <3> QED BY <3>1, <3>2, <3>3
  <2>3. 0..n \subseteq U
    <3> HIDE DEF U
    <3> QED BY <1>1, <2>1, <2>2, Positions
  <2>4. g = [i \in 0..n |-> g[i]]
    BY <1>4
  <2> QED BY <2>3, <2>4
<1> HIDE DEF g, n
<1> QED
  BY <1>2, <1>6, <1>7 DEF n, Filters

(***************************************************************************)
(* A filter keeps what is not thrown out, in its order.                    *)
(***************************************************************************)
LEMMA RemovedLeaves ==
    ASSUME NEW S, NEW s \in Seq(S), NEW gone
    PROVE  /\ Removed(s, gone) \in Seq(S)
           /\ \E p : Left(Removed(s, gone), s, Len(s), gone, p)
<1> DEFINE n == Len(s)
<1>1. n \in Nat /\ \A i \in 1..n : s[i] \in S
  OBVIOUS
<1>2. PICK f \in [0..n -> Seq(S)] :
          /\ f[0] = <<>>
          /\ \A i \in 1..n : f[i] = IF s[i] \in gone THEN f[i - 1] ELSE Append(f[i - 1], s[i])
          /\ Removed(s, gone) = f[n]
  <2>1. PICK f \in [0..Len(s) -> Seq(S)] : Filters(f, s, gone)
    BY RemovedStep
  <2> QED BY <2>1 DEF Filters
<1> HIDE DEF n
<1> DEFINE U == {i \in 0..n : \E p : Left(f[i], s, i, gone, p)}
<1>3. 0 \in U
  <2>1. Left(<<>>, s, 0, gone, <<>>)
    BY DEF Left
  <2>2. 0 \in 0..n
    BY <1>1
  <2> QED BY <1>2, <2>1, <2>2
<1>4. ASSUME NEW i \in 1..n, i - 1 \in U PROVE i \in U
  <2>1. PICK p : Left(f[i - 1], s, i - 1, gone, p)
    BY <1>4
  <2> DEFINE x == f[i - 1]
             m == Len(x)
  <2>2. x \in Seq(S) /\ m \in Nat /\ i - 1 \in Nat /\ i \in 0..n /\ s[i] \in S
    BY <1>1
  <2>3. CASE s[i] \in gone
    <3>1. f[i] = x
      BY <1>2, <2>3
    <3> HIDE DEF x
    <3>2. Left(x, s, i, gone, p)
      BY <2>1, <2>2, <2>3 DEF Left, x
    <3> QED BY <2>2, <3>1, <3>2
  <2>4. CASE s[i] \notin gone
    <3> DEFINE y == Append(x, s[i])
               q == [a \in 1..(m + 1) |-> IF a = m + 1 THEN i ELSE p[a]]
    <3>1. f[i] = y
      BY <1>2, <2>4
    <3>2. /\ Len(y) = m + 1 /\ y[m + 1] = s[i]
          /\ \A a \in 1..m : y[a] = x[a]
      BY <2>2
    <3>3. /\ p \in [1..m -> 1..(i - 1)] /\ m <= i - 1
          /\ \A a \in 1..m : x[a] = s[p[a]] /\ x[a] \notin gone
          /\ \A a, b \in 1..m : a < b => p[a] < p[b]
          /\ \A j \in 1..(i - 1) : s[j] \notin gone => \E a \in 1..m : p[a] = j
      BY <2>1 DEF Left
    <3> HIDE DEF x, m, y
    <3>4. q \in [1..(m + 1) -> 1..i] /\ m + 1 <= i
      BY <2>2, <3>3
    <3>5. \A a \in 1..(m + 1) : y[a] = s[q[a]] /\ y[a] \notin gone
      <4> SUFFICES ASSUME NEW a \in 1..(m + 1) PROVE y[a] = s[q[a]] /\ y[a] \notin gone
        OBVIOUS
      <4>1. CASE a = m + 1
        BY <2>4, <3>2, <4>1
      <4>2. CASE a # m + 1
        <5>1. a \in 1..m /\ q[a] = p[a]
          BY <2>2, <4>2
        <5> QED BY <3>2, <3>3, <5>1
      <4> QED BY <4>1, <4>2
    <3>6. \A a, b \in 1..(m + 1) : a < b => q[a] < q[b]
      <4> SUFFICES ASSUME NEW a \in 1..(m + 1), NEW b \in 1..(m + 1), a < b
                   PROVE  q[a] < q[b]
        OBVIOUS
      <4>1. a \in 1..m /\ q[a] = p[a] /\ p[a] \in 1..(i - 1)
        BY <2>2, <3>3
      <4>2. CASE b = m + 1
        BY <4>1, <4>2
      <4>3. CASE b # m + 1
        <5>1. b \in 1..m /\ q[b] = p[b]
          BY <2>2, <4>3
        <5> QED BY <3>3, <4>1, <5>1
      <4> QED BY <4>2, <4>3
    <3>7. \A j \in 1..i : s[j] \notin gone => \E a \in 1..(m + 1) : q[a] = j
      <4> SUFFICES ASSUME NEW j \in 1..i, s[j] \notin gone
                   PROVE  \E a \in 1..(m + 1) : q[a] = j
        OBVIOUS
      <4>1. CASE j = i
        <5>1. m + 1 \in 1..(m + 1) /\ q[m + 1] = i
          BY <2>2
        <5> QED BY <4>1, <5>1
      <4>2. CASE j # i
        <5>1. j \in 1..(i - 1)
          BY <2>2, <4>2
        <5>2. PICK a \in 1..m : p[a] = j
          BY <3>3, <5>1
        <5>3. a \in 1..(m + 1) /\ q[a] = p[a]
          BY <2>2
        <5> QED BY <5>2, <5>3
      <4> QED BY <4>1, <4>2
    <3> HIDE DEF q
    <3>8. Left(y, s, i, gone, q)
      BY <3>2, <3>4, <3>5, <3>6, <3>7 DEF Left
    <3> QED BY <2>2, <3>1, <3>8
  <2> QED BY <2>3, <2>4
<1>5. n \in U
  <2>1. n \in 0..n
    BY <1>1
  <2> HIDE DEF U
  <2>2. 0..n \subseteq U
    BY <1>1, <1>3, <1>4, Positions
  <2> QED BY <2>1, <2>2
<1>6. f[n] \in Seq(S)
  BY <1>1
<1> QED
  BY <1>2, <1>5, <1>6 DEF n

(***************************************************************************)
(* So its members are those of the sequence that are not thrown out, and   *)
(* it has no member twice if the sequence has none twice.                  *)
(***************************************************************************)
LEMMA RemovedFacts ==
    ASSUME NEW S, NEW s \in Seq(S), NEW gone
    PROVE  /\ Removed(s, gone) \in Seq(S)
           /\ Len(Removed(s, gone)) <= Len(s)
           /\ ToSet(Removed(s, gone)) = ToSet(s) \ gone
           /\ IsInjective(s) => IsInjective(Removed(s, gone))
<1> DEFINE r == Removed(s, gone)
<1>1. r \in Seq(S)
  BY RemovedLeaves
<1>2. PICK p : Left(r, s, Len(s), gone, p)
  BY RemovedLeaves
<1> HIDE DEF r
<1>3. /\ DOMAIN r = 1..Len(r) /\ DOMAIN s = 1..Len(s) /\ Len(r) \in Nat /\ Len(s) \in Nat
  BY <1>1
<1>4. ToSet(r) = ToSet(s) \ gone
  <2>1. ASSUME NEW a \in 1..Len(r) PROVE r[a] \in ToSet(s) \ gone
    BY <1>2, <1>3 DEF Left, ToSet
  <2>2. ASSUME NEW j \in 1..Len(s), s[j] \notin gone PROVE s[j] \in ToSet(r)
    <3>1. PICK a \in 1..Len(r) : p[a] = j
      BY <1>2, <2>2 DEF Left
    <3>2. r[a] = s[j]
      BY <1>2, <3>1 DEF Left
    <3> QED BY <1>3, <3>2 DEF ToSet
  <2> QED BY <1>3, <2>1, <2>2 DEF ToSet
<1>5. ASSUME IsInjective(s) PROVE IsInjective(r)
  <2> SUFFICES ASSUME NEW a \in 1..Len(r), NEW b \in 1..Len(r), r[a] = r[b], a < b
               PROVE  FALSE
    <3>1. \A a, b \in 1..Len(r) : r[a] = r[b] => ~(a < b) /\ ~(b < a)
      OBVIOUS
    <3> QED BY <1>3, <3>1 DEF IsInjective
  <2>1. p[a] \in 1..Len(s) /\ p[b] \in 1..Len(s) /\ p[a] < p[b] /\ s[p[a]] = s[p[b]]
    BY <1>2 DEF Left
  <2>2. p[a] = p[b]
    BY <1>3, <1>5, <2>1 DEF IsInjective
  <2> QED BY <2>1, <2>2
<1> QED
  BY <1>1, <1>2, <1>4, <1>5 DEF Left, r

(***************************************************************************)
(* What a sequence is without its first members.                           *)
(***************************************************************************)
LEMMA SuffixFacts ==
    ASSUME NEW S, NEW s \in Seq(S), NEW d \in 0..Len(s)
    PROVE  LET t == SubSeq(s, d + 1, Len(s))
           IN  /\ t \in Seq(S) /\ Len(t) = Len(s) - d
               /\ \A i \in 1..Len(t) : d + i \in 1..Len(s) /\ t[i] = s[d + i]
<1> DEFINE n == Len(s)
           t == SubSeq(s, d + 1, n)
<1>1. n \in Nat /\ \A i \in 1..n : s[i] \in S
  OBVIOUS
<1>2. t = [i \in 1..(n - d) |-> s[(d + 1) + i - 1]] /\ Len(t) = n - d
  <2>1. t = [i \in 1..(n - (d + 1) + 1) |-> s[(d + 1) + i - 1]] /\ Len(t) = n - (d + 1) + 1
    OBVIOUS
  <2>2. n - (d + 1) + 1 = n - d
    BY <1>1
  <2> QED BY <2>1, <2>2
<1> HIDE DEF t, n
<1>3. \A i \in 1..(n - d) : d + i \in 1..n /\ t[i] = s[d + i]
  <2> SUFFICES ASSUME NEW i \in 1..(n - d) PROVE d + i \in 1..n /\ t[i] = s[d + i]
    OBVIOUS
  <2>1. (d + 1) + i - 1 = d + i /\ d + i \in 1..n
    BY <1>1 DEF n
  <2> QED BY <1>2, <2>1
<1>4. t \in Seq(S)
  <2>1. n - d \in Nat
    BY <1>1 DEF n
  <2>2. \A i \in 1..(n - d) : t[i] \in S
    BY <1>1, <1>3
  <2>3. t \in [1..(n - d) -> S]
    BY <1>2, <2>2
  <2> QED BY <2>1, <2>3
<1> QED
  BY <1>2, <1>3, <1>4 DEF t, n

-----------------------------------------------------------------------------
(* The limiter.                                                            *)

\* The weights of a window.
Weighed(window) == [i \in DOMAIN window |-> window[i].weight]

\* A window from its oldest hit to its newest.
Aged(window) ==
    /\ \A i \in 1..Len(window) : window[i].at <= now
    /\ \A i, k \in 1..Len(window) : i < k => window[i].at <= window[k].at

\* Points granted since a tick are points of the hits that came since: dues
\* are at most what a window holds after its hits from before that tick.
Owes(dues, window) ==
    \A t \in Clock, k \in 0..Len(window) :
        (\A i \in 1..k : window[i].at < t)
            => dues[t] <= Total(Weighed(window)) - Totals(Weighed(window))[k]

\* Nothing is counted for the ticks that are out of the last window.
Forgotten(dues) == \A t \in Clock : ~Recent(t) => dues[t] = 0

(***************************************************************************)
(* What the code relies on between two uses of the limiter.                *)
(***************************************************************************)
LimiterInv ==
    /\ LimiterTypeOK
    /\ \A c \in Clients : Aged(hits[c]) /\ Owes(granted[c], hits[c]) /\ Forgotten(granted[c])
    /\ lastPurge <= now
    /\ \A c \in Clients : used[c] <= now /\ used[c] < lastPurge + PurgeInterval
    /\ \A c \in Clients : hits[c] # <<>> => lastPurge <= Last(hits[c]).at + Window
    /\ BudgetHolds

-----------------------------------------------------------------------------
(* Windows.                                                                *)

\* The first d hits of a window are the expired ones at its head.
Stale(window, d) ==
    /\ \A i \in 1..d : Expired(window[i])
    /\ d < Len(window) => ~Expired(window[d + 1])

LEMMA FreshFacts ==
    ASSUME NEW window \in Seq(Hit)
    PROVE  \E d \in 0..Len(window) :
              Stale(window, d) /\ Fresh(window) = SubSeq(window, d + 1, Len(window))
<1> DEFINE n == Len(window)
           U == {k \in 0..n : k < n => ~Expired(window[k + 1])}
           e == CHOOSE d \in 0..n : Stale(window, d)
<1>1. n \in Nat /\ n \in U
  OBVIOUS
<1>2. \E d \in 0..n : Stale(window, d)
  <2>1. PICK m \in U : \A k \in U : m <= k
    <3>1. U \subseteq Nat /\ U # {}
      BY <1>1
    <3> HIDE DEF U
    <3> QED BY <3>1, LeastNumber
  <2>2. ASSUME NEW i \in 1..m PROVE Expired(window[i])
    <3>1. i - 1 \in 0..n /\ ~(m <= i - 1) /\ i - 1 < n /\ (i - 1) + 1 = i
      BY <1>1
    <3>2. i - 1 \notin U
      BY <2>1, <3>1
    <3> QED BY <3>1, <3>2
  <2>3. m \in 0..n /\ (m < n => ~Expired(window[m + 1]))
    OBVIOUS
  <2>4. Stale(window, m)
    BY <2>2, <2>3 DEF Stale
  <2> QED BY <2>3, <2>4
<1>3. e \in 0..n /\ Stale(window, e)
  BY <1>2
<1>4. Fresh(window) = SubSeq(window, e + 1, n)
  BY DEF Fresh, Stale
<1> HIDE DEF e
<1> QED
  BY <1>3, <1>4

LEMMA HitFacts ==
    ASSUME NEW window \in Seq(Hit)
    PROVE  \A i \in 1..Len(window) :
              /\ window[i] \in Hit
              /\ window[i].at \in Nat /\ window[i].weight \in Nat
<1> SUFFICES ASSUME NEW i \in 1..Len(window)
             PROVE  /\ window[i] \in Hit
                    /\ window[i].at \in Nat /\ window[i].weight \in Nat
  OBVIOUS
<1>1. window[i] \in Hit
  OBVIOUS
<1>2. window[i].at \in Clock /\ window[i].weight \in Nat
  BY <1>1 DEF Hit
<1> QED
  BY <1>1, <1>2 DEF Clock

LEMMA WeighedFacts ==
    ASSUME NEW window \in Seq(Hit)
    PROVE  /\ Weighed(window) \in Seq(Nat)
           /\ Len(Weighed(window)) = Len(window)
           /\ \A i \in 1..Len(window) : Weighed(window)[i] = window[i].weight
           /\ Spent(window) = Total(Weighed(window))
           /\ Total(Weighed(window)) \in Nat
<1>1. \A i \in 1..Len(window) : window[i].weight \in Nat
  BY HitFacts
<1>2. Weighed(window) = [i \in 1..Len(window) |-> window[i].weight] /\ Len(window) \in Nat
  BY DEF Weighed
<1>3. Weighed(window) \in Seq(Nat) /\ Len(Weighed(window)) = Len(window)
  BY <1>1, <1>2
<1>4. Total(Weighed(window)) \in Nat
  BY <1>3, TotalsFacts
<1> QED
  BY <1>2, <1>3, <1>4 DEF Spent, Weighed

(***************************************************************************)
(* Where nothing is counted nothing is owed.                               *)
(***************************************************************************)
LEMMA NothingOwed ==
    ASSUME NEW window \in Seq(Hit), NEW dues, \A t \in Clock : dues[t] = 0
    PROVE  Owes(dues, window)
<1> SUFFICES ASSUME NEW t \in Clock, NEW k \in 0..Len(window)
             PROVE  0 <= Total(Weighed(window)) - Totals(Weighed(window))[k]
  BY DEF Owes
<1> DEFINE w == Weighed(window)
<1>1. w \in Seq(Nat) /\ Len(w) = Len(window) /\ Total(w) \in Nat
  BY WeighedFacts
<1> HIDE DEF w
<1>2. Totals(w)[k] <= Total(w) /\ Totals(w)[k] \in Nat
  BY <1>1, TotalsFacts
<1> QED
  BY <1>1, <1>2 DEF w

(***************************************************************************)
(* A window whose newest hit expired, if it has any, owes nothing.         *)
(***************************************************************************)
LEMMA StaleOwesNothing ==
    ASSUME now \in Clock,
           NEW window \in Seq(Hit), NEW dues \in [Clock -> Nat],
           Aged(window), Owes(dues, window), Forgotten(dues),
           window = <<>> \/ Expired(Last(window))
    PROVE  \A t \in Clock : dues[t] = 0
<1> SUFFICES ASSUME NEW t \in Clock, Recent(t) PROVE dues[t] = 0
  BY DEF Forgotten
<1> DEFINE n == Len(window)
           w == Weighed(window)
<1>0. now \in Nat /\ t \in Nat /\ Window \in Nat
  BY RateLimiterAssumption DEF Clock
<1>1. n \in Nat /\ \A i \in 1..n : window[i].at \in Nat
  BY HitFacts
<1>2. \A i \in 1..n : window[i].at < t
  <2> SUFFICES ASSUME NEW i \in 1..n PROVE window[i].at < t
    OBVIOUS
  <2>1. window # <<>> /\ n \in 1..n
    BY <1>1
  <2>2. now - window[n].at > Window
    BY <2>1 DEF Last, Expired
  <2>3. window[i].at <= window[n].at
    <3>1. CASE i = n
      BY <1>1, <3>1
    <3>2. CASE i # n
      BY <1>1, <2>1, <3>2 DEF Aged
    <3> QED BY <3>1, <3>2
  <2>4. now <= t + Window
    BY DEF Recent
  <2> DEFINE a == window[i].at
             b == window[n].at
  <2>5. a \in Nat /\ b \in Nat /\ now - b > Window /\ a <= b
    BY <1>1, <2>1, <2>2, <2>3
  <2> HIDE DEF a, b
  <2>6. a < t
    BY <1>0, <2>4, <2>5
  <2> QED BY <2>6 DEF a
<1>3. dues[t] <= Total(w) - Totals(w)[n]
  <2>1. n \in 0..Len(window)
    BY <1>1
  <2> QED BY <1>2, <2>1 DEF Owes
<1>4. Totals(w)[n] = Total(w) /\ Total(w) \in Nat
  BY WeighedFacts DEF Total
<1>5. dues[t] \in Nat
  OBVIOUS
<1> HIDE DEF w, n
<1> QED
  BY <1>3, <1>4, <1>5

(***************************************************************************)
(* Dropping the expired head of a window drops nothing that is owed.       *)
(***************************************************************************)
LEMMA FreshOwes ==
    ASSUME now \in Clock,
           NEW window \in Seq(Hit), NEW dues \in [Clock -> Nat],
           Aged(window), Owes(dues, window), Forgotten(dues)
    PROVE  /\ Fresh(window) \in Seq(Hit) /\ Len(Fresh(window)) <= Len(window)
           /\ Aged(Fresh(window)) /\ Owes(dues, Fresh(window))
           /\ Fresh(window) # <<>> => window # <<>> /\ Last(Fresh(window)) = Last(window)
<1> DEFINE n == Len(window)
           v == Fresh(window)
           m == Len(v)
<1>1. PICK d \in 0..n : Stale(window, d) /\ v = SubSeq(window, d + 1, n)
  BY FreshFacts
<1>2. /\ v \in Seq(Hit) /\ m = n - d
      /\ \A i \in 1..m : d + i \in 1..n /\ v[i] = window[d + i]
  BY <1>1, SuffixFacts
<1>3. n \in Nat /\ d \in Nat /\ m \in Nat
  BY <1>2
<1> HIDE DEF v, m
<1>4. Aged(v)
  <2>1. \A i \in 1..m : v[i].at <= now
    BY <1>2 DEF Aged
  <2>2. ASSUME NEW i \in 1..m, NEW k \in 1..m, i < k PROVE v[i].at <= v[k].at
    <3>1. d + i < d + k /\ d + i \in 1..n /\ d + k \in 1..n
      BY <1>2, <1>3, <2>2
    <3>2. window[d + i].at <= window[d + k].at
      BY <3>1 DEF Aged
    <3> QED BY <1>2, <3>2
  <2> QED BY <2>1, <2>2 DEF Aged, m
<1>5. Owes(dues, v)
  <2> SUFFICES ASSUME NEW t \in Clock, NEW k \in 0..m, \A i \in 1..k : v[i].at < t
               PROVE  dues[t] <= Total(Weighed(v)) - Totals(Weighed(v))[k]
    BY DEF Owes, m
  <2> DEFINE w == Weighed(window)
             u == Weighed(v)
  <2>1. w \in Seq(Nat) /\ Len(w) = n /\ \A i \in 1..n : w[i] = window[i].weight
    BY WeighedFacts
  <2>2. u \in Seq(Nat) /\ Len(u) = m /\ \A i \in 1..m : u[i] = v[i].weight
    BY <1>2, WeighedFacts DEF m
  <2>3. Total(u) \in Nat /\ Totals(u)[k] \in Nat /\ Totals(u)[k] <= Total(u)
    BY <2>2, TotalsFacts
  <2> HIDE DEF w, u
  <2>4. CASE ~Recent(t)
    <3>1. dues[t] = 0
      BY <2>4 DEF Forgotten
    <3> QED BY <2>3, <3>1 DEF u
  <2>5. CASE Recent(t)
    <3>1. \A i \in 1..(d + k) : window[i].at < t
      <4> SUFFICES ASSUME NEW i \in 1..(d + k) PROVE window[i].at < t
        OBVIOUS
      <4>1. CASE i \in 1..d
        <5>1. Expired(window[i]) /\ window[i] \in Hit
          BY <1>1, <1>3, <4>1 DEF Stale
        <5> DEFINE a == window[i].at
        <5>2. a \in Nat /\ now - a > Window /\ now <= t + Window
          BY <2>5, <5>1 DEF Expired, Recent, Hit, Clock
        <5> HIDE DEF a
        <5>3. a < t
          BY <5>2, RateLimiterAssumption DEF Clock
        <5> QED BY <5>3 DEF a
      <4>2. CASE i \notin 1..d
        <5>1. i - d \in 1..k /\ i - d \in 1..m /\ d + (i - d) = i
          BY <1>3, <4>2
        <5> QED BY <1>2, <5>1
      <4> QED BY <4>1, <4>2
    <3>2. d + k \in 0..n
      BY <1>2, <1>3
    <3>3. dues[t] <= Total(w) - Totals(w)[d + k]
      BY <3>1, <3>2 DEF Owes, w
    <3>4. \A i \in 1..m : u[i] = w[d + i]
      BY <1>2, <2>1, <2>2
    <3>5. \A j \in 0..m : Totals(u)[j] = Totals(w)[d + j] - Totals(w)[d]
      <4>1. d \in 0..Len(w) /\ Len(u) = Len(w) - d /\ \A i \in 1..Len(u) : u[i] = w[d + i]
        BY <1>2, <2>1, <2>2, <3>4
      <4> QED BY <2>1, <2>2, <4>1, TotalsShift
    <3>6. Total(u) = Total(w) - Totals(w)[d]
      <4>1. m \in 0..m /\ d + m = n
        BY <1>2, <1>3
      <4> QED BY <2>1, <2>2, <3>5, <4>1 DEF Total
    <3>7. Totals(u)[k] = Totals(w)[d + k] - Totals(w)[d]
      BY <3>5
    <3>8. Totals(w)[d] \in Nat /\ Totals(w)[d + k] \in Nat /\ Total(w) \in Nat
      BY <2>1, <3>2, TotalsFacts
    <3>9. Total(u) - Totals(u)[k] = Total(w) - Totals(w)[d + k]
      <4> DEFINE x == Totals(w)[d]
                 y == Totals(w)[d + k]
                 z == Total(w)
      <4>1. x \in Nat /\ y \in Nat /\ z \in Nat
        BY <3>8
      <4>2. Total(u) = z - x /\ Totals(u)[k] = y - x
        BY <3>6, <3>7
      <4> HIDE DEF x, y, z
      <4>3. (z - x) - (y - x) = z - y
        BY <4>1
      <4> QED BY <4>2, <4>3 DEF y, z
    <3> QED BY <3>3, <3>9 DEF u
  <2> QED BY <2>4, <2>5
<1>6. ASSUME v # <<>> PROVE window # <<>> /\ Last(v) = Last(window)
  <2>1. m > 0 /\ m \in 1..m /\ d + m = n
    BY <1>2, <1>3, <1>6 DEF m
  <2>2. v[m] = window[n]
    BY <1>2, <2>1
  <2>3. window # <<>>
    <3>1. n > 0
      BY <1>3, <2>1
    <3> QED BY <3>1
  <2> QED BY <2>2, <2>3 DEF Last, m
<1> QED
  BY <1>2, <1>3, <1>4, <1>5, <1>6 DEF v, m

\* A hit taken now, and dues with its points since every tick of the last
\* window.
HitNow(weight) == [at |-> now, weight |-> weight]
Credited(dues, weight) == [t \in Clock |-> IF Recent(t) THEN dues[t] + weight ELSE dues[t]]

(***************************************************************************)
(* A hit taken now is owed since every tick of the last window.            *)
(***************************************************************************)
LEMMA HitOwes ==
    ASSUME now \in Clock,
           NEW window \in Seq(Hit), NEW dues \in [Clock -> Nat], NEW weight \in Nat \ {0},
           Aged(window), Owes(dues, window), Forgotten(dues)
    PROVE  /\ Append(window, HitNow(weight)) \in Seq(Hit)
           /\ Aged(Append(window, HitNow(weight)))
           /\ Owes(Credited(dues, weight), Append(window, HitNow(weight)))
           /\ Forgotten(Credited(dues, weight)) /\ Credited(dues, weight) \in [Clock -> Nat]
<1> DEFINE hit  == HitNow(weight)
           more == Credited(dues, weight)
           v == Append(window, hit)
           n == Len(window)
<1>1. hit \in Hit /\ hit.at = now /\ hit.weight = weight
  BY DEF Hit, HitNow
<1>2. more \in [Clock -> Nat] /\ Forgotten(more)
  BY DEF Forgotten, Credited
<1>0. n \in Nat
  OBVIOUS
<1>3. \A i \in 1..n : window[i] \in Hit /\ window[i].at \in Nat
  BY HitFacts
<1> HIDE DEF hit
<1>4. v \in Seq(Hit) /\ Len(v) = n + 1 /\ v[n + 1] = hit /\ \A i \in 1..n : v[i] = window[i]
  BY <1>1
<1> HIDE DEF more, v, n
<1>5. now \in Nat
  BY RateLimiterAssumption DEF Clock
<1>6. Aged(v)
  <2>1. ASSUME NEW i \in 1..(n + 1) PROVE v[i].at <= now
    <3>1. i \in 1..n \/ i = n + 1
      BY <1>0
    <3>2. CASE i = n + 1
      BY <1>1, <1>4, <1>5, <3>2
    <3>3. CASE i \in 1..n
      BY <1>4, <3>3 DEF Aged, n
    <3> QED BY <3>1, <3>2, <3>3
  <2>2. ASSUME NEW i \in 1..(n + 1), NEW k \in 1..(n + 1), i < k PROVE v[i].at <= v[k].at
    <3>1. i \in 1..n /\ (k \in 1..n \/ k = n + 1)
      BY <1>0, <2>2
    <3>2. CASE k = n + 1
      BY <1>1, <1>4, <2>1, <3>2
    <3>3. CASE k \in 1..n
      BY <1>4, <2>2, <3>1, <3>3 DEF Aged, n
    <3> QED BY <3>1, <3>2, <3>3
  <2> QED BY <1>4, <2>1, <2>2 DEF Aged
<1>7. Owes(more, v)
  <2> SUFFICES ASSUME NEW t \in Clock, NEW k \in 0..(n + 1), \A i \in 1..k : v[i].at < t
               PROVE  more[t] <= Total(Weighed(v)) - Totals(Weighed(v))[k]
    BY <1>4 DEF Owes
  <2> DEFINE w == Weighed(window)
             u == Weighed(v)
  <2>1. w \in Seq(Nat) /\ Len(w) = n /\ \A i \in 1..n : w[i] = window[i].weight
    BY WeighedFacts DEF n
  <2>2. u = Append(w, weight)
    <3>1. u \in Seq(Nat) /\ Len(u) = n + 1 /\ \A i \in 1..(n + 1) : u[i] = v[i].weight
      BY <1>4, WeighedFacts
    <3>2. u[n + 1] = weight
      <4>1. n + 1 \in 1..(n + 1)
        BY <1>0
      <4> QED BY <1>1, <1>4, <3>1, <4>1
    <3>3. \A i \in 1..n : u[i] = w[i]
      <4>1. \A i \in 1..n : i \in 1..(n + 1)
        BY <1>0
      <4> QED BY <1>4, <2>1, <3>1, <4>1
    <3> HIDE DEF u, w
    <3> QED BY <1>0, <2>1, <3>1, <3>2, <3>3
  <2> HIDE DEF w, u
  <2>3. Total(u) = Total(w) + weight /\ \A j \in 0..n : Totals(u)[j] = Totals(w)[j]
    BY <2>1, <2>2, TotalsAppend
  <2>4. Totals(w) \in [0..n -> Nat] /\ Total(w) \in Nat
    BY <2>1, TotalsStep, TotalsFacts
  <2>5. more[t] \in Nat /\ dues[t] \in Nat
    BY <1>2
  <2>6. CASE k \in 0..n
    <3>1. \A i \in 1..k : window[i].at < t
      <4>1. \A i \in 1..k : i \in 1..n
        BY <1>0, <2>6
      <4> QED BY <1>4, <4>1
    <3>2. dues[t] <= Total(w) - Totals(w)[k]
      BY <2>6, <3>1 DEF Owes, w, n
    <3>3. more[t] <= dues[t] + weight
      BY <2>5 DEF more, Credited
    <3>4. Totals(w)[k] \in Nat /\ Totals(u)[k] = Totals(w)[k]
      BY <2>3, <2>4, <2>6
    <3> DEFINE y == Totals(w)[k]
    <3>5. more[t] <= (Total(w) + weight) - y
      <4>1. y \in Nat /\ dues[t] <= Total(w) - y
        BY <3>2, <3>4
      <4> HIDE DEF y
      <4> QED BY <2>4, <2>5, <3>3, <4>1
    <3> QED BY <2>3, <3>4, <3>5 DEF u
  <2>7. CASE k = n + 1
    <3>1. now < t
      BY <1>0, <1>1, <1>4, <2>7
    <3>2. ~Recent(t)
      BY <1>5, <3>1, RateLimiterAssumption DEF Recent, Clock
    <3>3. more[t] = 0
      BY <1>2, <3>2 DEF Forgotten
    <3>4. Totals(u)[k] = Total(u) /\ Total(u) \in Nat
      BY <2>1, <2>2, <2>3, <2>4, <2>7 DEF Total
    <3> QED BY <3>3, <3>4 DEF u
  <2>8. k \in 0..n \/ k = n + 1
    BY <1>0
  <2> QED BY <2>6, <2>7, <2>8
<1> QED
  BY <1>2, <1>4, <1>6, <1>7 DEF hit, more, v

-----------------------------------------------------------------------------
(* The table.                                                              *)

\* The clients of s are in the order of their last use.
ByUse(s) == \A i, k \in DOMAIN s : i < k => used[s[i]] <= used[s[k]]

LEMMA RemovedByUse ==
    ASSUME NEW s \in Seq(Clients), NEW gone, ByUse(s)
    PROVE  ByUse(Removed(s, gone))
<1> DEFINE r == Removed(s, gone)
<1>1. r \in Seq(Clients)
  BY RemovedLeaves
<1>2. PICK p : Left(r, s, Len(s), gone, p)
  BY RemovedLeaves
<1> HIDE DEF r
<1>3. DOMAIN r = 1..Len(r) /\ DOMAIN s = 1..Len(s)
  BY <1>1
<1> SUFFICES ASSUME NEW i \in 1..Len(r), NEW k \in 1..Len(r), i < k
             PROVE  used[r[i]] <= used[r[k]]
  BY <1>3 DEF ByUse, r
<1>4. p[i] \in 1..Len(s) /\ p[k] \in 1..Len(s) /\ p[i] < p[k] /\ r[i] = s[p[i]] /\ r[k] = s[p[k]]
  BY <1>2 DEF Left
<1> QED
  BY <1>3, <1>4 DEF ByUse

LEMMA CappedFacts ==
    ASSUME NEW keys \in Seq(Clients), IsInjective(keys), ByUse(keys)
    PROVE  /\ Capped(keys) \in Seq(Clients) /\ Len(Capped(keys)) <= MaxClients
           /\ IsInjective(Capped(keys)) /\ ByUse(Capped(keys))
           /\ ToSet(Capped(keys)) \subseteq ToSet(keys)
<1> DEFINE n == Len(keys)
           s == Capped(keys)
           d == n - MaxClients
<1>0. n \in Nat /\ MaxClients \in Nat /\ DOMAIN keys = 1..n
  BY RateLimiterAssumption
<1>1. CASE n <= MaxClients
  <2>1. s = keys
    BY <1>1 DEF Capped
  <2> QED BY <1>1, <2>1
<1>2. CASE ~(n <= MaxClients)
  <2>1. d \in 0..n /\ s = SubSeq(keys, d + 1, n)
    BY <1>0, <1>2 DEF Capped
  <2> HIDE DEF d, n, s
  <2>2. s \in Seq(Clients) /\ Len(s) = n - d /\ \A i \in 1..Len(s) : d + i \in 1..n /\ s[i] = keys[d + i]
    BY <2>1, SuffixFacts DEF n
  <2>3. DOMAIN s = 1..Len(s) /\ d \in Nat /\ Len(s) = MaxClients
    BY <1>0, <2>1, <2>2 DEF d
  <2>4. ToSet(s) \subseteq ToSet(keys)
    BY <1>0, <2>2, <2>3 DEF ToSet
  <2>5. ASSUME NEW i \in 1..Len(s), NEW k \in 1..Len(s), i < k
        PROVE  /\ s[i] # s[k] /\ used[s[i]] <= used[s[k]]
    <3>1. /\ d + i \in 1..n /\ d + k \in 1..n
          /\ s[i] = keys[d + i] /\ s[k] = keys[d + k]
      BY <2>2
    <3>2. d + i < d + k /\ d + i # d + k
      BY <2>3, <2>5
    <3>3. keys[d + i] # keys[d + k]
      BY <1>0, <3>1, <3>2 DEF IsInjective
    <3> QED BY <1>0, <3>1, <3>2, <3>3 DEF ByUse
  <2>6. \A i, k \in 1..Len(s) : i = k \/ i < k \/ k < i
    BY <2>2
  <2>7. IsInjective(s) /\ ByUse(s)
    BY <2>3, <2>5, <2>6 DEF IsInjective, ByUse
  <2>8. Len(s) <= MaxClients
    BY <1>0, <2>3
  <2> QED BY <2>2, <2>4, <2>7, <2>8 DEF s
<1> QED
  BY <1>1, <1>2

LEMMA SweptFacts ==
    ASSUME LimiterTypeOK
    PROVE  /\ Swept \in Seq(Clients) /\ IsInjective(Swept) /\ ByUse(Swept)
           /\ \A c \in Clients : c \notin ToSet(Swept) => hits[c] = <<>> \/ Expired(Last(hits[c]))
           /\ now - lastPurge >= PurgeInterval =>
                \A c \in ToSet(Swept) : ~Expired(Last(hits[c]))
<1> DEFINE gone == {c \in Clients : hits[c] = <<>> \/ Expired(Last(hits[c]))}
<1>1. order \in Seq(Clients) /\ IsInjective(order) /\ ByUse(order)
      /\ \A c \in Clients : hits[c] # <<>> => c \in ToSet(order)
  BY DEF LimiterTypeOK, ByUse
<1>2. CASE now - lastPurge >= PurgeInterval
  <2>1. Swept = Removed(order, gone)
    BY <1>2 DEF Swept
  <2> HIDE DEF gone
  <2>2. Swept \in Seq(Clients) /\ IsInjective(Swept) /\ ToSet(Swept) = ToSet(order) \ gone
    BY <1>1, <2>1, RemovedFacts
  <2>3. ByUse(Swept)
    BY <1>1, <2>1, RemovedByUse
  <2>4. ToSet(order) \subseteq Clients
    BY <1>1 DEF ToSet
  <2> QED BY <1>1, <2>2, <2>3, <2>4 DEF gone
<1>3. CASE ~(now - lastPurge >= PurgeInterval)
  BY <1>1, <1>3 DEF Swept
<1> QED
  BY <1>2, <1>3

\* What a debit keeps of the table, of a client's window, and of its dues.
Kept == Capped(Swept)
Held(c) == IF c \in ToSet(Kept) THEN hits[c] ELSE <<>>
Dues(c) == IF c \in ToSet(Swept) \ ToSet(Kept) THEN [t \in Clock |-> 0] ELSE granted[c]

(***************************************************************************)
(* A window is swept away only when it owes nothing.                       *)
(***************************************************************************)
LEMMA HeldOwes ==
    ASSUME LimiterInv, NEW c \in Clients
    PROVE  /\ Held(c) \in Seq(Hit) /\ Aged(Held(c)) /\ Owes(Dues(c), Held(c))
           /\ Dues(c) \in [Clock -> Nat] /\ Forgotten(Dues(c))
           /\ \A t \in Clock : Dues(c)[t] <= Limit[under[c]]
<1>1. /\ now \in Clock /\ hits[c] \in Seq(Hit) /\ granted[c] \in [Clock -> Nat]
      /\ Aged(hits[c]) /\ Owes(granted[c], hits[c]) /\ Forgotten(granted[c])
      /\ \A t \in Clock : granted[c][t] <= Limit[under[c]]
  BY DEF LimiterInv, LimiterTypeOK, BudgetHolds
<1>2. Limit[under[c]] \in Nat
  BY RateLimiterAssumption DEF LimiterInv, LimiterTypeOK
<1>3. Dues(c) \in [Clock -> Nat] /\ Forgotten(Dues(c)) /\ \A t \in Clock : Dues(c)[t] <= Limit[under[c]]
  BY <1>1, <1>2 DEF Dues, Forgotten
<1>4. Held(c) \in Seq(Hit)
  BY <1>1 DEF Held
<1>5. Aged(Held(c))
  <2>1. Aged(<<>>)
    BY DEF Aged
  <2> QED BY <1>1, <2>1 DEF Held
<1>6. CASE c \in ToSet(Kept)
  <2>1. Held(c) = hits[c] /\ Dues(c) = granted[c]
    BY <1>6 DEF Held, Dues
  <2> QED BY <1>1, <1>3, <1>4, <1>5, <2>1
<1>7. CASE c \notin ToSet(Kept)
  <2>1. \A t \in Clock : Dues(c)[t] = 0
    <3>1. CASE c \in ToSet(Swept)
      BY <1>7, <3>1 DEF Dues
    <3>2. CASE c \notin ToSet(Swept)
      <4>1. hits[c] = <<>> \/ Expired(Last(hits[c]))
        BY <3>2, SweptFacts DEF LimiterInv
      <4>2. \A t \in Clock : granted[c][t] = 0
        BY <1>1, <4>1, StaleOwesNothing
      <4> QED BY <3>2, <4>2 DEF Dues
    <3> QED BY <3>1, <3>2
  <2>2. Owes(Dues(c), Held(c))
    BY <1>4, <2>1, NothingOwed
  <2> QED BY <1>3, <1>4, <1>5, <2>2
<1> QED
  BY <1>6, <1>7

\* The caller's window without its expired hits.
Trimmed(c) == IF c \in ToSet(Kept) THEN Fresh(hits[c]) ELSE <<>>

LEMMA TrimmedOwes ==
    ASSUME LimiterInv, NEW c \in Clients
    PROVE  /\ Trimmed(c) \in Seq(Hit) /\ Aged(Trimmed(c)) /\ Owes(Dues(c), Trimmed(c))
           /\ Trimmed(c) # <<>> => /\ c \in ToSet(Kept) /\ hits[c] # <<>>
                                   /\ Last(Trimmed(c)) = Last(hits[c])
           /\ \A t \in Clock : Dues(c)[t] <= Spent(Trimmed(c))
<1> DEFINE w == Trimmed(c)
<1>1. /\ w \in Seq(Hit) /\ Aged(w) /\ Owes(Dues(c), w)
      /\ w # <<>> => c \in ToSet(Kept) /\ hits[c] # <<>> /\ Last(w) = Last(hits[c])
  <2>1. CASE c \in ToSet(Kept)
    <3>1. w = Fresh(hits[c]) /\ Held(c) = hits[c]
      BY <2>1 DEF Trimmed, Held
    <3>2. now \in Clock
      BY DEF LimiterInv, LimiterTypeOK
    <3>3. /\ hits[c] \in Seq(Hit) /\ Aged(hits[c]) /\ Owes(Dues(c), hits[c])
          /\ Dues(c) \in [Clock -> Nat] /\ Forgotten(Dues(c))
      BY <3>1, HeldOwes
    <3> QED BY <2>1, <3>1, <3>2, <3>3, FreshOwes
  <2>2. CASE c \notin ToSet(Kept)
    <3>1. w = <<>> /\ Held(c) = <<>>
      BY <2>2 DEF Trimmed, Held
    <3> QED BY <3>1, HeldOwes
  <2> QED BY <2>1, <2>2
<1>2. ASSUME NEW t \in Clock PROVE Dues(c)[t] <= Spent(w)
  <2> DEFINE u == Weighed(w)
  <2>1. u \in Seq(Nat) /\ Spent(w) = Total(u) /\ Total(u) \in Nat
    BY <1>1, WeighedFacts
  <2>2. Totals(u)[0] = 0
    BY <2>1, TotalsStep
  <2>3. 0 \in 0..Len(w) /\ \A i \in 1..0 : w[i].at < t
    BY <1>1
  <2>4. Dues(c)[t] <= Total(u) - Totals(u)[0]
    BY <1>1, <2>3 DEF Owes
  <2> HIDE DEF u
  <2> QED BY <2>1, <2>2, <2>4
<1> QED
  BY <1>1, <1>2

(***************************************************************************)
(* The caller goes to the warm end of the table.                           *)
(***************************************************************************)
LEMMA TouchedFacts ==
    ASSUME LimiterTypeOK, NEW c \in Clients
    PROVE  /\ Kept \in Seq(Clients) /\ ToSet(Kept) \subseteq ToSet(Swept)
           /\ Touched(Kept, c) \in Seq(Clients) /\ IsInjective(Touched(Kept, c))
           /\ Len(Touched(Kept, c)) <= MaxClients + 1
           /\ ToSet(Touched(Kept, c)) = ToSet(Kept) \cup {c}
           /\ \A i, k \in DOMAIN Touched(Kept, c) : i < k =>
                /\ Touched(Kept, c)[i] # c /\ Touched(Kept, c)[i] \in ToSet(Kept)
                /\ \/ Touched(Kept, c)[k] = c
                   \/ /\ Touched(Kept, c)[k] # c /\ Touched(Kept, c)[k] \in ToSet(Kept)
                      /\ used[Touched(Kept, c)[i]] <= used[Touched(Kept, c)[k]]
<1> DEFINE r == Removed(Kept, {c})
           s == Touched(Kept, c)
           n == Len(r)
<1>1. /\ Kept \in Seq(Clients) /\ Len(Kept) <= MaxClients /\ IsInjective(Kept) /\ ByUse(Kept)
      /\ ToSet(Kept) \subseteq ToSet(Swept)
  BY SweptFacts, CappedFacts DEF Kept
<1>2. /\ r \in Seq(Clients) /\ n <= Len(Kept) /\ ToSet(r) = ToSet(Kept) \ {c}
      /\ IsInjective(r) /\ ByUse(r)
  BY <1>1, RemovedFacts, RemovedByUse
<1>3. s = Append(r, c)
  BY DEF Touched
<1> HIDE DEF r, s
<1>4. n \in Nat /\ DOMAIN r = 1..n /\ Len(Kept) \in Nat /\ MaxClients \in Nat
  BY <1>1, <1>2, RateLimiterAssumption
<1>5. s \in Seq(Clients) /\ Len(s) = n + 1 /\ s[n + 1] = c /\ \A i \in 1..n : s[i] = r[i]
  BY <1>2, <1>3
<1> HIDE DEF n
<1>6. DOMAIN s = 1..(n + 1) /\ n + 1 <= MaxClients + 1
  BY <1>1, <1>2, <1>4, <1>5 DEF n
<1>7. \A i \in 1..n : s[i] # c /\ s[i] \in ToSet(Kept)
  BY <1>2, <1>4, <1>5 DEF ToSet
<1>8. ToSet(s) = ToSet(Kept) \cup {c}
  <2>1. ASSUME NEW i \in 1..(n + 1) PROVE s[i] \in ToSet(Kept) \cup {c}
    <3>1. i \in 1..n \/ i = n + 1
      BY <1>4
    <3> QED BY <1>5, <1>7, <3>1
  <2>2. ASSUME NEW x \in ToSet(Kept), x # c PROVE x \in ToSet(s)
    <3>1. PICK i \in 1..n : r[i] = x
      BY <1>2, <1>4, <2>2 DEF ToSet
    <3>2. i \in DOMAIN s /\ s[i] = x
      BY <1>4, <1>5, <1>6, <3>1
    <3> QED BY <3>2 DEF ToSet
  <2>3. c \in ToSet(s)
    <3>1. n + 1 \in DOMAIN s
      BY <1>4, <1>6
    <3> QED BY <1>5, <3>1 DEF ToSet
  <2>4. \A x \in ToSet(s) : \E i \in 1..(n + 1) : s[i] = x
    BY <1>6 DEF ToSet
  <2> QED BY <2>1, <2>2, <2>3, <2>4
<1>9. ASSUME NEW i \in 1..(n + 1), NEW k \in 1..(n + 1), i < k
      PROVE  /\ s[i] # c /\ s[i] \in ToSet(Kept) /\ s[i] # s[k]
             /\ \/ s[k] = c
                \/ s[k] # c /\ s[k] \in ToSet(Kept) /\ used[s[i]] <= used[s[k]]
  <2>1. i \in 1..n /\ (k \in 1..n \/ k = n + 1) /\ i # k
    BY <1>4, <1>9
  <2>2. s[i] # c /\ s[i] \in ToSet(Kept)
    BY <1>7, <2>1
  <2>3. CASE k = n + 1
    BY <1>5, <2>2, <2>3
  <2>4. CASE k \in 1..n
    <3>1. s[i] = r[i] /\ s[k] = r[k] /\ r[i] # r[k]
      BY <1>2, <1>4, <1>5, <2>1, <2>4 DEF IsInjective
    <3>2. used[r[i]] <= used[r[k]]
      BY <1>2, <1>4, <1>9, <2>1, <2>4 DEF ByUse
    <3> QED BY <1>7, <2>2, <2>4, <3>1, <3>2
  <2> QED BY <2>1, <2>3, <2>4
<1>10. IsInjective(s)
  <2>1. \A i, k \in 1..(n + 1) : i = k \/ i < k \/ k < i
    BY <1>4
  <2> QED BY <1>6, <1>9, <2>1 DEF IsInjective
<1> QED
  BY <1>1, <1>5, <1>6, <1>8, <1>9, <1>10 DEF s

(***************************************************************************)
(* One debit.                                                              *)
(***************************************************************************)
LEMMA DebitKeeps ==
    ASSUME LimiterInv, NEW c \in Clients, NEW label \in Callers, NEW weight \in Nat \ {0},
           NEW enough \in BOOLEAN, Debit(c, label, weight, enough),
           calls' \in [Clients -> [Callers -> 0..MaxCalls]]
    PROVE  LimiterInv'
<1> DEFINE hit  == HitNow(weight)
           more == Credited(Dues(c), weight)
<1>0. /\ LimiterTypeOK /\ lastPurge <= now
      /\ \A k \in Clients : used[k] <= now /\ used[k] < lastPurge + PurgeInterval
      /\ \A k \in Clients : hits[k] # <<>> => lastPurge <= Last(hits[k]).at + Window
  BY DEF LimiterInv
<1>1. /\ enough = (Spent(Trimmed(c)) + weight <= Limit[label])
      /\ lastPurge' = IF now - lastPurge >= PurgeInterval THEN now ELSE lastPurge
      /\ order' = Touched(Kept, c)
      /\ now' = now
  BY DEF Debit, Kept, Trimmed
<1>2. hits' = [k \in Clients |-> IF k = c THEN IF enough THEN Append(Trimmed(c), hit) ELSE Trimmed(c)
                                 ELSE Held(k)]
  BY DEF Debit, Kept, Trimmed, Held, HitNow
<1>3. granted' = [k \in Clients |-> IF k = c /\ enough THEN more ELSE Dues(k)]
  BY DEF Debit, Kept, Dues, Credited
<1>4. used' = [k \in Clients |-> IF k = c THEN now ELSE IF k \in ToSet(Kept) THEN used[k] ELSE 0]
  BY DEF Debit, Kept
<1>4a. /\ under \in [Clients -> Callers]
       /\ under' = IF enough THEN [under EXCEPT ![c] = label] ELSE under
  BY <1>0 DEF Debit, LimiterTypeOK
<1>5. /\ Trimmed(c) \in Seq(Hit) /\ Aged(Trimmed(c)) /\ Owes(Dues(c), Trimmed(c))
      /\ Trimmed(c) # <<>> => /\ c \in ToSet(Kept) /\ hits[c] # <<>>
                              /\ Last(Trimmed(c)) = Last(hits[c])
      /\ \A t \in Clock : Dues(c)[t] <= Spent(Trimmed(c))
  BY TrimmedOwes
<1>6. \A k \in Clients :
        /\ Held(k) \in Seq(Hit) /\ Aged(Held(k)) /\ Owes(Dues(k), Held(k))
        /\ Dues(k) \in [Clock -> Nat] /\ Forgotten(Dues(k))
        /\ \A t \in Clock : Dues(k)[t] <= Limit[under[k]]
  BY HeldOwes
<1>7. /\ now \in Clock /\ now \in Nat /\ lastPurge \in Clock /\ lastPurge \in Nat
      /\ 0 \in Clock /\ used \in [Clients -> Clock]
      /\ \A k \in Clients : used[k] \in Nat
      /\ PurgeInterval \in Nat \ {0} /\ Window \in Nat
  <2>1. /\ now \in Clock /\ lastPurge \in Clock /\ used \in [Clients -> Clock]
    BY <1>0 DEF LimiterTypeOK
  <2>2. 0 \in Clock /\ \A t \in Clock : t \in Nat
    BY RateLimiterAssumption DEF Clock
  <2>3. PurgeInterval \in Nat \ {0} /\ Window \in Nat
    BY RateLimiterAssumption
  <2> QED BY <2>1, <2>2, <2>3
<1>8. /\ Append(Trimmed(c), hit) \in Seq(Hit)
      /\ Aged(Append(Trimmed(c), hit)) /\ Owes(more, Append(Trimmed(c), hit))
      /\ Forgotten(more) /\ more \in [Clock -> Nat]
  <2>1. Dues(c) \in [Clock -> Nat] /\ Forgotten(Dues(c))
    BY <1>6
  <2> QED BY <1>5, <1>7, <2>1, HitOwes
<1> HIDE DEF hit, more
<1>9. \A k \in Clients :
        /\ hits'[k] \in Seq(Hit) /\ Aged(hits'[k]) /\ Owes(granted'[k], hits'[k])
        /\ granted'[k] \in [Clock -> Nat] /\ Forgotten(granted'[k])
  BY <1>2, <1>3, <1>5, <1>6, <1>8
<1>11. /\ Kept \in Seq(Clients) /\ ToSet(Kept) \subseteq ToSet(Swept)
       /\ order' \in Seq(Clients) /\ IsInjective(order') /\ Len(order') <= MaxClients + 1
       /\ ToSet(order') = ToSet(Kept) \cup {c}
       /\ \A i, k \in DOMAIN order' : i < k =>
             /\ order'[i] # c /\ order'[i] \in ToSet(Kept)
             /\ \/ order'[k] = c
                \/ /\ order'[k] # c /\ order'[k] \in ToSet(Kept)
                   /\ used[order'[i]] <= used[order'[k]]
  BY <1>0, <1>1, TouchedFacts
<1>12. \A k \in Clients : hits'[k] # <<>> => k \in ToSet(order')
  BY <1>2, <1>11 DEF Held
<1>13. used' \in [Clients -> Clock]
  BY <1>4, <1>7
<1>14. \A i, k \in DOMAIN order' : i < k => used'[order'[i]] <= used'[order'[k]]
  <2> SUFFICES ASSUME NEW i \in DOMAIN order', NEW k \in DOMAIN order', i < k
               PROVE  used'[order'[i]] <= used'[order'[k]]
    OBVIOUS
  <2>1. order'[i] \in Clients /\ order'[k] \in Clients
    BY <1>11
  <2>2. used'[order'[i]] = used[order'[i]]
    BY <1>4, <1>11, <2>1
  <2>3. CASE order'[k] = c
    BY <1>0, <1>4, <2>1, <2>2, <2>3
  <2>4. CASE order'[k] # c
    BY <1>4, <1>11, <2>1, <2>2, <2>4
  <2> QED BY <2>3, <2>4
<1>15. lastPurge' \in Clock /\ lastPurge' <= now /\ lastPurge <= lastPurge' /\ now < lastPurge' + PurgeInterval
  BY <1>0, <1>1, <1>7
<1>16. \A k \in Clients : used'[k] <= now /\ used'[k] < lastPurge' + PurgeInterval
  <2> SUFFICES ASSUME NEW k \in Clients
               PROVE  used'[k] <= now /\ used'[k] < lastPurge' + PurgeInterval
    OBVIOUS
  <2>1. used'[k] \in Nat /\ used'[k] <= now
    BY <1>0, <1>4, <1>7
  <2>2. lastPurge' \in Nat
    BY <1>1, <1>7
  <2> QED BY <1>0, <1>7, <1>15, <2>1, <2>2
<1>17. \A k \in Clients : k \in ToSet(Kept) /\ hits[k] # <<>> => lastPurge' <= Last(hits[k]).at + Window
  <2> SUFFICES ASSUME NEW k \in Clients, k \in ToSet(Kept), hits[k] # <<>>
               PROVE  lastPurge' <= Last(hits[k]).at + Window
    OBVIOUS
  <2>1. Last(hits[k]).at \in Nat
    <3>1. hits[k] \in Seq(Hit)
      BY <1>0 DEF LimiterTypeOK
    <3>2. Len(hits[k]) \in 1..Len(hits[k])
      BY <3>1
    <3> QED BY <3>1, <3>2, HitFacts DEF Last
  <2>2. CASE now - lastPurge >= PurgeInterval
    <3>1. ~Expired(Last(hits[k]))
      BY <1>0, <1>11, <2>2, SweptFacts
    <3> DEFINE a == Last(hits[k]).at
    <3>2. a \in Nat /\ ~(now - a > Window) /\ lastPurge' = now
      BY <1>1, <2>1, <2>2, <3>1 DEF Expired
    <3> HIDE DEF a
    <3>3. now <= a + Window
      BY <1>7, <3>2
    <3> QED BY <3>2, <3>3 DEF a
  <2>3. CASE ~(now - lastPurge >= PurgeInterval)
    BY <1>0, <1>1, <2>3
  <2> QED BY <2>2, <2>3
<1>18. \A k \in Clients : hits'[k] # <<>> => lastPurge' <= Last(hits'[k]).at + Window
  <2> SUFFICES ASSUME NEW k \in Clients, hits'[k] # <<>>
               PROVE  lastPurge' <= Last(hits'[k]).at + Window
    OBVIOUS
  <2>1. CASE k # c
    <3>1. k \in ToSet(Kept) /\ hits'[k] = hits[k]
      BY <1>2, <2>1 DEF Held
    <3> QED BY <1>17, <3>1
  <2>2. CASE k = c /\ ~enough
    <3>1. hits'[k] = Trimmed(c)
      BY <1>2, <2>2
    <3> QED BY <1>5, <1>17, <2>2, <3>1
  <2>3. CASE k = c /\ enough
    <3>1. hits'[k] = Append(Trimmed(c), hit)
      BY <1>2, <2>3
    <3>2. Last(hits'[k]) = hit
      <4> DEFINE w == Trimmed(c)
      <4>1. w \in Seq(Hit)
        BY <1>5
      <4> HIDE DEF w
      <4>2. Len(Append(w, hit)) = Len(w) + 1 /\ Append(w, hit)[Len(w) + 1] = hit
        BY <4>1
      <4> QED BY <3>1, <4>2 DEF Last, w
    <3>3. hit.at = now
      BY DEF hit, HitNow
    <3> QED BY <1>1, <1>7, <3>2, <3>3, <1>15
  <2> QED BY <2>1, <2>2, <2>3
<1>19. \A k \in Clients, t \in Clock : granted'[k][t] <= Limit[under'[k]]
  <2> SUFFICES ASSUME NEW k \in Clients, NEW t \in Clock
               PROVE  granted'[k][t] <= Limit[under'[k]]
    OBVIOUS
  <2>1. Dues(k)[t] <= Limit[under[k]] /\ Dues(k)[t] \in Nat
    BY <1>6
  <2>2. CASE ~(k = c /\ enough)
    <3>1. under'[k] = under[k]
      BY <1>4a, <2>2
    <3> QED BY <1>3, <2>1, <2>2, <3>1
  <2>3. CASE k = c /\ enough
    <3>1. Dues(c)[t] <= Spent(Trimmed(c)) /\ Spent(Trimmed(c)) + weight <= Limit[label]
      BY <1>1, <1>5, <2>3
    <3>2. Spent(Trimmed(c)) \in Nat /\ Limit[label] \in Nat
      BY <1>5, WeighedFacts, RateLimiterAssumption
    <3>3. granted'[k][t] = Dues(c)[t] + weight \/ granted'[k][t] = Dues(c)[t]
      BY <1>3, <2>3 DEF more, Credited
    <3>4. under'[k] = label
      BY <1>4a, <2>3
    <3> QED BY <2>1, <2>3, <3>1, <3>2, <3>3, <3>4
  <2> QED BY <2>2, <2>3
<1>20. LimiterTypeOK'
  <2>1. hits' \in [Clients -> Seq(Hit)] /\ granted' \in [Clients -> [Clock -> Nat]]
    <3>1. hits' = [k \in Clients |-> hits'[k]] /\ granted' = [k \in Clients |-> granted'[k]]
      BY <1>2, <1>3
    <3> QED BY <1>9, <3>1
  <2>2. under' \in [Clients -> Callers]
    BY <1>4a
  <2> QED BY <1>0, <1>1, <1>7, <1>11, <1>12, <1>13, <1>14, <1>15, <2>1, <2>2 DEF LimiterTypeOK
<1>21. (\A k \in Clients : Aged(hits[k]) /\ Owes(granted[k], hits[k]) /\ Forgotten(granted[k]))'
  <2>1. \A k \in Clients : Aged(hits[k])'
    BY <1>1, <1>9 DEF Aged
  <2>2. \A k \in Clients : Owes(granted[k], hits[k])'
    BY <1>9 DEF Owes
  <2>3. \A k \in Clients : Forgotten(granted[k])'
    BY <1>1, <1>9 DEF Forgotten, Recent
  <2> QED BY <2>1, <2>2, <2>3
<1> QED
  BY <1>1, <1>15, <1>16, <1>18, <1>19, <1>20, <1>21 DEF BudgetHolds, LimiterInv

LEMMA TickKeeps ==
    ASSUME LimiterInv, Tick
    PROVE  LimiterInv'
<1> USE DEF LimiterInv
<1>1. /\ now < MaxClock /\ now' = now + 1
      /\ UNCHANGED <<order, hits, lastPurge, calls, under, used>>
  BY DEF Tick
<1>2. granted' = [c \in Clients |-> [t \in Clock |-> IF now + 1 > t + Window THEN 0 ELSE granted[c][t]]]
  BY DEF Tick
<1>3. /\ now \in Nat /\ MaxClock \in Nat /\ Window \in Nat /\ 0 \in Nat
      /\ \A t \in Clock : t \in Nat
  BY RateLimiterAssumption DEF LimiterTypeOK, Clock
<1>4. now' \in Clock /\ now < now'
  BY <1>1, <1>3 DEF Clock
<1>5. /\ granted \in [Clients -> [Clock -> Nat]] /\ hits \in [Clients -> Seq(Hit)]
      /\ used \in [Clients -> Clock] /\ lastPurge \in Clock
      /\ under \in [Clients -> Callers] /\ \A c \in Clients : Limit[under[c]] \in Nat
  BY RateLimiterAssumption DEF LimiterTypeOK
<1>6. \A c \in Clients, t \in Clock :
        /\ granted[c][t] \in Nat
        /\ granted'[c][t] = IF now' > t + Window THEN 0 ELSE granted[c][t]
  BY <1>1, <1>2, <1>5
<1>7. LimiterTypeOK'
  <2>1. granted' \in [Clients -> [Clock -> Nat]]
    BY <1>2, <1>5, <1>6
  <2> QED BY <1>1, <1>4, <2>1 DEF LimiterTypeOK
<1>8. ASSUME NEW c \in Clients
      PROVE  Aged(hits[c])' /\ Owes(granted[c], hits[c])' /\ Forgotten(granted[c])'
  <2>1. Aged(hits[c])'
    <3>1. \A i \in 1..Len(hits[c]) : hits[c][i].at \in Nat
      BY <1>5, HitFacts
    <3>2. \A i \in 1..Len(hits[c]) : hits[c][i].at <= now'
      BY <1>3, <1>4, <1>1, <3>1 DEF Aged
    <3> QED BY <1>1, <3>2 DEF Aged
  <2>2. ASSUME NEW t \in Clock, NEW k \in 0..Len(hits[c]), \A i \in 1..k : hits[c][i].at < t
        PROVE  granted'[c][t] <= Total(Weighed(hits[c])) - Totals(Weighed(hits[c]))[k]
    <3> DEFINE w == Weighed(hits[c])
    <3>1. granted[c][t] <= Total(w) - Totals(w)[k]
      BY <2>2 DEF Owes
    <3>2. w \in Seq(Nat) /\ Len(w) = Len(hits[c])
      BY <1>5, WeighedFacts
    <3> HIDE DEF w
    <3>3. Total(w) \in Nat /\ Totals(w)[k] \in Nat /\ Totals(w)[k] <= Total(w)
      BY <3>2, TotalsFacts
    <3>4. granted'[c][t] = 0 \/ granted'[c][t] = granted[c][t]
      BY <1>6
    <3> QED BY <1>6, <3>1, <3>3, <3>4 DEF w
  <2>3. Owes(granted[c], hits[c])'
    BY <1>1, <2>2 DEF Owes
  <2>4. Forgotten(granted[c])'
    <3> SUFFICES ASSUME NEW t \in Clock, ~(t <= now' /\ now' <= t + Window)
                 PROVE  granted'[c][t] = 0
      BY DEF Forgotten, Recent
    <3>1. CASE now' > t + Window
      BY <1>6, <3>1
    <3>2. CASE ~(now' > t + Window)
      <4>1. ~(t <= now)
        BY <1>1, <1>3, <3>2
      <4>2. granted[c][t] = 0
        BY <4>1 DEF Forgotten, Recent
      <4> QED BY <1>6, <3>2, <4>2
    <3> QED BY <3>1, <3>2
  <2> QED BY <2>1, <2>3, <2>4
<1>9. lastPurge <= now' /\ \A c \in Clients : used[c] <= now'
  <2>1. lastPurge \in Nat /\ \A c \in Clients : used[c] \in Nat
    BY <1>5 DEF Clock
  <2> QED BY <1>1, <1>3, <2>1
<1>10. \A c \in Clients, t \in Clock : granted'[c][t] <= Limit[under'[c]]
  <2> SUFFICES ASSUME NEW c \in Clients, NEW t \in Clock PROVE granted'[c][t] <= Limit[under'[c]]
    OBVIOUS
  <2>1. /\ granted[c][t] <= Limit[under[c]] /\ Limit[under[c]] \in Nat
        /\ under'[c] = under[c]
    BY <1>1, <1>5 DEF BudgetHolds
  <2>2. granted'[c][t] = 0 \/ granted'[c][t] = granted[c][t]
    BY <1>6
  <2> QED BY <2>1, <2>2
<1> QED
  BY <1>1, <1>7, <1>8, <1>9, <1>10 DEF BudgetHolds

LEMMA LimiterStarts == ASSUME LimiterInit PROVE LimiterInv
<1> USE DEF LimiterInit
<1>1. 0 \in Clock /\ Window \in Nat /\ PurgeInterval \in Nat \ {0} /\ MaxClients \in Nat /\ MaxCalls \in Nat
  BY RateLimiterAssumption DEF Clock
<1>2. <<>> \in Seq(Hit) /\ <<>> \in Seq(Clients) /\ IsInjective(<<>>) /\ Len(<<>>) = 0
  BY DEF IsInjective
<1>3. \A c \in Clients : hits[c] = <<>>
  OBVIOUS
<1>4. LimiterTypeOK
  <2>1. hits \in [Clients -> Seq(Hit)]
    BY <1>2
  <2>2. granted \in [Clients -> [Clock -> Nat]] /\ used \in [Clients -> Clock]
    BY <1>1
  <2>3. calls \in [Clients -> [Callers -> 0..MaxCalls]] /\ under \in [Clients -> Callers]
    BY <1>1 DEF Callers
  <2>4. Len(order) <= MaxClients + 1
    BY <1>1, <1>2
  <2>5. \A i, k \in DOMAIN order : i < k => used[order[i]] <= used[order[k]]
    OBVIOUS
  <2> QED BY <1>1, <1>2, <1>3, <2>1, <2>2, <2>3, <2>4, <2>5 DEF LimiterTypeOK
<1>5. \A c \in Clients : Aged(hits[c])
  BY <1>3 DEF Aged
<1>6. \A c \in Clients, t \in Clock : granted[c][t] = 0
  OBVIOUS
<1>7. \A c \in Clients : Owes(granted[c], hits[c])
  BY <1>2, <1>3, <1>6, NothingOwed
<1>8. BudgetHolds
  BY <1>6, RateLimiterAssumption DEF BudgetHolds, Callers
<1> QED
  BY <1>1, <1>3, <1>4, <1>5, <1>6, <1>7, <1>8 DEF LimiterInv, Forgotten

LEMMA LimiterSteadies ==
    ASSUME LimiterInv, [LimiterNext]_limiterVars
    PROVE  LimiterInv'
<1>0. calls \in [Clients -> [Callers -> 0..MaxCalls]] /\ MaxCalls \in Nat
  BY RateLimiterAssumption DEF LimiterInv, LimiterTypeOK
<1>00. \A a \in Askers : a.bucket \in Clients /\ a.label \in Callers /\ a.caller \in Callers
  <2> SUFFICES ASSUME NEW r \in Requests
               PROVE  _bucket(r) \in Clients /\ Label(r) \in Callers /\ caller_label(r) \in Callers
    BY DEF Askers
  <2>1. Label(r) \in Labels \cup {None} /\ caller_label(r) \in Callers
    BY DEF Requests, Label, caller_label, Callers
  <2>2. _client_ip(r) \in Addresses
    BY DEF Requests, _client_ip
  <2> QED BY <2>1, <2>2 DEF _bucket, Clients, Callers
<1>1. ASSUME NEW a \in Askers, NEW weight \in Weights, Request(a, weight) PROVE LimiterInv'
  <2>1. PICK enough \in BOOLEAN : Debit(a.bucket, a.label, weight, enough)
    BY <1>1 DEF Request
  <2>2. calls' \in [Clients -> [Callers -> 0..MaxCalls]]
    BY <1>0, <1>1 DEF Request
  <2>3. weight \in Nat \ {0} /\ a.bucket \in Clients /\ a.label \in Callers
    BY <1>00, RateLimiterAssumption
  <2> QED BY <2>1, <2>2, <2>3, DebitKeeps
<1>2. ASSUME NEW a \in Askers, McpRequest(a) PROVE LimiterInv'
  <2> DEFINE c == a.bucket
             l == a.caller
  <2>1. c \in Clients /\ l \in Callers /\ a.label \in Callers
    BY <1>00
  <2>2. PICK enough \in BOOLEAN :
          /\ calls[c][l] < MaxCalls /\ Debit(c, a.label, 1, enough)
          /\ calls' = IF enough /\ a.verified THEN [calls EXCEPT ![c][l] = @ + 1] ELSE calls
    BY <1>2 DEF McpRequest
  <2> HIDE DEF c, l
  <2>3. calls[c][l] + 1 \in 0..MaxCalls
    BY <1>0, <2>1, <2>2
  <2>4. calls' \in [Clients -> [Callers -> 0..MaxCalls]]
    BY <1>0, <2>1, <2>2, <2>3
  <2>5. 1 \in Nat \ {0}
    OBVIOUS
  <2> QED BY <2>1, <2>2, <2>4, <2>5, DebitKeeps
<1>3. ASSUME NEW c \in Clients, NEW l \in Callers, NEW weight \in Weights,
             ChargeTool(c, l, weight)
      PROVE  LimiterInv'
  <2>1. calls[c][l] > 0 /\ calls' = [calls EXCEPT ![c][l] = @ - 1]
    BY <1>3 DEF ChargeTool
  <2>2. calls[c][l] - 1 \in 0..MaxCalls
    BY <1>0, <2>1
  <2>3. calls' \in [Clients -> [Callers -> 0..MaxCalls]]
    BY <1>0, <2>1, <2>2
  <2>4. CASE weight > 1
    <3>1. PICK enough \in BOOLEAN : Debit(c, l, weight - 1, enough)
      BY <1>3, <2>4 DEF ChargeTool
    <3>2. weight - 1 \in Nat \ {0}
      BY <2>4, RateLimiterAssumption
    <3> QED BY <2>3, <3>1, <3>2, DebitKeeps
  <2>5. CASE ~(weight > 1)
    <3>1. UNCHANGED <<now, order, hits, lastPurge, granted, under, used>>
      BY <1>3, <2>5 DEF ChargeTool
    <3> QED BY <2>3, <3>1 DEF LimiterInv, LimiterTypeOK, Aged, Owes, Forgotten, Recent, BudgetHolds
  <2> QED BY <2>4, <2>5
<1>4. CASE Tick
  BY <1>4, TickKeeps
<1>5. CASE UNCHANGED limiterVars
  BY <1>5 DEF limiterVars, LimiterInv, LimiterTypeOK, Aged, Owes, Forgotten, Recent, BudgetHolds
<1> QED
  BY <1>1, <1>2, <1>3, <1>4, <1>5 DEF LimiterNext

LEMMA LimiterTells ==
    ASSUME LimiterInv
    PROVE  RetryAfterFrees /\ StaleWindowsGo
<1> USE DEF LimiterInv
<1>1. /\ now \in Nat /\ lastPurge \in Nat /\ hits \in [Clients -> Seq(Hit)]
      /\ order \in Seq(Clients) /\ \A c \in Clients : used[c] \in Nat
  BY DEF LimiterTypeOK, Clock
<1>2. Window \in Nat /\ PurgeInterval \in Nat /\ Second \in Nat \ {0}
  BY RateLimiterAssumption
<1>3. ASSUME NEW c \in Clients, hits[c] # <<>>
      PROVE  /\ Head(hits[c]).at \in Nat /\ Head(hits[c]).at <= now
             /\ Last(hits[c]).at \in Nat
  <2> DEFINE w == hits[c]
  <2>1. w \in Seq(Hit) /\ w # <<>> /\ Aged(w)
    BY <1>1, <1>3
  <2> HIDE DEF w
  <2>2. 1 \in 1..Len(w) /\ Len(w) \in 1..Len(w) /\ Head(w) = w[1] /\ Last(w) = w[Len(w)]
    BY <2>1 DEF Last
  <2> QED BY <2>1, <2>2, HitFacts DEF Aged, w
<1>4. RetryAfterFrees
  <2> SUFFICES ASSUME NEW c \in Clients, hits[c] # <<>>, ~Expired(Head(hits[c]))
               PROVE  /\ Head(hits[c]).at + Window < now + Second * Reset(hits[c])
                      /\ now + Second * Reset(hits[c]) <= Head(hits[c]).at + Window + Second
    BY DEF RetryAfterFrees
  <2> DEFINE a == Head(hits[c]).at
             x == Window - (now - a)
             q == x \div Second
  <2>1. a \in Nat /\ a <= now /\ ~(now - a > Window)
    BY <1>3 DEF Expired
  <2>2. x \in Nat /\ Reset(hits[c]) = q + 1
    <3>1. Reset(hits[c]) = q + 1
      BY DEF Reset
    <3> HIDE DEF a
    <3> QED BY <1>1, <1>2, <2>1, <3>1
  <2>3. now + x = a + Window
    <3> HIDE DEF a
    <3> QED BY <1>1, <1>2, <2>1
  <2> HIDE DEF a, x
  <2>4. q \in Nat /\ Second * q <= x /\ x < Second * q + Second
    BY <1>2, <2>2
  <2>5. Second * (q + 1) = Second * q + Second /\ Second * q \in Nat
    BY <1>2, <2>4
  <2> DEFINE p == Second * q
  <2>6. p \in Nat /\ p <= x /\ x < p + Second
    BY <2>4, <2>5
  <2> HIDE DEF p, q
  <2>7. a + Window < now + (p + Second) /\ now + (p + Second) <= a + Window + Second
    BY <1>1, <1>2, <2>1, <2>2, <2>3, <2>6
  <2>8. Second * Reset(hits[c]) = p + Second
    BY <2>2, <2>5 DEF p
  <2> QED BY <2>7, <2>8 DEF a
<1>5. StaleWindowsGo
  <2> SUFFICES ASSUME NEW c \in ToSet(order), NEW d \in Clients, hits[c] # <<>>
               PROVE  used[d] < Last(hits[c]).at + Window + PurgeInterval
    BY DEF StaleWindowsGo
  <2>1. c \in Clients
    BY <1>1 DEF ToSet
  <2>2. lastPurge <= Last(hits[c]).at + Window /\ used[d] < lastPurge + PurgeInterval
    BY <2>1
  <2>3. Last(hits[c]).at \in Nat
    BY <1>3, <2>1
  <2> QED BY <1>1, <1>2, <2>2, <2>3
<1> QED
  BY <1>4, <1>5

(***************************************************************************)
(* What the limiter's theorems rest on.                                    *)
(***************************************************************************)
THEOREM LimiterInvariance == LimiterSpec => []LimiterInv
<1>1. LimiterInit => LimiterInv
  BY LimiterStarts
<1>2. LimiterInv /\ [LimiterNext]_limiterVars => LimiterInv'
  BY LimiterSteadies
<1> QED
  BY <1>1, <1>2, PTL DEF LimiterSpec

(***************************************************************************)
(* The table is injective, its windows belong to clients in it, its order  *)
(* is that of the last use, and it never outgrows MaxClients by more than  *)
(* the client being served.                                                *)
(***************************************************************************)
THEOREM LimiterTypeCorrect == LimiterSpec => []LimiterTypeOK
<1>1. LimiterInv => LimiterTypeOK
  BY DEF LimiterInv
<1> QED
  BY <1>1, LimiterInvariance, PTL

(***************************************************************************)
(* No client is granted more, in any stretch of time as long as the window,*)
(* than the limit under which it was granted points last, whichever limits *)
(* the labels have.                                                        *)
(***************************************************************************)
THEOREM LimitsHold == LimiterSpec => []BudgetHolds
<1>1. LimiterInv => BudgetHolds
  BY DEF LimiterInv
<1> QED
  BY <1>1, LimiterInvariance, PTL

(***************************************************************************)
(* Retry-After is long enough, and at most one second too long.            *)
(***************************************************************************)
THEOREM RetriesSucceed == LimiterSpec => []RetryAfterFrees
<1>1. LimiterInv => RetryAfterFrees
  BY LimiterTells
<1> QED
  BY <1>1, LimiterInvariance, PTL

(***************************************************************************)
(* Nothing stays in the table for longer than its life and a sweep.        *)
(***************************************************************************)
THEOREM TableIsSwept == LimiterSpec => []StaleWindowsGo
<1>1. LimiterInv => StaleWindowsGo
  BY LimiterTells
<1> QED
  BY <1>1, LimiterInvariance, PTL

-----------------------------------------------------------------------------
(* The results of tools.                                                   *)

(***************************************************************************)
(* A sequence without repetitions has as many members as positions.        *)
(***************************************************************************)
LEMMA InjectiveSize ==
    ASSUME NEW S, NEW s \in Seq(S), IsInjective(s)
    PROVE  IsFiniteSet(ToSet(s)) /\ Cardinality(ToSet(s)) = Len(s)
<1>1. Len(s) \in Nat /\ s \in [1..Len(s) -> S] /\ DOMAIN s = 1..Len(s)
  OBVIOUS
<1>2. IsFiniteSet(1..Len(s)) /\ Cardinality(1..Len(s)) = Len(s)
  BY <1>1, FS_Interval
<1>3. s \in [1..Len(s) -> ToSet(s)]
  BY <1>1 DEF ToSet
<1>4. s \in Surjection(1..Len(s), ToSet(s))
  BY <1>1, <1>3 DEF Surjection, ToSet
<1>5. s \in Injection(1..Len(s), ToSet(s))
  BY <1>3 DEF Injection
<1> QED
  BY <1>2, <1>4, <1>5, FS_Surjection

LEMMA MinFacts ==
    ASSUME NEW U, U \subseteq Nat, U # {}
    PROVE  Min(U) \in U /\ \A x \in U : Min(U) <= x
<1>1. \E m \in U : \A k \in U : m <= k
  BY LeastNumber
<1> QED
  BY <1>1 DEF Min

(***************************************************************************)
(* A sum of numbers that are 0 but at some positions, and there at most b. *)
(***************************************************************************)
LEMMA TotalsBounded ==
    ASSUME NEW s \in Seq(Nat), NEW W, W \subseteq 1..Len(s), NEW b \in Nat,
           \A i \in 1..Len(s) : s[i] <= IF i \in W THEN b ELSE 0
    PROVE  /\ IsFiniteSet(W) /\ Cardinality(W) \in Nat
           /\ Total(s) <= Cardinality(W) * b
<1> DEFINE n == Len(s)
           f == Totals(s)
           Part(i) == W \cap (1..i)
           U == {i \in 0..n : f[i] <= Cardinality(Part(i)) * b}
<1>1. n \in Nat /\ f \in [0..n -> Nat] /\ f[0] = 0
      /\ \A i \in 1..n : f[i] = f[i - 1] + s[i] /\ s[i] \in Nat
  BY TotalsStep
<1>2. \A i \in 0..n : IsFiniteSet(Part(i)) /\ Cardinality(Part(i)) \in Nat
  <2> SUFFICES ASSUME NEW i \in 0..n
               PROVE  IsFiniteSet(Part(i)) /\ Cardinality(Part(i)) \in Nat
    OBVIOUS
  <2>1. IsFiniteSet(1..i)
    BY FS_Interval
  <2>2. Part(i) \in SUBSET (1..i)
    OBVIOUS
  <2> HIDE DEF Part
  <2> QED BY <2>1, <2>2, FS_Subset, FS_CardinalityType
<1> HIDE DEF f
<1>3. 0 \in U
  <2>1. 0 \in 0..n
    BY <1>1
  <2>2. Cardinality(Part(0)) \in Nat
    BY <1>2, <2>1
  <2> DEFINE m == Cardinality(Part(0))
  <2>3. 0 <= m * b
    <3>1. m \in Nat
      BY <2>2
    <3> HIDE DEF m
    <3>2. m * b \in Nat
      BY <3>1
    <3> QED BY <3>2
  <2> QED BY <1>1, <2>1, <2>3
<1>4. ASSUME NEW i \in 1..n, i - 1 \in U PROVE i \in U
  <2>1. i \in 0..n /\ i - 1 \in 0..n
    BY <1>1
  <2> DEFINE m == Cardinality(Part(i - 1))
  <2>2. m \in Nat /\ IsFiniteSet(Part(i - 1))
    BY <1>2, <2>1
  <2>3. f[i - 1] <= m * b /\ f[i] = f[i - 1] + s[i] /\ f[i - 1] \in Nat /\ s[i] \in Nat
    BY <1>1, <1>4, <2>1
  <2>4. CASE i \in W
    <3>1. Part(i) = Part(i - 1) \cup {i} /\ i \notin Part(i - 1)
      BY <1>1, <2>4
    <3> HIDE DEF Part
    <3>2. Cardinality(Part(i)) = m + 1
      BY <2>2, <3>1, FS_AddElement
    <3>3. s[i] <= b
      BY <2>4
    <3> HIDE DEF m
    <3>4. (m + 1) * b = m * b + b /\ m * b \in Nat
      BY <2>2
    <3>5. f[i] <= (m + 1) * b
      <4> DEFINE q == m * b
      <4>1. q \in Nat /\ f[i - 1] <= q /\ (m + 1) * b = q + b
        BY <2>3, <3>4
      <4> HIDE DEF q
      <4> QED BY <2>3, <3>3, <4>1
    <3> QED BY <2>1, <3>2, <3>5
  <2>5. CASE i \notin W
    <3>1. Part(i) = Part(i - 1)
      BY <1>1, <2>5
    <3>2. s[i] = 0
      BY <2>3, <2>5
    <3> HIDE DEF Part
    <3>3. f[i] = f[i - 1]
      BY <2>3, <3>2
    <3> QED BY <2>1, <2>3, <3>1, <3>3
  <2> QED BY <2>4, <2>5
<1>5. n \in U
  <2> HIDE DEF U
  <2>1. 0..n \subseteq U
    BY <1>1, <1>3, <1>4, Positions
  <2>2. n \in 0..n
    BY <1>1
  <2> QED BY <2>1, <2>2
<1>6. Part(n) = W /\ n \in 0..n
  BY <1>1
<1>7. f[n] <= Cardinality(Part(n)) * b /\ IsFiniteSet(Part(n)) /\ Cardinality(Part(n)) \in Nat
  BY <1>2, <1>5, <1>6
<1> HIDE DEF Part
<1> QED
  BY <1>6, <1>7 DEF Total, f

-----------------------------------------------------------------------------
(* What a store keeps of the texts.                                        *)

\* In s, what stands after a text was used after it.
YoungerIn(s, young) ==
    \A c \in Calls : \A i, k \in DOMAIN s : i < k /\ s[i] = <<c, 0>> => s[k] \in young[c]

\* The text of a call, once stored, reads until it is old or as many others
\* were used as the store holds.
TextReads(c) ==
    <<c, 0>> \in ToSet(store) \/ _expired(<<c, 0>>) \/ Cardinality(since[c]) >= MaxItems

LEMMA RemovedYounger ==
    ASSUME NEW s \in Seq(Ids), NEW gone, NEW young, YoungerIn(s, young)
    PROVE  YoungerIn(Removed(s, gone), young)
<1> DEFINE r == Removed(s, gone)
<1>1. r \in Seq(Ids)
  BY RemovedLeaves
<1>2. PICK p : Left(r, s, Len(s), gone, p)
  BY RemovedLeaves
<1> HIDE DEF r
<1>3. DOMAIN r = 1..Len(r) /\ DOMAIN s = 1..Len(s)
  BY <1>1
<1> SUFFICES ASSUME NEW c \in Calls, NEW i \in 1..Len(r), NEW k \in 1..Len(r), i < k, r[i] = <<c, 0>>
             PROVE  r[k] \in young[c]
  BY <1>3 DEF YoungerIn, r
<1>4. p[i] \in 1..Len(s) /\ p[k] \in 1..Len(s) /\ p[i] < p[k] /\ r[i] = s[p[i]] /\ r[k] = s[p[k]]
  BY <1>2 DEF Left
<1> QED
  BY <1>3, <1>4 DEF YoungerIn

(***************************************************************************)
(* One sequence of ids after another.                                      *)
(***************************************************************************)
LEMMA JoinedFacts ==
    ASSUME NEW S, NEW s \in Seq(S), NEW t \in Seq(S)
    PROVE  LET u == s \o t
           IN  /\ u \in Seq(S) /\ Len(u) = Len(s) + Len(t)
               /\ \A i \in 1..Len(s) : u[i] = s[i]
               /\ \A i \in 1..Len(t) : u[Len(s) + i] = t[i]
               /\ \A i \in 1..Len(u) : i \in 1..Len(s) \/ i - Len(s) \in 1..Len(t)
               /\ ToSet(u) = ToSet(s) \cup ToSet(t)
<1> DEFINE u == s \o t
           m == Len(s)
           n == Len(t)
<1>1. /\ m \in Nat /\ n \in Nat
      /\ \A i \in 1..m : s[i] \in S
      /\ \A i \in 1..n : t[i] \in S
      /\ DOMAIN s = 1..m /\ DOMAIN t = 1..n
  OBVIOUS
<1>2. u \in Seq(S) /\ Len(u) = m + n
  OBVIOUS
<1>3. \A i \in 1..(m + n) : u[i] = IF i <= m THEN s[i] ELSE t[i - m]
  OBVIOUS
<1> HIDE DEF u, m, n
<1>4. \A i \in 1..m : u[i] = s[i] /\ i \in 1..(m + n)
  BY <1>1, <1>3
<1>5. \A i \in 1..n : u[m + i] = t[i] /\ m + i \in 1..(m + n)
  <2> SUFFICES ASSUME NEW i \in 1..n PROVE u[m + i] = t[i] /\ m + i \in 1..(m + n)
    OBVIOUS
  <2>1. m + i \in 1..(m + n) /\ ~(m + i <= m) /\ (m + i) - m = i
    BY <1>1
  <2> QED BY <1>3, <2>1
<1>6. \A i \in 1..(m + n) : i \in 1..m \/ (i - m \in 1..n /\ m + (i - m) = i)
  BY <1>1
<1>7. DOMAIN u = 1..(m + n)
  BY <1>2
<1>8. ToSet(u) = ToSet(s) \cup ToSet(t)
  <2>1. \A i \in 1..(m + n) : u[i] \in ToSet(s) \cup ToSet(t)
    <3> SUFFICES ASSUME NEW i \in 1..(m + n) PROVE u[i] \in ToSet(s) \cup ToSet(t)
      OBVIOUS
    <3>1. CASE i \in 1..m
      BY <1>1, <1>4, <3>1 DEF ToSet
    <3>2. CASE i - m \in 1..n /\ m + (i - m) = i
      <4>1. u[i] = t[i - m]
        BY <1>5, <3>2
      <4> QED BY <1>1, <3>2, <4>1 DEF ToSet
    <3> QED BY <1>6, <3>1, <3>2
  <2>2. \A i \in 1..m : s[i] \in ToSet(u)
    BY <1>4, <1>7 DEF ToSet
  <2>3. \A i \in 1..n : t[i] \in ToSet(u)
    BY <1>5, <1>7 DEF ToSet
  <2> QED BY <1>1, <1>7, <2>1, <2>2, <2>3 DEF ToSet
<1> QED
  BY <1>2, <1>4, <1>5, <1>6, <1>8 DEF u, m, n

(***************************************************************************)
(* What put does to them: it drops the expired, and what it evicts has     *)
(* MaxItems others after it.                                               *)
(***************************************************************************)
LEMMA ParkKeeps ==
    ASSUME ResultsTypeOK, YoungerIn(store, since), \A c \in Calls : IsFiniteSet(since[c]),
           NEW ids \in Seq(Ids), IsInjective(ids), ToSet(ids) \cap ToSet(store) = {},
           \A c \in Calls : <<c, 0>> \in ToSet(ids) => ids = <<<<c, 0>>>>,
           Park(ids), clock' = clock
    PROVE  /\ store' \in Seq(Ids) /\ IsInjective(store') /\ Len(store') <= MaxItems
           /\ ToSet(store') \subseteq ToSet(store) \cup ToSet(ids)
           /\ created' \in [Ids -> 0..LastTick] /\ since' \in [Calls -> SUBSET Ids]
           /\ YoungerIn(store', since')
           /\ \A c \in Calls : IsFiniteSet(since'[c])
           /\ \A c \in Calls : <<c, 0>> \in ToSet(ids) \/ TextReads(c) => TextReads(c)'
<1> DEFINE gone == {id \in Ids : _expired(id)}
           pr == _prune(store)
           all == pr \o ids
           m == Len(pr)
           n == Len(all)
           d == Larger(0, n - MaxItems)
           st == SubSeq(all, d + 1, n)
<1>1. /\ store \in Seq(Ids) /\ IsInjective(store)
      /\ created \in [Ids -> 0..LastTick] /\ since \in [Calls -> SUBSET Ids]
      /\ clock \in 0..LastTick
  BY DEF ResultsTypeOK
<1>2. /\ store' = st
      /\ created' = [id \in Ids |-> IF id \in ToSet(ids) THEN clock ELSE created[id]]
      /\ since' = [c \in Calls |-> IF <<c, 0>> \in ToSet(ids) THEN {} ELSE since[c] \cup ToSet(ids)]
  BY DEF Park, put, Used
<1>3. pr = Removed(store, gone)
  BY DEF _prune
<1> HIDE DEF gone, pr
<1>4. /\ pr \in Seq(Ids) /\ IsInjective(pr) /\ ToSet(pr) = ToSet(store) \ gone
      /\ YoungerIn(pr, since)
  BY <1>1, <1>3, RemovedFacts, RemovedYounger
<1>5. /\ all \in Seq(Ids) /\ n = m + Len(ids)
      /\ \A i \in 1..m : all[i] = pr[i]
      /\ \A i \in 1..Len(ids) : all[m + i] = ids[i]
      /\ \A i \in 1..n : i \in 1..m \/ i - m \in 1..Len(ids)
      /\ ToSet(all) = ToSet(pr) \cup ToSet(ids)
  BY <1>4, JoinedFacts
<1>6. m \in Nat /\ n \in Nat /\ Len(ids) \in Nat /\ MaxItems \in Nat \ {0}
      /\ DOMAIN pr = 1..m /\ DOMAIN ids = 1..Len(ids) /\ DOMAIN all = 1..n
  BY <1>4, <1>5, ToolResultsAssumption
<1> HIDE DEF all, m, n
<1>7. \A i \in 1..n : \/ i \in 1..m /\ all[i] = pr[i] /\ all[i] \in ToSet(pr)
                      \/ i - m \in 1..Len(ids) /\ all[i] = ids[i - m] /\ all[i] \in ToSet(ids)
  <2> SUFFICES ASSUME NEW i \in 1..n
               PROVE  \/ i \in 1..m /\ all[i] = pr[i] /\ all[i] \in ToSet(pr)
                      \/ i - m \in 1..Len(ids) /\ all[i] = ids[i - m] /\ all[i] \in ToSet(ids)
    OBVIOUS
  <2>1. CASE i \in 1..m
    BY <1>5, <1>6, <2>1 DEF ToSet
  <2>2. CASE i - m \in 1..Len(ids)
    <3>1. m + (i - m) = i
      BY <1>6
    <3>2. all[i] = ids[i - m]
      BY <1>5, <2>2, <3>1
    <3> QED BY <1>6, <2>2, <3>2 DEF ToSet
  <2> QED BY <1>5, <2>1, <2>2
<1>8. ToSet(pr) \cap ToSet(ids) = {}
  BY <1>4
<1>9. IsInjective(all)
  <2> SUFFICES ASSUME NEW i \in 1..n, NEW k \in 1..n, all[i] = all[k]
               PROVE  i = k
    BY <1>6 DEF IsInjective
  <2>1. CASE i \in 1..m /\ k \in 1..m /\ all[i] = pr[i] /\ all[k] = pr[k]
    BY <1>4, <1>6, <2>1 DEF IsInjective
  <2>2. CASE /\ i - m \in 1..Len(ids) /\ k - m \in 1..Len(ids)
             /\ all[i] = ids[i - m] /\ all[k] = ids[k - m]
    <3>1. i - m = k - m
      BY <1>6, <2>2 DEF IsInjective
    <3> QED BY <1>6, <3>1
  <2> QED BY <1>7, <1>8, <2>1, <2>2
<1>10. YoungerIn(all, since')
  <2> SUFFICES ASSUME NEW c \in Calls, NEW i \in 1..n, NEW k \in 1..n, i < k, all[i] = <<c, 0>>
               PROVE  all[k] \in since'[c]
    BY <1>6 DEF YoungerIn
  <2>1. CASE <<c, 0>> \in ToSet(ids)
    <3>1. ids = <<<<c, 0>>>> /\ Len(ids) = 1
      BY <2>1
    <3>2. i - m \in 1..1
      BY <1>7, <1>8, <2>1, <3>1
    <3>3. k <= m + 1
      BY <1>5, <1>6, <3>1
    <3> QED BY <1>6, <3>2, <3>3
  <2>2. CASE <<c, 0>> \notin ToSet(ids)
    <3>1. since'[c] = since[c] \cup ToSet(ids)
      BY <1>2, <2>2
    <3>2. i \in 1..m /\ pr[i] = <<c, 0>>
      BY <1>7, <2>2
    <3>3. CASE k \in 1..m /\ all[k] = pr[k]
      <4>1. pr[k] \in since[c]
        BY <1>4, <1>6, <3>2, <3>3 DEF YoungerIn
      <4> QED BY <3>1, <3>3, <4>1
    <3>4. CASE all[k] \in ToSet(ids)
      BY <3>1, <3>4
    <3> QED BY <1>7, <3>3, <3>4
  <2> QED BY <2>1, <2>2
<1>11. d \in 0..n /\ n - d <= MaxItems /\ (d > 0 => n - d = MaxItems)
  BY <1>6 DEF Larger
<1> HIDE DEF d
<1>12. /\ st \in Seq(Ids) /\ Len(st) = n - d
       /\ \A i \in 1..Len(st) : d + i \in 1..n /\ st[i] = all[d + i]
  BY <1>5, <1>11, SuffixFacts DEF n
<1> HIDE DEF st
<1>13. DOMAIN st = 1..Len(st) /\ Len(st) \in Nat /\ d \in Nat
  BY <1>11, <1>12
<1>14. IsInjective(st) /\ YoungerIn(st, since')
  <2>1. IsInjective(st)
    <3> SUFFICES ASSUME NEW i \in 1..Len(st), NEW k \in 1..Len(st), st[i] = st[k]
                 PROVE  i = k
      BY <1>13 DEF IsInjective
    <3>1. d + i = d + k
      BY <1>6, <1>9, <1>12 DEF IsInjective
    <3> QED BY <1>13, <3>1
  <2>2. YoungerIn(st, since')
    <3> SUFFICES ASSUME NEW c \in Calls, NEW i \in 1..Len(st), NEW k \in 1..Len(st), i < k,
                        st[i] = <<c, 0>>
                 PROVE  st[k] \in since'[c]
      BY <1>13 DEF YoungerIn
    <3>1. d + i < d + k /\ d + i \in 1..n /\ d + k \in 1..n
      BY <1>12, <1>13
    <3> QED BY <1>6, <1>10, <1>12, <3>1 DEF YoungerIn
  <2> QED BY <2>1, <2>2
<1>15. ToSet(st) \subseteq ToSet(store) \cup ToSet(ids)
  <2>1. ToSet(st) \subseteq ToSet(all)
    BY <1>6, <1>12, <1>13 DEF ToSet
  <2> QED BY <1>4, <1>5, <2>1
<1>16. created' \in [Ids -> 0..LastTick] /\ since' \in [Calls -> SUBSET Ids]
  <2>1. ToSet(ids) \subseteq Ids
    BY <1>6 DEF ToSet
  <2> QED BY <1>1, <1>2, <2>1
<1>17. \A c \in Calls : IsFiniteSet(since'[c])
  <2>1. IsFiniteSet(ToSet(ids))
    BY InjectiveSize
  <2> SUFFICES ASSUME NEW c \in Calls PROVE IsFiniteSet(since'[c])
    OBVIOUS
  <2>2. IsFiniteSet(since[c] \cup ToSet(ids))
    BY <2>1, FS_Union
  <2> QED BY <1>2, <2>2, FS_EmptySet
<1>18. ASSUME NEW c \in Calls, <<c, 0>> \in ToSet(all)
       PROVE  <<c, 0>> \in ToSet(st) \/ Cardinality(since'[c]) >= MaxItems
  <2>1. PICK i \in 1..n : all[i] = <<c, 0>>
    BY <1>6, <1>18 DEF ToSet
  <2>2. CASE i > d
    <3>1. i - d \in 1..Len(st) /\ d + (i - d) = i
      BY <1>6, <1>11, <1>12, <2>2
    <3>2. st[i - d] = <<c, 0>>
      BY <1>12, <2>1, <3>1
    <3> QED BY <1>13, <3>1, <3>2 DEF ToSet
  <2>3. CASE ~(i > d)
    <3>1. Len(st) = MaxItems
      BY <1>6, <1>11, <1>12, <2>3
    <3>2. ToSet(st) \subseteq since'[c]
      <4> SUFFICES ASSUME NEW k \in 1..Len(st) PROVE st[k] \in since'[c]
        BY <1>13 DEF ToSet
      <4>1. i < d + k /\ d + k \in 1..n
        BY <1>12, <1>13, <2>3
      <4> QED BY <1>6, <1>10, <1>12, <2>1, <4>1 DEF YoungerIn
    <3>3. Cardinality(ToSet(st)) = MaxItems
      BY <1>12, <1>14, <3>1, InjectiveSize
    <3>4. Cardinality(ToSet(st)) <= Cardinality(since'[c])
      BY <1>17, <3>2, FS_Subset
    <3> QED BY <3>3, <3>4
  <2> QED BY <1>6, <1>11, <2>2, <2>3
<1>19. ASSUME NEW c \in Calls, <<c, 0>> \in ToSet(ids) \/ TextReads(c)
       PROVE  TextReads(c)'
  <2>0. <<c, 0>> \in Ids
    BY ToolResultsAssumption DEF Ids
  <2>1. CASE <<c, 0>> \in ToSet(all)
    BY <1>2, <1>18, <2>1 DEF TextReads
  <2>2. CASE <<c, 0>> \notin ToSet(all)
    <3>1. <<c, 0>> \notin ToSet(ids) /\ <<c, 0>> \notin ToSet(store) \ gone
      BY <1>4, <1>5, <2>2
    <3>2. created'[<<c, 0>>] = created[<<c, 0>>] /\ since'[c] = since[c] \cup ToSet(ids)
      BY <1>2, <2>0, <3>1
    <3>3. CASE _expired(<<c, 0>>)
      BY <3>2, <3>3 DEF TextReads, _expired
    <3>4. CASE Cardinality(since[c]) >= MaxItems
      <4>1. Cardinality(since[c]) <= Cardinality(since'[c])
        BY <1>17, <3>2, FS_Subset
      <4>2. Cardinality(since[c]) \in Nat /\ Cardinality(since'[c]) \in Nat
        BY <1>17, FS_CardinalityType
      <4>3. Cardinality(since'[c]) >= MaxItems
        BY <1>6, <3>4, <4>1, <4>2
      <4> QED BY <4>3, ToolResultsAssumption DEF TextReads
    <3> QED BY <1>19, <2>0, <3>1, <3>3, <3>4 DEF TextReads, gone
  <2> QED BY <2>1, <2>2
<1> QED
  BY <1>2, <1>11, <1>12, <1>14, <1>15, <1>16, <1>17, <1>19

(***************************************************************************)
(* What get does to them.                                                  *)
(***************************************************************************)
LEMMA GetKeeps ==
    ASSUME ResultsTypeOK, YoungerIn(store, since), \A c \in Calls : IsFiniteSet(since[c]),
           NEW id \in Ids, get(id), UNCHANGED <<clock, created>>
    PROVE  /\ store' \in Seq(Ids) /\ IsInjective(store') /\ Len(store') <= MaxItems
           /\ ToSet(store') \subseteq ToSet(store)
           /\ since' \in [Calls -> SUBSET Ids]
           /\ YoungerIn(store', since')
           /\ \A c \in Calls : IsFiniteSet(since'[c])
           /\ \A c \in Calls : TextReads(c) => TextReads(c)'
<1> DEFINE r == Without(store, id)
           m == Len(r)
<1>1. /\ store \in Seq(Ids) /\ IsInjective(store) /\ Len(store) <= MaxItems
      /\ since \in [Calls -> SUBSET Ids] /\ Len(store) \in Nat /\ MaxItems \in Nat
  BY ToolResultsAssumption DEF ResultsTypeOK
<1>2. /\ r \in Seq(Ids) /\ IsInjective(r) /\ ToSet(r) = ToSet(store) \ {id} /\ m <= Len(store)
      /\ YoungerIn(r, since)
  BY <1>1, RemovedFacts, RemovedYounger DEF Without
<1>3. id \in ToSet(store)
  BY <1>1 DEF get, Contains, ToSet
<1> HIDE DEF r
<1>4. CASE _expired(id)
  <2>1. store' = r /\ since' = since
    BY <1>4 DEF get, r
  <2>2. ASSUME NEW c \in Calls, TextReads(c) PROVE TextReads(c)'
    <3>1. CASE <<c, 0>> = id
      BY <1>4, <3>1 DEF TextReads, _expired
    <3>2. CASE <<c, 0>> # id
      BY <1>2, <2>1, <2>2, <3>2 DEF TextReads, _expired
    <3> QED BY <3>1, <3>2
  <2>3. m <= MaxItems
    BY <1>1, <1>2
  <2> QED BY <1>1, <1>2, <2>1, <2>2, <2>3
<1>5. CASE ~_expired(id)
  <2> DEFINE st == Append(r, id)
  <2>1. /\ store' = st
        /\ since' = [c \in Calls |-> IF <<c, 0>> = id THEN {} ELSE since[c] \cup {id}]
    BY <1>5 DEF get, r, Used
  <2>2. m \in Nat /\ DOMAIN r = 1..m
    BY <1>2
  <2>3. /\ st \in Seq(Ids) /\ Len(st) = m + 1 /\ st[m + 1] = id
        /\ \A i \in 1..m : st[i] = r[i]
        /\ DOMAIN st = 1..(m + 1)
    BY <1>2
  <2> HIDE DEF st, m
  <2>4. \A i \in 1..(m + 1) : i \in 1..m \/ i = m + 1
    BY <2>2
  <2>5. \A i \in 1..m : r[i] # id /\ r[i] \in ToSet(store) /\ i \in 1..(m + 1)
    BY <1>2, <2>2 DEF ToSet
  <2>6. ToSet(st) = ToSet(store)
    <3>1. ToSet(st) \subseteq ToSet(store)
      BY <1>3, <2>3, <2>4, <2>5 DEF ToSet
    <3>2. ASSUME NEW x \in ToSet(store) PROVE x \in ToSet(st)
      <4>1. CASE x = id
        <5>1. m + 1 \in DOMAIN st
          BY <2>2, <2>3
        <5> QED BY <2>3, <4>1, <5>1 DEF ToSet
      <4>2. CASE x # id
        <5>1. PICK i \in 1..m : r[i] = x
          BY <1>2, <2>2, <3>2, <4>2 DEF ToSet
        <5>2. i \in DOMAIN st /\ st[i] = x
          BY <2>3, <2>5, <5>1
        <5> QED BY <5>2 DEF ToSet
      <4> QED BY <4>1, <4>2
    <3> QED BY <3>1, <3>2
  <2>7. IsInjective(st)
    <3> SUFFICES ASSUME NEW i \in 1..(m + 1), NEW k \in 1..(m + 1), st[i] = st[k]
                 PROVE  i = k
      BY <2>3 DEF IsInjective
    <3>1. CASE i \in 1..m /\ k \in 1..m
      BY <1>2, <2>2, <2>3, <3>1 DEF IsInjective
    <3> QED BY <2>3, <2>4, <2>5, <3>1
  <2>8. m < Len(store)
    <3>1. Cardinality(ToSet(st)) = m + 1 /\ Cardinality(ToSet(store)) = Len(store)
      BY <1>1, <2>3, <2>7, InjectiveSize
    <3> QED BY <1>1, <2>2, <2>6, <3>1
  <2>9. YoungerIn(st, since')
    <3> SUFFICES ASSUME NEW c \in Calls, NEW i \in 1..(m + 1), NEW k \in 1..(m + 1), i < k,
                        st[i] = <<c, 0>>
                 PROVE  st[k] \in since'[c]
      BY <2>3 DEF YoungerIn
    <3>1. i \in 1..m
      BY <2>2
    <3>2. st[i] = r[i] /\ <<c, 0>> # id /\ since'[c] = since[c] \cup {id}
      BY <2>1, <2>3, <2>5, <3>1
    <3>3. CASE k \in 1..m
      <4>1. r[k] \in since[c]
        BY <1>2, <2>2, <3>1, <3>2, <3>3 DEF YoungerIn
      <4> QED BY <2>3, <3>2, <3>3, <4>1
    <3>4. CASE k = m + 1
      BY <2>3, <3>2, <3>4
    <3> QED BY <2>4, <3>3, <3>4
  <2>10. \A c \in Calls : IsFiniteSet(since'[c])
    BY <2>1, FS_EmptySet, FS_AddElement
  <2>11. since' \in [Calls -> SUBSET Ids]
    BY <1>1, <2>1
  <2>12. ASSUME NEW c \in Calls, TextReads(c) PROVE TextReads(c)'
    <3>1. CASE <<c, 0>> \in ToSet(store)
      BY <2>1, <2>6, <3>1 DEF TextReads
    <3>2. CASE _expired(<<c, 0>>)
      BY <3>2 DEF TextReads, _expired
    <3>3. CASE <<c, 0>> \notin ToSet(store) /\ Cardinality(since[c]) >= MaxItems
      <4>1. since'[c] = since[c] \cup {id}
        BY <1>3, <2>1, <3>3
      <4>2. Cardinality(since[c]) <= Cardinality(since'[c])
        BY <2>10, <4>1, FS_Subset
      <4>3. Cardinality(since[c]) \in Nat /\ Cardinality(since'[c]) \in Nat
        BY <2>10, FS_CardinalityType
      <4>4. Cardinality(since'[c]) >= MaxItems
        BY <1>1, <3>3, <4>2, <4>3
      <4> QED BY <4>4 DEF TextReads
    <3> QED BY <2>12, <3>1, <3>2, <3>3 DEF TextReads
  <2>13. Len(st) <= MaxItems
    BY <1>1, <2>2, <2>3, <2>8
  <2> QED BY <2>1, <2>3, <2>6, <2>7, <2>9, <2>10, <2>11, <2>12, <2>13
<1> QED
  BY <1>4, <1>5

-----------------------------------------------------------------------------
(* What the budget does to pages.                                          *)

\* sh shows the pages ps as budget_pages cuts them, and mk are those it cut.
Budgeted(ps, sh, mk) ==
    /\ sh \in Seq(Nat) /\ Len(sh) = Len(ps)
    /\ \A p \in DOMAIN ps : sh[p] <= IF p \in WithText(ps) THEN Share(ps) ELSE 0
    /\ mk \subseteq WithText(ps)
    /\ \A p \in mk : sh[p] \in PageCaps \/ sh[p] = Share(ps)

LEMMA PagesFacts ==
    ASSUME NEW ps \in Pages
    PROVE  /\ ps \in Seq(Nat) /\ Len(ps) \in Nat /\ Len(ps) <= MaxPages
           /\ DOMAIN ps = 1..Len(ps) /\ 1..Len(ps) \subseteq 1..MaxPages
           /\ WithText(ps) \subseteq 1..Len(ps) /\ IsFiniteSet(WithText(ps))
           /\ Cardinality(WithText(ps)) \in Nat
           /\ WithText(ps) # {} => Cardinality(WithText(ps)) > 0
<1>1. PICK m \in 0..MaxPages : ps \in [1..m -> Lengths]
  BY DEF Pages, BoundedSeq, SeqOf
<1>2. m \in Nat /\ m <= MaxPages /\ Lengths \subseteq Nat /\ MaxPages \in Nat
  BY ToolResultsAssumption
<1>3. ps \in Seq(Nat) /\ Len(ps) = m /\ DOMAIN ps = 1..m
  <2>1. ps \in [1..m -> Nat]
    BY <1>1, <1>2
  <2> QED BY <1>2, <2>1
<1>4. WithText(ps) \subseteq 1..m
  BY <1>3 DEF WithText
<1>5. IsFiniteSet(1..m)
  BY <1>2, FS_Interval
<1>6. IsFiniteSet(WithText(ps)) /\ Cardinality(WithText(ps)) \in Nat
  BY <1>4, <1>5, FS_Subset, FS_CardinalityType
<1>7. WithText(ps) # {} => Cardinality(WithText(ps)) # 0
  BY <1>6, FS_EmptySet
<1>8. 1..m \subseteq 1..MaxPages
  BY <1>2
<1> QED
  BY <1>2, <1>3, <1>4, <1>6, <1>7, <1>8

(***************************************************************************)
(* A share is not less than an even part of the ceiling, and all of them   *)
(* exceed the ceiling by no more than the minimum makes them.              *)
(***************************************************************************)
LEMMA ShareFacts ==
    ASSUME NEW ps \in Pages, WithText(ps) # {}
    PROVE  LET n == Cardinality(WithText(ps))
           IN  /\ usable \in Nat /\ usable \div n \in Nat
               /\ Share(ps) \in Nat /\ usable \div n <= Share(ps)
               /\ n * Share(ps) <= Larger(usable, n * MinPageTokens)
<1> DEFINE n == Cardinality(WithText(ps))
           q == usable \div n
<1>1. n \in Nat /\ n > 0
  BY PagesFacts
<1>2. MinPageTokens \in Nat \ {0} /\ MaxTokens \in Nat /\ 100 - Reserve \in Nat
  BY ToolResultsAssumption
<1>3. usable \in Nat
  <2> DEFINE x == MaxTokens * (100 - Reserve)
  <2>1. x \in Nat
    BY <1>2
  <2> HIDE DEF x
  <2>2. x \div 100 \in Nat
    BY <2>1
  <2> QED BY <1>2, <2>2 DEF usable, Larger, x
<1> HIDE DEF n
<1>4. q \in Nat /\ n * q <= usable
  BY <1>1, <1>3
<1> HIDE DEF q
<1>5. Share(ps) = IF q > MinPageTokens THEN q ELSE MinPageTokens
  BY DEF Share, Larger, q, n
<1>6. Share(ps) \in Nat /\ q <= Share(ps)
  BY <1>2, <1>4, <1>5
<1>7. n * Share(ps) <= Larger(usable, n * MinPageTokens)
  <2>1. n * MinPageTokens \in Nat /\ n * q \in Nat
    BY <1>1, <1>2, <1>4
  <2> DEFINE a == n * MinPageTokens
             b == n * q
  <2>2. n * Share(ps) = a \/ n * Share(ps) = b
    BY <1>5
  <2>3. a \in Nat /\ b \in Nat /\ b <= usable
    BY <1>4, <2>1
  <2> HIDE DEF a, b
  <2>4. a <= Larger(usable, a) /\ b <= Larger(usable, a)
    BY <1>3, <2>3 DEF Larger
  <2> QED BY <2>2, <2>4 DEF a
<1> QED
  BY <1>3, <1>4, <1>6, <1>7 DEF n, q

LEMMA BudgetKeeps ==
    ASSUME ResultsTypeOK, NEW c \in Calls, NEW ps \in Pages, NEW caps, caps \subseteq PageCaps,
           Budget(c, ps, caps)
    PROVE  /\ pages' \in [Calls -> Pages] /\ shown' \in [Calls -> Seq(Nat)]
           /\ marks' \in [Calls -> SUBSET (1..MaxPages)]
           /\ Budgeted(pages'[c], shown'[c], marks'[c])
           /\ \A d \in Calls \ {c} : /\ pages'[d] = pages[d] /\ shown'[d] = shown[d]
                                     /\ marks'[d] = marks[d]
<1> DEFINE sh == [p \in DOMAIN ps |-> IF ps[p] = 0 THEN 0 ELSE Min({ps[p], Share(ps)} \cup caps)]
           mk == {p \in DOMAIN ps : sh[p] < ps[p]}
<1>1. /\ pages \in [Calls -> Pages] /\ shown \in [Calls -> Seq(Nat)]
      /\ marks \in [Calls -> SUBSET (1..MaxPages)]
  BY DEF ResultsTypeOK
<1>2. /\ pages' = [pages EXCEPT ![c] = ps] /\ shown' = [shown EXCEPT ![c] = sh]
      /\ marks' = [marks EXCEPT ![c] = {p \in DOMAIN ps : shown'[c][p] < ps[p]}]
  BY DEF Budget
<1> HIDE DEF sh
<1>3. shown'[c] = sh
  BY <1>1, <1>2
<1>4. marks' = [marks EXCEPT ![c] = mk]
  BY <1>2, <1>3
<1>5. /\ ps \in Seq(Nat) /\ Len(ps) \in Nat /\ DOMAIN ps = 1..Len(ps)
      /\ 1..Len(ps) \subseteq 1..MaxPages
  BY PagesFacts
<1>6. ASSUME NEW p \in DOMAIN ps
      PROVE  /\ sh[p] \in Nat
             /\ p \notin WithText(ps) => sh[p] = 0 /\ p \notin mk
             /\ p \in WithText(ps) =>
                  /\ sh[p] <= Share(ps)
                  /\ sh[p] = ps[p] \/ sh[p] = Share(ps) \/ sh[p] \in PageCaps
  <2>1. ps[p] \in Nat
    BY <1>5
  <2>2. CASE p \notin WithText(ps)
    <3>1. ps[p] = 0
      BY <2>1, <2>2 DEF WithText
    <3>2. sh[p] = 0
      BY <3>1 DEF sh
    <3> QED BY <2>2, <3>1, <3>2
  <2>3. CASE p \in WithText(ps)
    <3> DEFINE U == {ps[p], Share(ps)} \cup caps
    <3>1. Share(ps) \in Nat
      BY <2>3, ShareFacts
    <3>2. U \subseteq Nat /\ U # {} /\ Share(ps) \in U
      BY <2>1, <3>1, ToolResultsAssumption
    <3>3. sh[p] = Min(U)
      BY <2>3 DEF sh, WithText
    <3>4. \A x \in U : x = ps[p] \/ x = Share(ps) \/ x \in PageCaps
      OBVIOUS
    <3> HIDE DEF U
    <3>5. Min(U) \in U /\ Min(U) <= Share(ps)
      BY <3>2, MinFacts
    <3> QED BY <2>3, <3>2, <3>3, <3>4, <3>5
  <2> QED BY <2>2, <2>3
<1>7. sh \in Seq(Nat) /\ Len(sh) = Len(ps)
  <2>1. sh \in [1..Len(ps) -> Nat]
    BY <1>5, <1>6 DEF sh
  <2> QED BY <1>5, <2>1
<1>8. mk \subseteq WithText(ps) /\ mk \subseteq 1..MaxPages
      /\ \A p \in mk : sh[p] \in PageCaps \/ sh[p] = Share(ps)
  <2> SUFFICES ASSUME NEW p \in mk
               PROVE  /\ p \in WithText(ps) /\ p \in 1..MaxPages
                      /\ sh[p] \in PageCaps \/ sh[p] = Share(ps)
    OBVIOUS
  <2>1. p \in DOMAIN ps /\ sh[p] < ps[p] /\ ps[p] \in Nat
    BY <1>5
  <2>2. sh[p] # ps[p]
    BY <2>1, <1>6
  <2> QED BY <1>5, <1>6, <2>1, <2>2
<1>9. \A p \in DOMAIN ps : sh[p] <= IF p \in WithText(ps) THEN Share(ps) ELSE 0
  BY <1>6
<1> HIDE DEF mk
<1>10. Budgeted(ps, sh, mk)
  BY <1>7, <1>8, <1>9 DEF Budgeted
<1>11. pages'[c] = ps /\ marks'[c] = mk
  BY <1>1, <1>2, <1>4
<1> QED
  BY <1>1, <1>2, <1>3, <1>4, <1>7, <1>8, <1>10, <1>11

-----------------------------------------------------------------------------
(* The invariant.                                                          *)

\* An id is stored by the call it is of: its text before the tokens are
\* counted, its captures after.
Minted ==
    \A c \in Calls :
        /\ <<c, 0>> \in ToSet(store) => stage[c] \in {"counting", "done", "gone"}
        /\ \A p \in 1..MaxPages : <<c, p>> \in ToSet(store) => stage[c] = "done"

\* What was cut from a result was stored before its tokens are counted.
CutIsStored ==
    \A c \in Calls : stage[c] \in {"counting", "done"} /\ marks[c] # {} => TextReads(c)

(***************************************************************************)
(* What holds between two steps of the tools.                              *)
(***************************************************************************)
ResultsInv ==
    /\ ResultsTypeOK
    /\ Minted
    /\ YoungerIn(store, since) /\ \A c \in Calls : IsFiniteSet(since[c])
    /\ CutIsStored
    /\ \A c \in Calls : stage[c] \in {"idle", "serving"} => marks[c] = {}
    /\ \A c \in Calls : Budgeted(pages[c], shown[c], marks[c])

THEOREM ResultsStarts == ResultsInit => ResultsInv
<1> SUFFICES ASSUME ResultsInit PROVE ResultsInv
  OBVIOUS
<1>1. <<>> \in Pages
  <2>1. <<>> \in [1..0 -> Lengths] /\ 0 \in 0..MaxPages
    BY ToolResultsAssumption
  <2> QED BY <2>1 DEF Pages, BoundedSeq, SeqOf
<1>2. store = <<>> /\ ToSet(store) = {}
  BY DEF ResultsInit, ToSet
<1>3. ResultsTypeOK
  <2>1. 0 \in 0..LastTick
    BY ToolResultsAssumption
  <2>2. store \in Seq(Ids) /\ IsInjective(store) /\ Len(store) <= MaxItems
    BY <1>2, ToolResultsAssumption DEF IsInjective
  <2>3. shown \in [Calls -> Seq(Nat)] /\ \A c \in Calls : Len(shown[c]) = Len(pages[c])
    BY DEF ResultsInit
  <2>4. created \in [Ids -> 0..LastTick] /\ since \in [Calls -> SUBSET Ids] /\ clock \in 0..LastTick
    BY <2>1 DEF ResultsInit
  <2>5. job \in [Calls -> [status : {"none", "running", "completed", "failed"}, pages : Pages]]
    BY <1>1 DEF ResultsInit, NoJob
  <2>6. /\ tool \in [Calls -> Tools \cup {NoTool}]
        /\ stage \in [Calls -> {"idle", "serving", "parking", "counting"} \cup Over]
        /\ pages \in [Calls -> Pages]
        /\ marks \in [Calls -> SUBSET (1..MaxPages)]
        /\ captured \in [Calls -> SUBSET (1..MaxPages)]
    BY <1>1 DEF ResultsInit
  <2> QED BY <2>2, <2>3, <2>4, <2>5, <2>6 DEF ResultsTypeOK
<1>4. Minted /\ YoungerIn(store, since)
  BY <1>2 DEF Minted, YoungerIn
<1>5. \A c \in Calls : IsFiniteSet(since[c])
  BY FS_EmptySet DEF ResultsInit
<1>6. CutIsStored /\ \A c \in Calls : stage[c] \in {"idle", "serving"} => marks[c] = {}
  BY DEF ResultsInit, CutIsStored
<1>7. \A c \in Calls : Budgeted(pages[c], shown[c], marks[c])
  BY DEF ResultsInit, Budgeted
<1> QED
  BY <1>3, <1>4, <1>5, <1>6, <1>7 DEF ResultsInv

\* Where a step takes a call, and what it may do to its marks.
Moves(c) ==
    \/ stage'[c] = stage[c] /\ marks'[c] = marks[c]
    \/ /\ stage[c] \in {"idle", "serving"} /\ stage'[c] \in {"serving", "done", "refused"}
       /\ marks'[c] = marks[c]
    \/ stage[c] \in {"idle", "serving"} /\ stage'[c] = "parking"
    \/ stage[c] = "parking" /\ stage'[c] = "counting" /\ marks'[c] = marks[c]
    \/ stage[c] = "counting" /\ stage'[c] = "done" /\ marks'[c] = marks[c]
    \/ stage'[c] = "gone" /\ stage[c] # "done" /\ marks'[c] = marks[c]

(***************************************************************************)
(* What a step owes the invariant, whatever it does to the store.          *)
(***************************************************************************)
LEMMA StepKeeps ==
    ASSUME ResultsInv, ResultsTypeOK', \A c \in Calls : Moves(c),
           \A c \in Calls : Budgeted(pages'[c], shown'[c], marks'[c]),
           YoungerIn(store', since'), \A c \in Calls : IsFiniteSet(since'[c]),
           \A c \in Calls : TextReads(c) => TextReads(c)',
           \A c \in Calls : /\ stage[c] = "parking" /\ stage'[c] = "counting" /\ marks[c] # {}
                            => TextReads(c)',
           \A c \in Calls : /\ <<c, 0>> \in ToSet(store') \ ToSet(store)
                            => stage[c] = "parking" /\ stage'[c] = "counting",
           \A c \in Calls : \A p \in 1..MaxPages :
               <<c, p>> \in ToSet(store') \ ToSet(store) => stage'[c] = "done"
    PROVE  ResultsInv'
<1>1. /\ Minted /\ CutIsStored
      /\ \A c \in Calls : stage[c] \in {"idle", "serving"} => marks[c] = {}
  BY DEF ResultsInv
<1>2. Minted'
  <2> SUFFICES ASSUME NEW c \in Calls
               PROVE  /\ <<c, 0>> \in ToSet(store') => stage'[c] \in {"counting", "done", "gone"}
                      /\ \A p \in 1..MaxPages : <<c, p>> \in ToSet(store') => stage'[c] = "done"
    BY DEF Minted
  <2>1. Moves(c) /\ (<<c, 0>> \in ToSet(store) => stage[c] \in {"counting", "done", "gone"})
    BY <1>1 DEF Minted
  <2>2. <<c, 0>> \in ToSet(store') => stage'[c] \in {"counting", "done", "gone"}
    BY <2>1 DEF Moves
  <2>3. ASSUME NEW p \in 1..MaxPages, <<c, p>> \in ToSet(store') PROVE stage'[c] = "done"
    <3>1. CASE <<c, p>> \in ToSet(store)
      BY <1>1, <2>1, <3>1 DEF Minted, Moves
    <3> QED BY <2>3, <3>1
  <2> QED BY <2>2, <2>3
<1>3. CutIsStored'
  <2> SUFFICES ASSUME NEW c \in Calls, stage'[c] \in {"counting", "done"}, marks'[c] # {}
               PROVE  TextReads(c)'
    BY DEF CutIsStored
  <2>1. Moves(c)
    OBVIOUS
  <2>2. \/ stage[c] \in {"counting", "done"} /\ marks[c] # {}
        \/ stage[c] = "parking" /\ stage'[c] = "counting" /\ marks[c] # {}
    BY <1>1, <2>1 DEF Moves
  <2> QED BY <1>1, <2>2 DEF CutIsStored
<1>4. \A c \in Calls : stage'[c] \in {"idle", "serving"} => marks'[c] = {}
  BY <1>1 DEF Moves
<1> QED
  BY <1>2, <1>3, <1>4 DEF ResultsInv

(***************************************************************************)
(* ... and what one owes it that leaves the store alone.                   *)
(***************************************************************************)
LEMMA QuietKeeps ==
    ASSUME ResultsInv, UNCHANGED <<clock, store, created, since>>, ResultsTypeOK',
           \A c \in Calls : Moves(c),
           \A c \in Calls : Budgeted(pages'[c], shown'[c], marks'[c]),
           \A c \in Calls : stage[c] = "parking" /\ stage'[c] = "counting" => marks[c] = {}
    PROVE  ResultsInv'
<1>1. YoungerIn(store, since) /\ \A c \in Calls : IsFiniteSet(since[c])
  BY DEF ResultsInv
<1>2. \A c \in Calls : TextReads(c) => TextReads(c)'
  BY DEF TextReads, _expired
<1>3. /\ YoungerIn(store', since') /\ \A c \in Calls : IsFiniteSet(since'[c])
      /\ ToSet(store') \ ToSet(store) = {}
  BY <1>1
<1> QED
  BY <1>2, <1>3, StepKeeps

\* The call c is moved, alone.
MovedTo(c, where) ==
    /\ tool' \in [Calls -> Tools \cup {NoTool}]
    /\ stage' \in [Calls -> {"idle", "serving", "parking", "counting"} \cup Over]
    /\ stage'[c] = where /\ \A d \in Calls \ {c} : stage'[d] = stage[d]

LEMMA CallMoves ==
    ASSUME ResultsTypeOK, NEW c \in Calls,
           NEW where \in {"idle", "serving", "parking", "counting"} \cup Over
    PROVE  /\ MoveTo(c, where) => MovedTo(c, where)
           /\ \A name : Enter(c, name, where) => stage[c] = "idle" /\ MovedTo(c, where)
<1>1. /\ tool \in [Calls -> Tools \cup {NoTool}]
      /\ stage \in [Calls -> {"idle", "serving", "parking", "counting"} \cup Over]
  BY DEF ResultsTypeOK
<1>2. ASSUME MoveTo(c, where) PROVE MovedTo(c, where)
  BY <1>1, <1>2 DEF MoveTo, MovedTo
<1>3. ASSUME NEW name, Enter(c, name, where) PROVE stage[c] = "idle" /\ MovedTo(c, where)
  BY <1>1, <1>3 DEF Enter, MovedTo
<1> QED
  BY <1>2, <1>3

(***************************************************************************)
(* A call that moves and shows nothing new.                                *)
(***************************************************************************)
LEMMA MoveKeeps ==
    ASSUME ResultsInv, NEW c \in Calls, NEW where, MovedTo(c, where), Moves(c),
           stage[c] = "parking" /\ where = "counting" => marks[c] = {},
           captured' \in [Calls -> SUBSET (1..MaxPages)],
           job' \in [Calls -> [status : {"none", "running", "completed", "failed"}, pages : Pages]],
           UNCHANGED <<clock, pages, shown, marks, store, created, since>>
    PROVE  ResultsInv'
<1>1. ResultsTypeOK /\ \A d \in Calls : Budgeted(pages[d], shown[d], marks[d])
  BY DEF ResultsInv
<1>2. ResultsTypeOK'
  BY <1>1 DEF ResultsTypeOK, MovedTo
<1>3. \A d \in Calls : Moves(d)
  BY DEF MovedTo, Moves
<1>4. \A d \in Calls : Budgeted(pages'[d], shown'[d], marks'[d])
  BY <1>1
<1>5. \A d \in Calls : stage[d] = "parking" /\ stage'[d] = "counting" => marks[d] = {}
  BY DEF MovedTo
<1> QED
  BY <1>2, <1>3, <1>4, <1>5, QuietKeeps

(***************************************************************************)
(* A call that gets pages, and goes on to park what the budget cuts.       *)
(***************************************************************************)
LEMMA BudgetMoves ==
    ASSUME ResultsInv, NEW c \in Calls, NEW ps \in Pages, NEW caps, caps \subseteq PageCaps,
           Budget(c, ps, caps), stage[c] \in {"idle", "serving"}, MovedTo(c, "parking"),
           UNCHANGED <<clock, captured, job, store, created, since>>
    PROVE  ResultsInv'
<1>1. ResultsTypeOK /\ \A d \in Calls : Budgeted(pages[d], shown[d], marks[d])
  BY DEF ResultsInv
<1>2. /\ pages' \in [Calls -> Pages] /\ shown' \in [Calls -> Seq(Nat)]
      /\ marks' \in [Calls -> SUBSET (1..MaxPages)]
      /\ Budgeted(pages'[c], shown'[c], marks'[c])
      /\ \A d \in Calls \ {c} : /\ pages'[d] = pages[d] /\ shown'[d] = shown[d]
                                /\ marks'[d] = marks[d]
  BY <1>1, BudgetKeeps
<1>3. \A d \in Calls : Budgeted(pages'[d], shown'[d], marks'[d])
  BY <1>1, <1>2
<1>4. \A d \in Calls : Len(shown'[d]) = Len(pages'[d])
  BY <1>3 DEF Budgeted
<1>5. ResultsTypeOK'
  BY <1>1, <1>2, <1>4 DEF ResultsTypeOK, MovedTo
<1>6. \A d \in Calls : Moves(d)
  BY <1>2 DEF MovedTo, Moves
<1>7. \A d \in Calls : stage[d] = "parking" /\ stage'[d] = "counting" => marks[d] = {}
  BY DEF MovedTo
<1> QED
  BY <1>3, <1>5, <1>6, <1>7, QuietKeeps

LEMMA CapturesFacts ==
    ASSUME ResultsTypeOK, NEW c \in Calls
    PROVE  /\ Captures(c) \in Seq(Ids) /\ IsInjective(Captures(c))
           /\ ToSet(Captures(c)) = {<<c, p>> : p \in captured[c]}
<1> DEFINE all == [p \in 1..MaxPages |-> <<c, p>>]
           gone == {<<c, p>> : p \in (1..MaxPages) \ captured[c]}
<1>1. MaxPages \in Nat /\ captured[c] \subseteq 1..MaxPages
  BY ToolResultsAssumption DEF ResultsTypeOK
<1>2. all \in [1..MaxPages -> Ids]
  BY <1>1 DEF Ids
<1>3. all \in Seq(Ids) /\ DOMAIN all = 1..MaxPages
  <2> HIDE DEF all
  <2> QED BY <1>1, <1>2
<1>4. IsInjective(all)
  BY DEF IsInjective
<1>5. ToSet(all) = {<<c, p>> : p \in 1..MaxPages}
  BY DEF ToSet
<1>6. {<<c, p>> : p \in 1..MaxPages} \ gone = {<<c, p>> : p \in captured[c]}
  BY <1>1
<1>7. Captures(c) = Removed(all, gone)
  BY DEF Captures
<1> HIDE DEF all, gone
<1> QED
  BY <1>3, <1>4, <1>5, <1>6, <1>7, RemovedFacts

(***************************************************************************)
(* A call that parks its text, or its captures.                            *)
(***************************************************************************)
LEMMA ParkMoves ==
    ASSUME ResultsInv, NEW c \in Calls, NEW where, MovedTo(c, where), NEW ids, Park(ids),
           \/ stage[c] = "parking" /\ where = "counting" /\ ids = <<<<c, 0>>>>
           \/ stage[c] = "counting" /\ where = "done" /\ ids = Captures(c),
           UNCHANGED <<clock, pages, shown, marks, captured, job>>
    PROVE  ResultsInv'
<1>1. /\ ResultsTypeOK /\ Minted
      /\ YoungerIn(store, since) /\ \A d \in Calls : IsFiniteSet(since[d])
      /\ \A d \in Calls : Budgeted(pages[d], shown[d], marks[d])
  BY DEF ResultsInv
<1>2. captured[c] \subseteq 1..MaxPages /\ 0 \notin 1..MaxPages
  BY <1>1 DEF ResultsTypeOK
<1>3. /\ ids \in Seq(Ids) /\ IsInjective(ids)
      /\ ToSet(ids) = IF where = "counting" THEN {<<c, 0>>} ELSE {<<c, p>> : p \in captured[c]}
  <2>1. CASE where = "counting"
    <3>1. <<c, 0>> \in Ids /\ ids = <<<<c, 0>>>>
      BY <2>1, ToolResultsAssumption DEF Ids
    <3> QED BY <2>1, <3>1 DEF IsInjective, ToSet
  <2>2. CASE where # "counting"
    BY <1>1, <2>2, CapturesFacts
  <2> QED BY <2>1, <2>2
<1>4. ToSet(ids) \cap ToSet(store) = {}
  <2>1. <<c, 0>> \in ToSet(store) => stage[c] # "parking"
    BY <1>1 DEF Minted
  <2>2. \A p \in 1..MaxPages : <<c, p>> \in ToSet(store) => stage[c] = "done"
    BY <1>1 DEF Minted
  <2> QED BY <1>2, <1>3, <2>1, <2>2
<1>5. \A d \in Calls : <<d, 0>> \in ToSet(ids) => ids = <<<<d, 0>>>> /\ d = c /\ where = "counting"
  BY <1>2, <1>3
<1>6. /\ store' \in Seq(Ids) /\ IsInjective(store') /\ Len(store') <= MaxItems
      /\ ToSet(store') \subseteq ToSet(store) \cup ToSet(ids)
      /\ created' \in [Ids -> 0..LastTick] /\ since' \in [Calls -> SUBSET Ids]
      /\ YoungerIn(store', since')
      /\ \A d \in Calls : IsFiniteSet(since'[d])
      /\ \A d \in Calls : <<d, 0>> \in ToSet(ids) \/ TextReads(d) => TextReads(d)'
  BY <1>1, <1>3, <1>4, <1>5, ParkKeeps
<1>7. ResultsTypeOK'
  BY <1>1, <1>6 DEF ResultsTypeOK, MovedTo
<1>8. \A d \in Calls : Moves(d)
  BY DEF MovedTo, Moves
<1>9. \A d \in Calls : Budgeted(pages'[d], shown'[d], marks'[d])
  BY <1>1
<1>10. \A d \in Calls : /\ stage[d] = "parking" /\ stage'[d] = "counting" /\ marks[d] # {}
                        => TextReads(d)'
  <2> SUFFICES ASSUME NEW d \in Calls, stage[d] = "parking", stage'[d] = "counting"
               PROVE  <<d, 0>> \in ToSet(ids)
    BY <1>6
  <2>1. d = c /\ where = "counting"
    BY DEF MovedTo
  <2> QED BY <1>3, <2>1
<1>11. \A d \in Calls : /\ <<d, 0>> \in ToSet(store') \ ToSet(store)
                        => stage[d] = "parking" /\ stage'[d] = "counting"
  BY <1>5, <1>6 DEF MovedTo
<1>12. \A d \in Calls : \A p \in 1..MaxPages :
           <<d, p>> \in ToSet(store') \ ToSet(store) => stage'[d] = "done"
  <2> SUFFICES ASSUME NEW d \in Calls, NEW p \in 1..MaxPages, <<d, p>> \in ToSet(ids)
               PROVE  stage'[d] = "done"
    BY <1>6
  <2>1. d = c /\ where # "counting"
    BY <1>2, <1>3
  <2> QED BY <2>1 DEF MovedTo
<1> QED
  BY <1>6, <1>7, <1>8, <1>9, <1>10, <1>11, <1>12, StepKeeps

THEOREM ResultsStep == ResultsInv /\ [ResultsNext]_resultsVars => ResultsInv'
<1> SUFFICES ASSUME ResultsInv, [ResultsNext]_resultsVars PROVE ResultsInv'
  OBVIOUS
<1> DEFINE Jobs == [Calls -> [status : {"none", "running", "completed", "failed"}, pages : Pages]]
<1>1. /\ ResultsTypeOK /\ \A d \in Calls : Budgeted(pages[d], shown[d], marks[d])
      /\ captured \in [Calls -> SUBSET (1..MaxPages)] /\ job \in Jobs
  BY DEF ResultsInv, ResultsTypeOK
<1> HIDE DEF Jobs
<1>2. ASSUME NEW c \in Calls, RefuseCall(c) PROVE ResultsInv'
  <2>1. stage[c] = "idle" /\ MovedTo(c, "refused")
    BY <1>1, <1>2, CallMoves DEF RefuseCall, Over
  <2>2. Moves(c)
    BY <1>2, <2>1 DEF Moves, MovedTo, RefuseCall
  <2> QED BY <1>1, <1>2, <2>1, <2>2, MoveKeeps DEF RefuseCall, Jobs
<1>3. ASSUME NEW c \in Calls, AskService(c) PROVE ResultsInv'
  <2>1. stage[c] = "idle" /\ MovedTo(c, "serving")
    BY <1>1, <1>3, CallMoves DEF AskService
  <2>2. Moves(c)
    BY <1>3, <2>1 DEF Moves, MovedTo, AskService
  <2> QED BY <1>1, <1>3, <2>1, <2>2, MoveKeeps DEF AskService, Jobs
<1>4. ASSUME NEW c \in Calls, fetch_url(c) PROVE ResultsInv'
  <2>1. PICK capture \in {"none", "screenshot", "pdf"} :
           /\ Enter(c, "fetch_url",
                    IF capture # "none" /\ ImageMode = "off" THEN "refused" ELSE "serving")
           /\ \E some \in IF Linked(capture) THEN SUBSET (1..MaxUrls) ELSE {{}} :
                captured' = [captured EXCEPT ![c] = some]
    BY <1>4 DEF fetch_url
  <2>2. PICK some \in SUBSET (1..MaxUrls) : captured' = [captured EXCEPT ![c] = some]
    <3>1. PICK some \in IF Linked(capture) THEN SUBSET (1..MaxUrls) ELSE {{}} :
             captured' = [captured EXCEPT ![c] = some]
      BY <2>1
    <3>2. some \in SUBSET (1..MaxUrls)
      BY <3>1
    <3> QED BY <3>1, <3>2
  <2>3. captured' \in [Calls -> SUBSET (1..MaxPages)]
    <3>1. some \in SUBSET (1..MaxPages)
      <4>1. MaxUrls \in Nat /\ MaxPages \in Nat /\ MaxUrls <= MaxPages
        BY ToolResultsAssumption
      <4> QED BY <4>1
    <3> QED BY <1>1, <2>2, <3>1
  <2>4. PICK where \in {"refused", "serving"} : Enter(c, "fetch_url", where)
    BY <2>1
  <2>5. stage[c] = "idle" /\ MovedTo(c, where)
    BY <1>1, <2>4, CallMoves DEF Over
  <2>6. Moves(c)
    BY <1>4, <2>5 DEF Moves, MovedTo, fetch_url
  <2> QED BY <1>1, <1>4, <2>3, <2>5, <2>6, MoveKeeps DEF fetch_url, Jobs
<1>5. ASSUME NEW c \in Calls, deep_research_estimate(c) PROVE ResultsInv'
  <2>1. stage[c] = "idle" /\ MovedTo(c, "done")
    BY <1>1, <1>5, CallMoves DEF deep_research_estimate, Over
  <2>2. Moves(c)
    BY <1>5, <2>1 DEF Moves, MovedTo, deep_research_estimate
  <2> QED BY <1>1, <1>5, <2>1, <2>2, MoveKeeps DEF deep_research_estimate, Jobs
<1>6. ASSUME NEW c \in Calls, crawl_site(c) PROVE ResultsInv'
  <2>1. PICK where \in {"refused", "done"} : Enter(c, "crawl_site", where)
    BY <1>6 DEF crawl_site
  <2>2. stage[c] = "idle" /\ MovedTo(c, where)
    BY <1>1, <2>1, CallMoves DEF Over
  <2>3. Moves(c)
    BY <1>6, <2>2 DEF Moves, MovedTo, crawl_site
  <2>4. job' \in Jobs
    <3>1. <<>> \in Pages
      <4>1. <<>> \in [1..0 -> Lengths] /\ 0 \in 0..MaxPages
        BY ToolResultsAssumption
      <4> QED BY <4>1 DEF Pages, BoundedSeq, SeqOf
    <3> QED BY <1>1, <1>6, <3>1 DEF crawl_site, Jobs
  <2> QED BY <1>1, <1>6, <2>2, <2>3, <2>4, MoveKeeps DEF crawl_site, Jobs
<1>7. ASSUME NEW c \in Calls, job_status(c) PROVE ResultsInv'
  <2>1. PICK d \in Calls :
          \/ Enter(c, "job_status", "refused") /\ UNCHANGED <<pages, shown, marks>>
          \/ Enter(c, "job_status", "done") /\ UNCHANGED <<pages, shown, marks>>
          \/ Enter(c, "job_status", "parking") /\ Budget(c, job[d].pages, {})
    BY <1>7 DEF job_status
  <2>2. UNCHANGED <<clock, captured, job, store, created, since>>
    BY <1>7 DEF job_status
  <2>3. CASE Enter(c, "job_status", "parking") /\ Budget(c, job[d].pages, {})
    <3>1. stage[c] = "idle" /\ MovedTo(c, "parking")
      BY <1>1, <2>3, CallMoves
    <3>2. job[d].pages \in Pages
      BY <1>1 DEF Jobs
    <3> QED BY <2>2, <2>3, <3>1, <3>2, BudgetMoves
  <2>4. ASSUME NEW where \in {"refused", "done"}, Enter(c, "job_status", where),
               UNCHANGED <<pages, shown, marks>>
        PROVE  ResultsInv'
    <3>1. stage[c] = "idle" /\ MovedTo(c, where)
      BY <1>1, <2>4, CallMoves DEF Over
    <3>2. Moves(c)
      BY <2>4, <3>1 DEF Moves, MovedTo
    <3> QED BY <1>1, <2>2, <2>4, <3>1, <3>2, MoveKeeps DEF Jobs
  <2> QED BY <2>1, <2>3, <2>4
<1>8. ASSUME NEW c \in Calls, Served(c) PROVE ResultsInv'
  <2>1. PICK ps \in Pages : \E caps \in SUBSET PageCaps : Budget(c, ps, caps)
    <3>1. PICK ps \in Pages : \/ web_search(c, ps) \/ map_site(c, ps) \/ answer(c, ps)
                              \/ extract_structured(c, ps) \/ Fetched(c, ps)
      BY <1>8 DEF Served
    <3>2. CASE Fetched(c, ps)
      <4>1. PICK cap \in PageCaps : Budget(c, ps, {cap})
        BY <3>2 DEF Fetched
      <4>2. {cap} \in SUBSET PageCaps
        OBVIOUS
      <4> QED BY <4>1, <4>2
    <3>3. CASE Budget(c, ps, {})
      <4>1. {} \in SUBSET PageCaps
        OBVIOUS
      <4> QED BY <3>3, <4>1
    <3> QED BY <3>1, <3>2, <3>3 DEF web_search, map_site, answer, extract_structured
  <2>2. PICK caps \in SUBSET PageCaps : Budget(c, ps, caps)
    BY <2>1
  <2>3. stage[c] = "serving" /\ MovedTo(c, "parking")
    BY <1>1, <1>8, CallMoves DEF Served
  <2> QED BY <1>8, <2>2, <2>3, BudgetMoves DEF Served
<1>9. ASSUME NEW c \in Calls, ServiceFails(c) PROVE ResultsInv'
  <2>1. stage[c] = "serving" /\ MovedTo(c, "refused")
    BY <1>1, <1>9, CallMoves DEF ServiceFails, Over
  <2>2. Moves(c)
    BY <1>9, <2>1 DEF Moves, MovedTo, ServiceFails
  <2> QED BY <1>1, <1>9, <2>1, <2>2, MoveKeeps DEF ServiceFails, Jobs
<1>10. ASSUME NEW c \in Calls, Parked(c) PROVE ResultsInv'
  <2>1. stage[c] = "parking" /\ MovedTo(c, "counting")
    BY <1>1, <1>10, CallMoves DEF Parked
  <2>2. CASE marks[c] = {}
    <3>1. Moves(c)
      BY <1>10, <2>1 DEF Moves, MovedTo, Parked
    <3> QED BY <1>1, <1>10, <2>1, <2>2, <3>1, MoveKeeps DEF Parked, Jobs
  <2>3. CASE marks[c] # {}
    <3>1. Park(<<<<c, 0>>>>)
      BY <1>10, <2>3 DEF Parked
    <3> QED BY <1>10, <2>1, <3>1, ParkMoves DEF Parked
  <2> QED BY <2>2, <2>3
<1>11. ASSUME NEW c \in Calls, CountTokens(c) PROVE ResultsInv'
  <2>1. stage[c] = "counting" /\ MovedTo(c, "done")
    BY <1>1, <1>11, CallMoves DEF CountTokens, Over
  <2>2. CASE captured[c] = {}
    <3>1. Moves(c)
      BY <1>11, <2>1 DEF Moves, MovedTo, CountTokens
    <3> QED BY <1>1, <1>11, <2>1, <2>2, <3>1, MoveKeeps DEF CountTokens, Jobs
  <2>3. CASE captured[c] # {}
    <3>1. Park(Captures(c))
      BY <1>11, <2>3 DEF CountTokens
    <3> QED BY <1>11, <2>1, <3>1, ParkMoves DEF CountTokens
  <2> QED BY <2>2, <2>3
<1>12. ASSUME NEW c \in Calls, Cancel(c) PROVE ResultsInv'
  <2>1. stage[c] \in {"serving", "parking", "counting"} /\ MovedTo(c, "gone")
    BY <1>1, <1>12, CallMoves DEF Cancel, Over
  <2>2. Moves(c)
    BY <1>12, <2>1 DEF Moves, MovedTo, Cancel
  <2> QED BY <1>1, <1>12, <2>1, <2>2, MoveKeeps DEF Cancel, Jobs
<1>13. ASSUME NEW c \in Calls, JobEnds(c) \/ JobEvicted(c) PROVE ResultsInv'
  <2>1. job' \in Jobs
    <3>1. CASE JobEnds(c)
      BY <1>1, <3>1 DEF JobEnds, Jobs
    <3>2. CASE JobEvicted(c)
      <4>1. <<>> \in [1..0 -> Lengths] /\ 0 \in 0..MaxPages
        BY ToolResultsAssumption
      <4>2. NoJob.pages \in Pages
        BY <4>1 DEF NoJob, Pages, BoundedSeq, SeqOf
      <4> QED BY <1>1, <3>2, <4>2 DEF JobEvicted, NoJob, Jobs
    <3> QED BY <1>13, <3>1, <3>2
  <2>2. UNCHANGED <<clock, tool, stage, pages, shown, marks, captured, store, created, since>>
    BY <1>13 DEF JobEnds, JobEvicted
  <2>3. ResultsTypeOK'
    BY <1>1, <2>1, <2>2 DEF ResultsTypeOK, Jobs
  <2> QED BY <1>1, <2>2, <2>3, QuietKeeps DEF Moves
<1>14. ASSUME NEW id \in Ids, Read(id) PROVE ResultsInv'
  <2>1. UNCHANGED <<clock, tool, stage, pages, shown, marks, captured, job, created>> /\ get(id)
    BY <1>14 DEF Read
  <2>2. YoungerIn(store, since) /\ \A d \in Calls : IsFiniteSet(since[d])
    BY DEF ResultsInv
  <2>3. /\ store' \in Seq(Ids) /\ IsInjective(store') /\ Len(store') <= MaxItems
        /\ ToSet(store') \subseteq ToSet(store)
        /\ since' \in [Calls -> SUBSET Ids]
        /\ YoungerIn(store', since')
        /\ \A d \in Calls : IsFiniteSet(since'[d])
        /\ \A d \in Calls : TextReads(d) => TextReads(d)'
    BY <1>1, <2>1, <2>2, GetKeeps
  <2>4. ResultsTypeOK'
    BY <1>1, <2>1, <2>3 DEF ResultsTypeOK
  <2>5. \A d \in Calls : Moves(d) /\ Budgeted(pages'[d], shown'[d], marks'[d])
    BY <1>1, <2>1 DEF Moves
  <2>6. \A d \in Calls : ~(stage[d] = "parking" /\ stage'[d] = "counting")
    BY <2>1
  <2>7. ToSet(store') \ ToSet(store) = {}
    BY <2>3
  <2> QED BY <2>3, <2>4, <2>5, <2>6, <2>7, StepKeeps
<1>15. ASSUME Elapse PROVE ResultsInv'
  <2>1. UNCHANGED <<tool, stage, pages, shown, marks, captured, job, store, created, since>>
        /\ clock' = clock + 1 /\ clock < LastTick
    BY <1>15 DEF Elapse
  <2>2. clock \in 0..LastTick /\ LastTick \in Nat /\ clock' \in 0..LastTick
    BY <1>1, <2>1, ToolResultsAssumption DEF ResultsTypeOK
  <2>3. ResultsTypeOK'
    BY <1>1, <2>1, <2>2 DEF ResultsTypeOK
  <2>4. ASSUME NEW d \in Calls, TextReads(d) PROVE TextReads(d)'
    <3>1. created[<<d, 0>>] \in Nat /\ Ttl \in Nat
      <4>1. <<d, 0>> \in Ids
        BY ToolResultsAssumption DEF Ids
      <4> QED BY <1>1, <4>1, ToolResultsAssumption DEF ResultsTypeOK
    <3>2. _expired(<<d, 0>>) => _expired(<<d, 0>>)'
      BY <2>1, <2>2, <3>1 DEF _expired
    <3> QED BY <2>1, <2>4, <3>2 DEF TextReads
  <2>5. \A d \in Calls : Moves(d) /\ Budgeted(pages'[d], shown'[d], marks'[d])
    BY <1>1, <2>1 DEF Moves
  <2>6. \A d \in Calls : ~(stage[d] = "parking" /\ stage'[d] = "counting")
    BY <2>1
  <2>7. YoungerIn(store', since') /\ (\A d \in Calls : IsFiniteSet(since'[d]))
        /\ ToSet(store') \ ToSet(store) = {}
    BY <2>1 DEF ResultsInv
  <2> QED BY <2>3, <2>4, <2>5, <2>6, <2>7, StepKeeps
<1>16. CASE UNCHANGED resultsVars
  <2>1. UNCHANGED <<clock, tool, stage, pages, shown, marks, captured, job, store, created, since>>
    BY <1>16 DEF resultsVars
  <2>2. ResultsTypeOK'
    BY <1>1, <2>1 DEF ResultsTypeOK
  <2> QED BY <1>1, <2>1, <2>2, QuietKeeps DEF Moves
<1> QED
  BY <1>2, <1>3, <1>4, <1>5, <1>6, <1>7, <1>8, <1>9, <1>10, <1>11, <1>12, <1>13, <1>14,
     <1>15, <1>16 DEF ResultsNext

(***************************************************************************)
(* Between any two steps of the calls and readers: what stands in the      *)
(* store is of calls that could have put it there, younger ids stand after *)
(* older ones, what was cut was stored first, and every result is within   *)
(* the shares of its pages.                                                *)
(***************************************************************************)
THEOREM ResultsInvariance == ResultsSpec => []ResultsInv
<1> QED
  BY ResultsStarts, ResultsStep, PTL DEF ResultsSpec

(***************************************************************************)
(* Every variable keeps its type; the store holds no id twice and no more  *)
(* than MaxItems, its order that of the last uses.                         *)
(***************************************************************************)
THEOREM ResultsTypeCorrect == ResultsSpec => []ResultsTypeOK
<1>1. ResultsInv => ResultsTypeOK
  BY DEF ResultsInv
<1> QED
  BY <1>1, ResultsInvariance, PTL

(***************************************************************************)
(* Whatever the size of the store, the time to live, the number of calls   *)
(* and the pages of each: what a marker of a delivered result names reads  *)
(* in full, until it is too old or MaxItems others were used after it.     *)
(***************************************************************************)
THEOREM CutsStayReadable == ResultsSpec => []CutTextIsReadable
<1>1. ASSUME ResultsInv PROVE CutTextIsReadable
  <2> SUFFICES ASSUME NEW c \in Calls, stage[c] = "done", NEW p \in marks[c]
               PROVE  \/ artifact_page(c, p) = pages[c][p]
                      \/ Ttl > 0 /\ clock - created[<<c, 0>>] > Ttl
                      \/ Cardinality(since[c]) >= MaxItems
    BY DEF CutTextIsReadable
  <2>1. TextReads(c)
    BY <1>1 DEF ResultsInv, CutIsStored
  <2>2. CASE <<c, 0>> \in ToSet(store) /\ ~_expired(<<c, 0>>)
    <3>1. Contains(store, <<c, 0>>)
      <4>1. store \in Seq(Ids)
        BY <1>1 DEF ResultsInv, ResultsTypeOK
      <4> QED BY <2>2, <4>1 DEF Contains, ToSet
    <3>2. p \in DOMAIN pages[c]
      BY <1>1 DEF ResultsInv, Budgeted, WithText
    <3> QED BY <2>2, <3>1, <3>2 DEF artifact_page
  <2> QED BY <2>1, <2>2 DEF TextReads, _expired
<1> QED
  BY <1>1, ResultsInvariance, PTL

(***************************************************************************)
(* Whatever the ceiling, the reserve, the minimum and the pages: the texts *)
(* that a result shows exceed the usable ceiling by no more than the       *)
(* minimum of its pages makes them, and the pages without text take none   *)
(* of it from the others.  Headings, markers and the lines of failed pages *)
(* are not in the sum.                                                     *)
(***************************************************************************)
THEOREM TextsKeepToCeiling == ResultsSpec => []TextsFit
<1>1. ASSUME ResultsInv PROVE TextsFit
  <2> SUFFICES ASSUME NEW c \in Calls
               PROVE  LET n == Cardinality(WithText(pages[c]))
                      IN  /\ Total(shown[c]) <= Larger(usable, n * MinPageTokens)
                          /\ \A p \in marks[c] : shown[c][p] >= Min({usable \div n} \cup PageCaps)
    BY DEF TextsFit
  <2> DEFINE ps == pages[c]
             sh == shown[c]
             W == WithText(ps)
             n == Cardinality(W)
  <2>1. ps \in Pages /\ Budgeted(ps, sh, marks[c])
    BY <1>1 DEF ResultsInv, ResultsTypeOK
  <2>2. /\ sh \in Seq(Nat) /\ Len(sh) = Len(ps) /\ DOMAIN ps = 1..Len(ps)
        /\ W \subseteq 1..Len(ps) /\ n \in Nat /\ MinPageTokens \in Nat
        /\ \A p \in 1..Len(ps) : sh[p] <= IF p \in W THEN Share(ps) ELSE 0
        /\ marks[c] \subseteq W
        /\ \A p \in marks[c] : sh[p] \in PageCaps \/ sh[p] = Share(ps)
    BY <2>1, PagesFacts, ToolResultsAssumption DEF Budgeted
  <2> HIDE DEF ps, sh, W
  <2>3. CASE W = {}
    <3>1. n = 0
      BY <2>3, FS_EmptySet
    <3>2. \A p \in 1..Len(sh) : sh[p] <= IF p \in W THEN 0 ELSE 0
      BY <2>2, <2>3
    <3>3. Total(sh) <= n * 0
      BY <2>2, <3>2, TotalsBounded
    <3>4. Total(sh) \in Nat
      BY <2>2, TotalsFacts
    <3>5. usable \in Nat
      <4> DEFINE x == MaxTokens * (100 - Reserve)
      <4>1. MaxTokens \in Nat /\ 100 - Reserve \in Nat
        BY ToolResultsAssumption
      <4>2. x \in Nat
        BY <4>1
      <4> HIDE DEF x
      <4>3. x \div 100 \in Nat
        BY <4>2
      <4> QED BY <2>2, <4>3 DEF usable, Larger, x
    <3>6. Total(sh) = 0 /\ n * MinPageTokens = 0
      BY <2>2, <3>1, <3>3, <3>4
    <3>7. 0 <= Larger(usable, 0)
      BY <3>5 DEF Larger
    <3>8. marks[c] = {}
      BY <2>2, <2>3
    <3> QED BY <3>6, <3>7, <3>8 DEF ps, sh, W
  <2>4. CASE W # {}
    <3>1. /\ usable \in Nat /\ usable \div n \in Nat
          /\ Share(ps) \in Nat /\ usable \div n <= Share(ps)
          /\ n * Share(ps) <= Larger(usable, n * MinPageTokens)
      BY <2>1, <2>4, ShareFacts DEF W
    <3>2. Total(sh) <= n * Share(ps) /\ Total(sh) \in Nat
      BY <2>2, <3>1, TotalsBounded, TotalsFacts
    <3> HIDE DEF n
    <3>3. Total(sh) <= Larger(usable, n * MinPageTokens)
      <4> DEFINE a == n * Share(ps)
                 b == n * MinPageTokens
      <4>1. a \in Nat /\ b \in Nat /\ Total(sh) <= a /\ a <= Larger(usable, b)
        BY <2>2, <3>1, <3>2
      <4> HIDE DEF a, b
      <4>2. Larger(usable, b) \in Nat
        BY <3>1, <4>1 DEF Larger
      <4>3. Total(sh) <= Larger(usable, b)
        BY <3>2, <4>1, <4>2
      <4> QED BY <4>3 DEF b
    <3>4. ASSUME NEW p \in marks[c]
          PROVE  sh[p] >= Min({usable \div n} \cup PageCaps)
      <4> DEFINE q == usable \div n
                 U == {q} \cup PageCaps
      <4>1. q \in Nat /\ q <= Share(ps)
        BY <3>1
      <4> HIDE DEF q
      <4>2. U \subseteq Nat /\ U # {} /\ q \in U /\ PageCaps \subseteq U
        BY <4>1, ToolResultsAssumption
      <4> HIDE DEF U
      <4>3. Min(U) \in Nat /\ \A x \in U : Min(U) <= x
        BY <4>2, MinFacts
      <4>4. sh[p] \in PageCaps \/ sh[p] = Share(ps)
        BY <2>2
      <4>5. CASE sh[p] \in PageCaps
        BY <4>2, <4>3, <4>5 DEF U, q
      <4>6. CASE sh[p] = Share(ps)
        <5>1. Min(U) <= q
          BY <4>2, <4>3
        <5>2. sh[p] >= Min(U)
          BY <3>1, <4>1, <4>3, <4>6, <5>1
        <5> QED BY <5>2 DEF U, q
      <4> QED BY <4>4, <4>5, <4>6
    <3> QED BY <3>3, <3>4 DEF ps, sh, W, n
  <2> QED BY <2>3, <2>4
<1> QED
  BY <1>1, ResultsInvariance, PTL
=============================================================================
