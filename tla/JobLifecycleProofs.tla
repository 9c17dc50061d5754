-------------------------- MODULE JobLifecycleProofs --------------------------
(***************************************************************************)
(* Proofs about JobLifecycle, for any set of jobs and either backend; in   *)
(* the second part about JobEventLog, the history that the same store keeps*)
(* of one job.                                                             *)
(***************************************************************************)
EXTENDS JobLifecycle, JobEventLog, Integers, FiniteSetTheorems, TLAPS

(***************************************************************************)
(* The inductive invariant: where the coroutine stands determines what the *)
(* client reads (Position) and bounds what the disk can hold (RowBehind),  *)
(* a pending cancellation only ever meets a task that has not settled      *)
(* (CancelTargets), and nothing survives in memory when the process is     *)
(* down (DownIsEmpty).                                                     *)
(***************************************************************************)
Position ==
    \A j \in Jobs :
        /\ task[j] = "unborn" => job[j] = "absent" /\ row[j] = "absent"
        /\ task[j] \in {"creating", "abandoned", "ready"} => job[j] = "pending"
        /\ task[j] \in {"starting", "working", "unwinding"} => job[j] = "running"
        /\ task[j] = "completing" => job[j] = "completed"
        /\ task[j] = "cancelling" => job[j] = "cancelled"
        /\ task[j] = "failing" => job[j] = "errored"
        /\ task[j] = "over" => job[j] \in Terminal \cup {"running"}
        /\ task[j] = "none" => job[j] \in Terminal \cup {"absent"}

RowBehind ==
    \A j \in Jobs : job[j] \in Live => row[j] \notin Terminal

CancelTargets ==
    \A j \in Jobs : cancelReq[j] =>
        /\ task[j] \notin Caller \cup Over \cup {"ready"}
        /\ phase = "up" => task[j] \in {"starting", "working", "unwinding"}

DownIsEmpty ==
    phase = "down" => /\ store = FALSE
                      /\ stamped = {}
                      /\ \A j \in Jobs : task[j] \in {"unborn", "none"}
                      /\ job = [j \in Jobs |-> "absent"]

IInv ==
    /\ TypeOK
    /\ StampedExactlyWhenSettled
    /\ Position
    /\ RowBehind
    /\ CancelTargets
    /\ DownIsEmpty
    /\ MirrorAgrees

-----------------------------------------------------------------------------
LEMMA InitIInv == Init => IInv
  BY DEF Init, IInv, TypeOK, StampedExactlyWhenSettled, Position, RowBehind,
         CancelTargets, DownIsEmpty, MirrorAgrees, Status, TaskState, Terminal,
         Failed, Live, Caller, Inside, Publishing, Settling, Over

LEMMA NextIInv == IInv /\ [Next]_vars => IInv'
<1> USE DEF IInv, TypeOK, StampedExactlyWhenSettled, Position, RowBehind,
            CancelTargets, DownIsEmpty, MirrorAgrees, Status, TaskState, Terminal,
            Failed, Live, Caller, Inside, Publishing, Settling, Over
<1> SUFFICES ASSUME IInv, [Next]_vars
             PROVE  IInv'
  OBVIOUS
<1>1. ASSUME NEW j \in Jobs, Create(j) PROVE IInv'
  BY <1>1 DEF Create, Without, Idle, Stale
<1>2. ASSUME NEW j \in Jobs, Abandon(j) PROVE IInv'
  BY <1>2 DEF Abandon
<1>3. ASSUME NEW j \in Jobs, Submit(j) PROVE IInv'
  BY <1>3 DEF Submit
<1>4. ASSUME NEW j \in Jobs, Cancel(j) PROVE IInv'
  BY <1>4 DEF Cancel, Cancellable, Known
<1>5. ASSUME NEW j \in Jobs, Begin(j) PROVE IInv'
  BY <1>5 DEF Begin
<1>6. ASSUME NEW j \in Jobs, EnterBody(j) PROVE IInv'
  BY <1>6 DEF EnterBody
<1>7. ASSUME NEW j \in Jobs, ThrowStarting(j) PROVE IInv'
  BY <1>7 DEF ThrowStarting
<1>8. ASSUME NEW j \in Jobs, ThrowBody(j) PROVE IInv'
  BY <1>8 DEF ThrowBody
<1>9. ASSUME NEW j \in Jobs, BodyUnwound(j) PROVE IInv'
  BY <1>9 DEF BodyUnwound, Settle
<1>10. ASSUME NEW j \in Jobs, ThrowUnwinding(j) PROVE IInv'
  BY <1>10 DEF ThrowUnwinding, Settle
<1>11. ASSUME NEW j \in Jobs, ThrowCompleting(j) PROVE IInv'
  BY <1>11 DEF ThrowCompleting, Settle
<1>12. ASSUME NEW j \in Jobs, Published(j) PROVE IInv'
  BY <1>12 DEF Published, Finally
<1>13. ASSUME NEW j \in Jobs, ThrowSettling(j) PROVE IInv'
  BY <1>13 DEF ThrowSettling, Finally
<1>14. ASSUME NEW j \in Jobs, BodyReturns(j) PROVE IInv'
  BY <1>14 DEF BodyReturns, Settle
<1>15. ASSUME NEW j \in Jobs, BodyRaises(j) PROVE IInv'
  BY <1>15 DEF BodyRaises, Settle
<1>16. ASSUME NEW j \in Jobs, Persist(j) PROVE IInv'
  BY <1>16 DEF Persist, Awaited
<1>17. ASSUME NEW j \in Jobs, PersistFails(j) PROVE IInv'
  BY <1>17 DEF PersistFails, Awaited
<1>18. ASSUME NEW j \in Jobs, Purge(j) PROVE IInv'
  BY <1>18 DEF Purge
<1>19. ASSUME Sweep PROVE IInv'
  BY <1>19 DEF Sweep, Without, Idle, Stale
<1>20. ASSUME Shutdown PROVE IInv'
  BY <1>20 DEF Shutdown
<1>21. ASSUME Close PROVE IInv'
  BY <1>21 DEF Close, ProcessEnds
<1>22. ASSUME Crash PROVE IInv'
  BY <1>22 DEF Crash, ProcessEnds
<1>23. ASSUME Start PROVE IInv'
  BY <1>23 DEF Start, Restore, Reconcile, Without
<1>24. ASSUME StartEmpty PROVE IInv'
  BY <1>24 DEF StartEmpty
<1>25. ASSUME UNCHANGED vars PROVE IInv'
  BY <1>25 DEF vars
<1> HIDE DEF IInv, TypeOK, StampedExactlyWhenSettled, Position, RowBehind,
            CancelTargets, DownIsEmpty, MirrorAgrees, Status, TaskState, Terminal,
            Failed, Live, Caller, Inside, Publishing, Settling, Over
<1> QED
  BY <1>1, <1>2, <1>3, <1>4, <1>5, <1>6, <1>7, <1>8, <1>9, <1>10, <1>11, <1>12, <1>13, <1>14, <1>15, <1>16, <1>17, <1>18, <1>19, <1>20, <1>21, <1>22, <1>23, <1>24, <1>25
  DEF Next, TaskStep, StoreStep

(***************************************************************************)
(* Every reachable state satisfies the inductive invariant.                *)
(***************************************************************************)
THEOREM Invariance == Spec => []IInv
  BY InitIInv, NextIInv, PTL DEF Spec

(***************************************************************************)
(* The variables keep their types, for any number of jobs.                 *)
(***************************************************************************)
THEOREM TypeCorrect == Spec => []TypeOK
<1>1. IInv => TypeOK
  BY DEF IInv
<1> QED
  BY <1>1, Invariance, PTL

(***************************************************************************)
(* The eviction clock runs exactly for the settled jobs.                   *)
(***************************************************************************)
THEOREM StampsAreExact == Spec => []StampedExactlyWhenSettled
<1>1. IInv => StampedExactlyWhenSettled
  BY DEF IInv
<1> QED
  BY <1>1, Invariance, PTL

(***************************************************************************)
(* The database never contradicts the table of a serving process.          *)
(***************************************************************************)
THEOREM MirrorIsFaithful == Spec => []MirrorAgrees
<1>1. IInv => MirrorAgrees
  BY DEF IInv
<1> QED
  BY <1>1, Invariance, PTL

(***************************************************************************)
(* No job is inherited as pending or running, whatever the crash left.     *)
(***************************************************************************)
THEOREM NothingInheritedIsLive == Spec => []InheritedJobsAreSettled
<1>1. IInv => InheritedJobsAreSettled
  BY DEF IInv, Position, InheritedJobsAreSettled, Terminal, Failed, Live
<1> QED
  BY <1>1, Invariance, PTL

-----------------------------------------------------------------------------
LEMMA OutcomeKept ==
  ASSUME IInv, [Next]_vars, phase = "up", phase' = "up",
         NEW i \in Jobs, job[i] \in Terminal
  PROVE  job'[i] \in {job[i], "absent"}
<1> USE DEF IInv, Position, Terminal, Failed
<1>1. CASE \E j \in Jobs : Create(j)
  BY <1>1 DEF Create, Without, TypeOK
<1>2. CASE Sweep
  BY <1>2 DEF Sweep, Without
<1>3. CASE \E j \in Jobs : Begin(j) \/ BodyReturns(j) \/ BodyRaises(j)
                          \/ BodyUnwound(j) \/ ThrowUnwinding(j)
  BY <1>3 DEF Begin, BodyReturns, BodyRaises, BodyUnwound, ThrowUnwinding, Settle, TypeOK
<1>4. CASE \E j \in Jobs : ThrowCompleting(j)
  BY <1>4 DEF ThrowCompleting, CancelTargets
<1>5. CASE UNCHANGED job
  BY <1>5
<1>6. CASE Shutdown \/ Close \/ Crash \/ Start \/ StartEmpty
  BY <1>6 DEF Shutdown, Close, Crash, ProcessEnds, Start, StartEmpty
<1> QED
  BY <1>1, <1>2, <1>3, <1>4, <1>5, <1>6
  DEF Next, vars, TaskStep, StoreStep, Abandon, Submit, Cancel, EnterBody,
      ThrowStarting, ThrowBody, Published, ThrowSettling, Finally,
      Persist, PersistFails, Purge

(***************************************************************************)
(* While the process serves, no step changes an outcome a client may have  *)
(* read, except by evicting the job.                                       *)
(***************************************************************************)
THEOREM OutcomesAreFinal == Spec => OutcomeIsFinal
<1>1. IInv /\ [Next]_vars =>
        [phase = "up" /\ phase' = "up" =>
           \A j \in Jobs : job[j] \in Terminal => job'[j] \in {job[j], "absent"}]_vars
  BY OutcomeKept
<1> QED
  BY <1>1, Invariance, PTL DEF Spec, OutcomeIsFinal

LEMMA RowKept ==
  ASSUME IInv, [Next]_vars, phase # "closing",
         NEW i \in Jobs, row[i] \in Terminal
  PROVE  row'[i] \in {row[i], "absent"}
<1> USE DEF IInv, TypeOK, Terminal, Failed
<1>1. CASE \E j \in Jobs : Persist(j)
  <2> PICK j \in Jobs : Persist(j)
    BY <1>1
  <2>1. CASE phase = "down"
    BY <2>1 DEF Persist, DownIsEmpty
  <2>2. CASE phase = "up"
    <3>1. job[j] # "absent"
      BY DEF Persist, Awaited, Position, Publishing, Settling
    <3>2. row[j] \in Terminal => row[j] = job[j]
      BY <2>2, <3>1 DEF MirrorAgrees
    <3> QED
      BY <3>2 DEF Persist
  <2> QED
    BY <2>1, <2>2
<1>2. CASE \E j \in Jobs : Purge(j)
  BY <1>2 DEF Purge
<1>3. CASE Start
  BY <1>3 DEF Start, Restore, Reconcile, Without, Live
<1>4. CASE UNCHANGED row
  BY <1>4
<1> QED
  BY <1>1, <1>2, <1>3, <1>4
  DEF Next, vars, TaskStep, StoreStep, Create, Abandon, Submit, Cancel, Begin,
      EnterBody, ThrowStarting, ThrowBody, BodyUnwound, ThrowUnwinding,
      ThrowCompleting, Published, ThrowSettling, Finally, BodyReturns, BodyRaises,
      PersistFails, Sweep, Shutdown, Close, Crash, ProcessEnds, StartEmpty

(***************************************************************************)
(* Outside a shutdown no step rewrites an outcome that reached the disk.   *)
(***************************************************************************)
THEOREM DurableOutcomesAreFinal == Spec => DurableOutcomeIsFinal
<1>1. IInv /\ [Next]_vars =>
        [phase # "closing" =>
           \A j \in Jobs : row[j] \in Terminal => row'[j] \in {row[j], "absent"}]_vars
  BY RowKept
<1> QED
  BY <1>1, Invariance, PTL DEF Spec, DurableOutcomeIsFinal

-----------------------------------------------------------------------------
(* Without an open store nothing is ever stranded.                         *)

NeverYields ==
    ~store => \A j \in Jobs :
        /\ task[j] \notin {"starting", "abandoned"}
        /\ task[j] = "over" => job[j] \in Terminal

LEMMA NeverYieldsStep ==
  ASSUME IInv, NeverYields, [Next]_vars
  PROVE  NeverYields'
<1> USE DEF IInv, TypeOK, NeverYields, Position, Terminal, Failed
<1>1. CASE \E j \in Jobs : Create(j)
  BY <1>1 DEF Create, Without, Idle, Stale
<1>2. CASE \E j \in Jobs : Submit(j) \/ Cancel(j) \/ Begin(j) \/ EnterBody(j)
  BY <1>2 DEF Submit, Cancel, Begin, EnterBody
<1>3. CASE \E j \in Jobs : \/ ThrowBody(j) \/ BodyUnwound(j) \/ ThrowUnwinding(j)
                          \/ ThrowCompleting(j) \/ BodyReturns(j) \/ BodyRaises(j)
  BY <1>3 DEF ThrowBody, BodyUnwound, ThrowUnwinding, ThrowCompleting,
              BodyReturns, BodyRaises, Settle
<1>4. CASE \E j \in Jobs : Published(j) \/ ThrowSettling(j)
  BY <1>4 DEF Published, ThrowSettling, Finally, Settling
<1>5. CASE \E j \in Jobs : Abandon(j) \/ Persist(j) \/ PersistFails(j)
  BY <1>5 DEF Abandon, Persist, PersistFails
<1>6. CASE \E j \in Jobs : ThrowStarting(j)
  BY <1>6 DEF ThrowStarting
<1>7. CASE (\E j \in Jobs : Purge(j)) \/ UNCHANGED vars
  BY <1>7 DEF Purge, vars
<1>8. CASE Shutdown
  BY <1>8 DEF Shutdown
<1>9. CASE Sweep
  BY <1>9 DEF Sweep, Without, Idle, Stale
<1>10. CASE Close \/ Crash
  BY <1>10 DEF Close, Crash, ProcessEnds
<1>11. CASE Start
  BY <1>11 DEF Start
<1>12. CASE StartEmpty
  BY <1>12 DEF StartEmpty, DownIsEmpty
<1> QED
  BY <1>1, <1>2, <1>3, <1>4, <1>5, <1>6, <1>7, <1>8, <1>9, <1>10, <1>11, <1>12
  DEF Next, TaskStep, StoreStep

(***************************************************************************)
(* In a process without an open store (JOB_BACKEND=memory, or a database   *)
(* that did not open) a task that ends has settled its job, so an accepted *)
(* DELETE is never lost, and whatever counts as active is worked on.       *)
(***************************************************************************)
THEOREM MemoryTasksSettle == Spec => []MemoryJobsSettle
<1>1. Init => NeverYields
  BY DEF Init, NeverYields
<1>2. IInv /\ NeverYields => MemoryJobsSettle
  BY DEF IInv, Position, NeverYields, MemoryJobsSettle, EndedTasksSettle,
         ActiveJobsHaveTasks, Live, Terminal, Failed, Over
<1>3. IInv /\ NeverYields /\ [Next]_vars => NeverYields'
  BY NeverYieldsStep
<1> QED
  BY <1>1, <1>2, <1>3, Invariance, PTL DEF Spec

-----------------------------------------------------------------------------
(* JobLifecycle implements JobContract.                                    *)

LEMMA Overlay ==
  ASSUME NEW S, NEW f, NEW g, NEW a \in S, NEW v,
         f = [i \in S |-> f[i]], g = [i \in S |-> g[i]],
         \A i \in S : f[i] = IF i = a THEN v ELSE g[i]
  PROVE  f = [g EXCEPT ![a] = v]
  OBVIOUS

LEMMA StepImplements ==
  ASSUME IInv, [Next]_vars
  PROVE  [Contract!Next]_(Contract!vars)
<1> DEFINE View  == [j \in Jobs |-> Shown(j)]
           Given == {j \in Jobs : task[j] # "unborn"}
<1> USE DEF IInv, TypeOK, Position, Shown, Terminal, Failed, Live, Status
<1> SUFFICES ASSUME ~UNCHANGED <<phase = "up", Given, View>>
             PROVE  Contract!Next
  BY DEF Contract!vars
<1>1. CASE \E j \in Jobs : Create(j)
  <2> PICK j \in Jobs : Create(j)
    BY <1>1
  <2> PICK stale \in SUBSET stamped :
        /\ job' = [Without(job, stale) EXCEPT ![j] = "pending"]
        /\ task' = [Idle(stale) EXCEPT ![j] = "creating"]
    BY DEF Create, Stale
  <2> DEFINE Rest == [i \in Jobs |-> IF i \in stale THEN "none" ELSE View[i]]
  <2>1. stale \in SUBSET {i \in Jobs : View[i] \in {"completed", "failed"}}
    BY DEF StampedExactlyWhenSettled, Create
  <2>2. Rest \in Contract!Forgotten
    BY <2>1 DEF Contract!Forgotten, Contract!Done
  <2>3. View' = [Rest EXCEPT ![j] = "pending"]
    <3>1. \A i \in Jobs : job'[i] = IF i = j THEN "pending"
                                    ELSE IF i \in stale THEN "absent" ELSE job[i]
      BY DEF Without
    <3>2. phase = "up" /\ phase' = "up"
      BY DEF Create
    <3>3. \A i \in Jobs : View'[i] = IF i = j THEN "pending" ELSE Rest[i]
      BY <3>1, <3>2
    <3>4. View' = [i \in Jobs |-> View'[i]] /\ Rest = [i \in Jobs |-> Rest[i]]
      OBVIOUS
    <3> HIDE DEF View, Rest
    <3> QED
      BY <3>3, <3>4, Overlay
  <2>4. Given' = Given \cup {j} /\ j \notin Given
    <3>1. \A i \in Jobs : task'[i] = IF i = j THEN "creating"
                                     ELSE IF i \in stale THEN "none" ELSE task[i]
      BY DEF Idle
    <3>2. \A i \in stale : task[i] # "unborn"
      BY DEF StampedExactlyWhenSettled, Over
    <3>3. task[j] = "unborn"
      BY DEF Create
    <3> QED
      BY <3>1, <3>2, <3>3
  <2>5. Contract!Accept(j)
    BY <2>2, <2>3, <2>4 DEF Contract!Accept, Create
  <2> QED
    BY <2>5 DEF Contract!Next
<1>2. CASE Sweep
  <2> PICK stale \in SUBSET stamped :
        job' = Without(job, stale) /\ task' = Idle(stale)
    BY <1>2 DEF Sweep, Stale
  <2>1. stale \in SUBSET {i \in Jobs : View[i] \in {"completed", "failed"}}
    BY <1>2 DEF StampedExactlyWhenSettled, Sweep
  <2>2. View' = [i \in Jobs |-> IF i \in stale THEN "none" ELSE View[i]]
    BY <1>2 DEF Sweep, Without
  <2>3. View' \in Contract!Forgotten
    BY <2>1, <2>2 DEF Contract!Forgotten, Contract!Done
  <2>4. Given' = Given
    BY <1>2 DEF Sweep, Idle, StampedExactlyWhenSettled, Over
  <2>5. Contract!Forget
    BY <1>2, <2>3, <2>4 DEF Contract!Forget, Sweep
  <2> QED
    BY <2>5 DEF Contract!Next
<1>3. CASE \E j \in Jobs : Begin(j)
  <2> PICK j \in Jobs : Begin(j)
    BY <1>3
  <2>1. Given' = Given
    BY DEF Begin
  <2>2. phase = "up" => View[j] = "pending" /\ View' = [View EXCEPT ![j] = "running"]
    BY DEF Begin
  <2>3. phase # "up" => View' = View
    BY DEF Begin
  <2> QED
    BY <2>1, <2>2, <2>3 DEF Begin, Contract!Run, Contract!Next
<1>4. CASE \E j \in Jobs : \/ BodyReturns(j) \/ BodyRaises(j)
                          \/ BodyUnwound(j) \/ ThrowUnwinding(j)
  <2> PICK j \in Jobs : BodyReturns(j) \/ BodyRaises(j) \/ BodyUnwound(j) \/ ThrowUnwinding(j)
    BY <1>4
  <2> USE DEF BodyReturns, BodyRaises, BodyUnwound, ThrowUnwinding, Settle
  <2>1. Given' = Given
    OBVIOUS
  <2>2. phase = "up" => /\ View[j] = "running"
                        /\ \E o \in {"completed", "failed"} : View' = [View EXCEPT ![j] = o]
    <3> HAVE phase = "up"
    <3>1. View[j] = "running" /\ phase' = "up"
      OBVIOUS
    <3>2. PICK out \in {"completed", "cancelled", "errored"} : job' = [job EXCEPT ![j] = out]
      OBVIOUS
    <3> DEFINE o == IF out = "completed" THEN out ELSE "failed"
    <3>3. \A i \in Jobs : View'[i] = IF i = j THEN o ELSE View[i]
      BY <3>1, <3>2
    <3>4. View' = [i \in Jobs |-> View'[i]] /\ View = [i \in Jobs |-> View[i]]
      OBVIOUS
    <3>5. o \in {"completed", "failed"}
      BY <3>2
    <3> HIDE DEF View, o
    <3>6. View' = [View EXCEPT ![j] = o]
      BY <3>3, <3>4, Overlay
    <3> QED
      BY <3>1, <3>5, <3>6
  <2>3. phase # "up" => View' = View
    OBVIOUS
  <2>4. UNCHANGED phase
    OBVIOUS
  <2> QED
    BY <2>1, <2>2, <2>3, <2>4 DEF Contract!Finish, Contract!Done, Contract!Next
<1>5. CASE \E j \in Jobs : ThrowCompleting(j)
  BY <1>5 DEF ThrowCompleting, Settle, CancelTargets
<1>6. CASE Shutdown \/ Close \/ Crash
  <2>1. Given' = Given
    BY <1>6 DEF Shutdown, Close, Crash, ProcessEnds
  <2>2. phase' # "up" /\ View' = [j \in Jobs |-> "none"]
    BY <1>6 DEF Shutdown, Close, Crash, ProcessEnds
  <2>3. phase # "up" => View = View'
    BY <2>2
  <2> QED
    BY <2>1, <2>2, <2>3 DEF Contract!Stop, Contract!Next
<1>7. CASE Start
  <2>1. Given' = Given
    BY <1>7 DEF Start
  <2>2. \A j \in Jobs : task[j] \in {"unborn", "none"}
    BY <1>7 DEF Start, DownIsEmpty
  <2>3. \A j \in Jobs : job'[j] \in Terminal \cup {"absent"}
    BY <1>7 DEF Start, Restore, Reconcile, Without
  <2>4. \A j \in Jobs \ Given : job'[j] = "absent"
    BY <1>7 DEF Start, Restore, Reconcile, Without
  <2>5. View' \in [Jobs -> {"completed", "failed", "none"}]
    BY <2>3, <1>7 DEF Start
  <2>6. \A j \in Jobs \ Given : View'[j] = "none"
    BY <2>4, <1>7 DEF Start
  <2> QED
    BY <1>7, <2>1, <2>5, <2>6 DEF Start, Contract!Return, Contract!Done, Contract!Next
<1>8. CASE StartEmpty
  <2>1. Given' = Given
    BY <1>8 DEF StartEmpty
  <2>2. View' = [j \in Jobs |-> "none"]
    BY <1>8 DEF StartEmpty, DownIsEmpty
  <2> QED
    BY <1>8, <2>1, <2>2 DEF StartEmpty, Contract!Return, Contract!Done, Contract!Next
<1>9. CASE \E j \in Jobs :
              \/ Abandon(j) \/ Submit(j) \/ Cancel(j) \/ EnterBody(j) \/ ThrowStarting(j)
              \/ ThrowBody(j) \/ Published(j) \/ ThrowSettling(j)
              \/ Persist(j) \/ PersistFails(j) \/ Purge(j)
  <2> USE <1>9 DEF Abandon, Submit, Cancel, EnterBody, ThrowStarting, ThrowBody,
                   Published, ThrowSettling, Finally, Persist, PersistFails, Purge
  <2>1. UNCHANGED <<phase, job>>
    BY Zenon
  <2>2. Given' = Given
    BY DEF Settling
  <2> QED
    BY <2>1, <2>2
<1>10. CASE UNCHANGED vars
  BY <1>10 DEF vars
<1> QED
  BY <1>1, <1>2, <1>3, <1>4, <1>5, <1>6, <1>7, <1>8, <1>9, <1>10
  DEF Next, TaskStep, StoreStep

(***************************************************************************)
(* Every behaviour of the manager, seen through GET /v1/jobs/{id}, is one  *)
(* JobContract allows.                                                     *)
(***************************************************************************)
THEOREM LifecycleImplementsContract == Spec => ImplementsContract
<1>1. Init => Contract!Init
  BY DEF Init, Contract!Init, Shown
<1>2. IInv /\ [Next]_vars => [Contract!Next]_(Contract!vars)
  BY StepImplements
<1> QED
  BY <1>1, <1>2, Invariance, PTL DEF Spec, ImplementsContract, Contract!Spec
-----------------------------------------------------------------------------
(***************************************************************************)
(* The persisted log of one job, JobEventLog, for any cap, any number of   *)
(* publishers and events, with and without failing statements.             *)
(***************************************************************************)
LogTypes ==
    /\ stage \in {"running", "settled", "down"}
    /\ n \in 0..MaxEvents
    /\ outcome \in 0..n
    /\ stray \in BOOLEAN
    /\ ring \in Seq(Events) /\ Len(ring) <= Cap
    /\ at \in [Events -> {"unborn", "done"} \cup Statements]
    /\ inbox \in Seq(Events)
    /\ dead \subseteq Events
    /\ written \in Nat
    /\ table \in Seq(Events)
    /\ status \in {"running", "settled"}
    /\ disk \in [table : Seq(Events), status : {"running", "settled"}]
    /\ failed \subseteq Events
    /\ skipped \subseteq Events
    /\ spared \in BOOLEAN

Rising(s) == \A i, k \in DOMAIN s : i < k => s[i] < s[k]

\* The thread has a publisher's statement at most once, and the INSERTs in the
\* order of the events.
Lined ==
    /\ \A e \in Elements(inbox) : e \in 1..n /\ at[e] \in Statements
    /\ \A i, k \in DOMAIN inbox : inbox[i] = inbox[k] => i = k
    /\ \A i, k \in DOMAIN inbox :
          i < k /\ at[inbox[i]] = "insert" /\ at[inbox[k]] = "insert"
            => inbox[i] < inbox[k]
    /\ \A e \in 1..n : at[e] # "unborn"
    /\ dead \subseteq 1..n
    /\ Elements(ring) \subseteq 1..n

\* The rows rise, and so do the INSERTs that wait after them.
Rows ==
    /\ Rising(table) /\ Elements(table) \subseteq 1..n
    /\ Rising(disk.table) /\ Elements(disk.table) \subseteq 1..n
    /\ \A x \in Elements(table), e \in Elements(inbox) : at[e] = "insert" => x < e
    /\ stage = "down" => table = disk.table

\* The events whose INSERT has been carried out, or has raised.
Inserted == {e \in 1..n : at[e] # "insert" \/ e \notin Elements(inbox)}

\* A row that was trimmed has Cap - 1 newer ones.
Kept ==
    stage # "down" => \A e \in Inserted \ skipped : e \notin Elements(table) =>
        /\ Len(table) >= Cap - 1
        /\ \A i \in DOMAIN table : i > Len(table) - (Cap - 1) => table[i] > e

\* An UPDATE with the settled status waits behind the outcome's INSERT, if that
\* waits at all: the status is settled after it.
Outcome ==
    /\ stage = "running" => outcome = 0
    /\ outcome # 0 /\ ~stray => n = outcome
    /\ \A k \in DOMAIN inbox : at[inbox[k]] = "settle" =>
         /\ outcome # 0
         /\ \A i \in DOMAIN inbox : inbox[i] = outcome /\ at[outcome] = "insert" => i < k
    /\ stage = "settled" => outcome # 0
    /\ stage # "down" /\ status = "settled" => outcome \in Inserted
    /\ disk.status = "settled" => outcome # 0
    /\ Cap > 1 => OutcomeLogged

-----------------------------------------------------------------------------
(* The bound of the table.  Counted are the rows that were counted before the *)
(* first DELETE that waits: one fewer than _written when none waits, and   *)
(* never more than the slack; every other row belongs to a publisher that  *)
(* is in flight or was cancelled.                                          *)

Waits(q, a) == \E e \in Elements(q) : a[e] = "prune"

After(q, a) == {q[k] : k \in {k \in DOMAIN q : \E i \in 1..k : a[q[i]] = "prune"}}

Pending == Waits(inbox, at)
Behind  == After(inbox, at)

Counted == {e \in Elements(table) : at[e] \notin {"insert", "commit"}} \ Behind

Bound ==
    /\ Cardinality(InFlight) <= Publishers
    /\ written <= Slack
    /\ Pending => written >= Cap
    /\ ~spared /\ stage # "down" => Cardinality(Counted) <= IF Pending THEN Slack ELSE written
    /\ ~spared => Len(disk.table) <= Slack + Publishers + Cardinality(dead)

LogInv == LogTypes /\ Lined /\ Rows /\ Kept /\ Outcome /\ Bound

-----------------------------------------------------------------------------
(* Sequences of events.                                                    *)

(***************************************************************************)
(* What Append and Tail do to the elements of a sequence.                  *)
(***************************************************************************)
LEMMA Appended ==
    ASSUME NEW S, NEW s \in Seq(S), NEW e \in S
    PROVE  /\ Append(s, e) \in Seq(S)
           /\ Len(s) \in Nat /\ DOMAIN s = 1..Len(s)
           /\ Len(Append(s, e)) = Len(s) + 1
           /\ DOMAIN Append(s, e) = 1..(Len(s) + 1)
           /\ \A i \in 1..Len(s) : Append(s, e)[i] = s[i]
           /\ Append(s, e)[Len(s) + 1] = e
           /\ Elements(Append(s, e)) = Elements(s) \cup {e}
<1>1. /\ Append(s, e) \in Seq(S)
      /\ Len(s) \in Nat /\ DOMAIN s = 1..Len(s)
      /\ Len(Append(s, e)) = Len(s) + 1
      /\ DOMAIN Append(s, e) = 1..(Len(s) + 1)
      /\ \A i \in 1..Len(s) : Append(s, e)[i] = s[i]
      /\ Append(s, e)[Len(s) + 1] = e
  OBVIOUS
<1>2. Elements(Append(s, e)) \subseteq Elements(s) \cup {e}
  BY <1>1 DEF Elements
<1>3. ASSUME NEW i \in 1..Len(s)
      PROVE  s[i] \in Elements(Append(s, e))
  BY <1>1 DEF Elements
<1>4. e \in Elements(Append(s, e))
  BY <1>1 DEF Elements
<1>5. Elements(s) \subseteq Elements(Append(s, e))
  BY <1>1, <1>3 DEF Elements
<1> QED
  BY <1>1, <1>2, <1>4, <1>5

LEMMA Beheaded ==
    ASSUME NEW S, NEW s \in Seq(S), s # <<>>
    PROVE  /\ Tail(s) \in Seq(S)
           /\ Len(s) \in Nat \ {0}
           /\ DOMAIN s = 1..Len(s)
           /\ Head(s) \in S
           /\ Head(s) = s[1]
           /\ Head(s) \in Elements(s)
           /\ Len(Tail(s)) = Len(s) - 1
           /\ DOMAIN Tail(s) = 1..(Len(s) - 1)
           /\ \A i \in 1..(Len(s) - 1) : Tail(s)[i] = s[i + 1]
           /\ Elements(Tail(s)) \subseteq Elements(s)
           /\ Elements(s) \subseteq {Head(s)} \cup Elements(Tail(s))
<1>1. /\ Tail(s) \in Seq(S)
      /\ Len(s) \in Nat \ {0}
      /\ DOMAIN s = 1..Len(s)
      /\ Head(s) \in S
      /\ Head(s) = s[1]
      /\ Len(Tail(s)) = Len(s) - 1
      /\ DOMAIN Tail(s) = 1..(Len(s) - 1)
      /\ \A i \in 1..(Len(s) - 1) : Tail(s)[i] = s[i + 1]
  OBVIOUS
<1>2. Elements(Tail(s)) \subseteq Elements(s)
  BY <1>1 DEF Elements
<1>3. ASSUME NEW i \in 1..Len(s)
      PROVE  s[i] \in {Head(s)} \cup Elements(Tail(s))
  <2>1. CASE i = 1
    BY <2>1, <1>1
  <2>2. CASE i # 1
    <3>1. i - 1 \in 1..(Len(s) - 1) /\ s[i] = Tail(s)[i - 1]
      BY <2>2, <1>1
    <3> QED
      BY <3>1, <1>1 DEF Elements
  <2> QED
    BY <2>1, <2>2
<1>4. Head(s) \in Elements(s)
  BY <1>1 DEF Elements
<1> QED
  BY <1>1, <1>2, <1>3, <1>4 DEF Elements

(***************************************************************************)
(* The newest k entries of a sequence are its last ones, in their order.   *)
(***************************************************************************)
LEMMA NewestFacts ==
    ASSUME NEW S, NEW s \in Seq(S), NEW k \in Nat
    PROVE  /\ Newest(s, k) \in Seq(S)
           /\ Len(s) \in Nat /\ DOMAIN s = 1..Len(s)
           /\ Len(Newest(s, k)) = IF Len(s) <= k THEN Len(s) ELSE k
           /\ DOMAIN Newest(s, k) = 1..Len(Newest(s, k))
           /\ \A i \in 1..Len(Newest(s, k)) :
                 /\ i + (Len(s) - Len(Newest(s, k))) \in 1..Len(s)
                 /\ Newest(s, k)[i] = s[i + (Len(s) - Len(Newest(s, k)))]
           /\ Elements(Newest(s, k)) \subseteq Elements(s)
<1>1. Len(s) \in Nat /\ DOMAIN s = 1..Len(s)
  OBVIOUS
<1>2. /\ Newest(s, k) \in Seq(S)
      /\ Len(Newest(s, k)) = IF Len(s) <= k THEN Len(s) ELSE k
      /\ DOMAIN Newest(s, k) = 1..Len(Newest(s, k))
      /\ \A i \in 1..Len(Newest(s, k)) :
            /\ i + (Len(s) - Len(Newest(s, k))) \in 1..Len(s)
            /\ Newest(s, k)[i] = s[i + (Len(s) - Len(Newest(s, k)))]
  <2>1. CASE Len(s) <= k
    BY <2>1, <1>1 DEF Newest
  <2>2. CASE ~(Len(s) <= k)
    <3> DEFINE a == Len(s) - k + 1
               t == SubSeq(s, a, Len(s))
    <3>1. a \in 1..(Len(s) + 1) /\ Newest(s, k) = t
      BY <2>2, <1>1 DEF Newest
    <3>2. /\ t \in Seq(S)
          /\ Len(t) = k
          /\ \A i \in 1..k : t[i] = s[i + (Len(s) - k)]
      BY <2>2, <1>1
    <3>3. DOMAIN t = 1..Len(t)
      BY <3>2
    <3> HIDE DEF t
    <3> QED
      BY <2>2, <1>1, <3>1, <3>2, <3>3
  <2> QED
    BY <2>1, <2>2
<1>3. Elements(Newest(s, k)) \subseteq Elements(s)
  BY <1>1, <1>2 DEF Elements
<1> QED
  BY <1>1, <1>2, <1>3

LEMMA NewestType ==
    ASSUME NEW S, NEW s \in Seq(S), NEW k \in Nat
    PROVE  /\ Newest(s, k) \in Seq(S)
           /\ Len(Newest(s, k)) <= k
           /\ Elements(Newest(s, k)) \subseteq Elements(s)
<1>1. Len(s) \in Nat /\ Len(Newest(s, k)) = IF Len(s) <= k THEN Len(s) ELSE k
  BY NewestFacts
<1> QED
  BY <1>1, NewestFacts

LEMMA NewestRises ==
    ASSUME NEW s \in Seq(Nat), Rising(s), NEW k \in Nat
    PROVE  Rising(Newest(s, k))
<1>1. ASSUME NEW i \in DOMAIN Newest(s, k), NEW j \in DOMAIN Newest(s, k), i < j
      PROVE  Newest(s, k)[i] < Newest(s, k)[j]
  <2> DEFINE d == Len(s) - Len(Newest(s, k))
  <2>a. /\ Len(s) \in Nat /\ Len(Newest(s, k)) \in Nat
        /\ i \in 1..Len(Newest(s, k)) /\ j \in 1..Len(Newest(s, k))
        /\ DOMAIN s = 1..Len(s)
    BY <1>1, NewestFacts
  <2>b. \A x \in 1..Len(Newest(s, k)) : x + d \in 1..Len(s) /\ Newest(s, k)[x] = s[x + d]
    BY NewestFacts
  <2>1. /\ i + d \in DOMAIN s /\ Newest(s, k)[i] = s[i + d]
        /\ j + d \in DOMAIN s /\ Newest(s, k)[j] = s[j + d]
        /\ i \in Nat /\ j \in Nat /\ d \in Int
    BY <2>a, <2>b
  <2> QED
    BY <2>1, <1>1 DEF Rising
<1> QED
  BY <1>1 DEF Rising

LEMMA RisingCount ==
    ASSUME NEW s \in Seq(Nat), Rising(s)
    PROVE  /\ IsFiniteSet(Elements(s))
           /\ Cardinality(Elements(s)) = Len(s)
<1>1. Len(s) \in Nat /\ DOMAIN s = 1..Len(s)
  OBVIOUS
<1>2. s \in Bijection(1..Len(s), Elements(s))
  <2>1. s \in [1..Len(s) -> Elements(s)]
    BY <1>1 DEF Elements
  <2>2. \A i, k \in 1..Len(s) : s[i] = s[k] => i = k
    BY <1>1 DEF Rising
  <2>3. \A x \in Elements(s) : \E i \in 1..Len(s) : s[i] = x
    BY <1>1 DEF Elements
  <2> QED
    BY <2>1, <2>2, <2>3 DEF Bijection, Injection, Surjection, IsInjective
<1>3. ExistsBijection(1..Len(s), Elements(s))
  BY <1>2 DEF ExistsBijection
<1> QED
  BY <1>1, <1>3, FS_CountingElements, FS_NatBijection

-----------------------------------------------------------------------------
(* The steps.                                                              *)

LEMMA SlackFacts == Slack \in Nat /\ Cap \in Nat \ {0} /\ Cap <= Slack /\ Publishers \in Nat \ {0}
BY EventLogAssumption DEF Slack

(***************************************************************************)
(* What an INSERT that is queued, a statement that is carried out, and a   *)
(* publisher that goes on change, and no more.                             *)
(***************************************************************************)
LogPublish ==
    /\ \/ stage \in {"running", "settled"} /\ (stage = "settled" => stray)
          /\ UNCHANGED <<stage, outcome, stray>>
       \/ /\ stage = "running" /\ stage' = "settled"
          /\ outcome' = n + 1 /\ stray' \in BOOLEAN
    /\ n < MaxEvents /\ n' = n + 1
    /\ ring' = Newest(Append(ring, n + 1), Cap)
    /\ at' = [at EXCEPT ![n + 1] = "insert"]
    /\ inbox' = Append(inbox, n + 1)
    /\ dead' \in {dead, dead \cup InFlight}
    /\ UNCHANGED <<written, table, status, disk, failed, skipped, spared>>

LogExecute ==
    /\ stage # "down" /\ inbox # <<>>
    /\ inbox' = Tail(inbox)
    /\ \/ /\ table' = CASE at[Head(inbox)] = "insert" -> Append(table, Head(inbox))
                        [] at[Head(inbox)] = "prune"  -> Prune
                        [] OTHER                      -> table
          /\ \/ status' \in {status, "running"}
             \/ status' = "settled" /\ at[Head(inbox)] = "settle"
          /\ disk' \in {disk, [table |-> table, status |-> status]}
          /\ UNCHANGED <<failed, skipped, spared>>
       \/ /\ UNCHANGED <<table, status, disk>>
          /\ failed' \subseteq failed \cup {Head(inbox)}
          /\ at[Head(inbox)] = "insert" => skipped' = skipped \cup {Head(inbox)}
          /\ at[Head(inbox)] # "insert" => skipped' = skipped
          /\ spared' = (spared \/ at[Head(inbox)] = "prune")
    /\ UNCHANGED <<stage, n, outcome, stray, ring, at, dead, written>>

LogResume(e) ==
    /\ stage # "down"
    /\ e \in 1..n /\ at[e] \in Statements /\ e \notin dead /\ e \notin Elements(inbox)
    /\ \/ \E s \in Statements \ {"insert"} :
             /\ at' = [at EXCEPT ![e] = s]
             /\ inbox' = Append(inbox, e)
             /\ s = "settle" => stage = "settled"
       \/ at' = [at EXCEPT ![e] = "done"] /\ UNCHANGED inbox
    /\ written' \in Nat
    /\ failed' = failed \ {e}
    /\ UNCHANGED <<stage, n, outcome, stray, ring, dead, table, status, disk, skipped, spared>>

LEMMA LogResumes ==
    ASSUME LogTypes, NEW e \in Events, Resume(e)
    PROVE  LogResume(e)
<1>1. \/ \E s \in Statements \ {"insert"} : Ask(e, s) /\ (s = "settle" => stage = "settled")
      \/ at' = [at EXCEPT ![e] = "done"] /\ UNCHANGED inbox
  <2>1. Update \in {"update", "settle"} /\ (Update = "settle" => stage = "settled")
    BY DEF Update
  <2> QED
    BY <2>1 DEF Resume, Commit, Count, Proceed, Statements
<1>2. written' \in Nat
  BY SlackFacts DEF Resume, Commit, Count, Proceed, LogTypes
<1> QED
  BY <1>1, <1>2 DEF Resume, Resumable, LogResume, Ask

LEMMA PublishSteps ==
    ASSUME LogTypes, Emit \/ Finish \/ Raise \/ CancelTask
    PROVE  LogPublish
<1>1. CASE Emit
  BY <1>1 DEF Emit, Publish, LogPublish
<1>2. CASE Finish \/ Raise \/ CancelTask
  <2>1. Conclude /\ stray' \in BOOLEAN /\ dead' \in {dead, dead \cup InFlight}
    BY <1>2 DEF Finish, Raise, CancelTask, LogTypes
  <2> QED
    BY <2>1 DEF Conclude, Publish, LogPublish
<1> QED
  BY <1>1, <1>2

LEMMA LogSteps ==
    ASSUME LogTypes, LogNext
    PROVE  LogPublish \/ LogExecute \/ (\E e \in Events : LogResume(e)) \/ LogCrash
<1>1. CASE Emit \/ Finish \/ Raise \/ CancelTask
  BY <1>1, PublishSteps
<1>2. CASE Execute
  BY <1>2 DEF Execute, Succeed, Fail, LogExecute
<1>3. ASSUME NEW e \in Events, Resume(e)
      PROVE  LogResume(e)
  BY <1>3, LogResumes
<1> QED
  BY <1>1, <1>2, <1>3 DEF LogNext

(***************************************************************************)
(* Types.                                                                  *)
(***************************************************************************)
LEMMA TypesStep ==
    ASSUME LogTypes, Lined, LogPublish \/ LogExecute \/ (\E e \in Events : LogResume(e)) \/ LogCrash
    PROVE  LogTypes'
<1>0. /\ Slack \in Nat /\ Cap \in Nat \ {0} /\ Cap - 1 \in Nat
      /\ Cap <= Slack /\ Publishers \in Nat \ {0} /\ MaxEvents \in Nat
  BY EventLogAssumption, SlackFacts DEF LogTypes
<1> USE DEF LogTypes
<1>1. CASE LogPublish
  <2> USE <1>1 DEF LogPublish
  <2>1. n + 1 \in Events /\ n' \in 0..MaxEvents
    BY <1>0 DEF Events
  <2>2. Append(ring, n + 1) \in Seq(Events) /\ inbox' \in Seq(Events)
    BY <2>1
  <2>3. ring' \in Seq(Events) /\ Len(ring') <= Cap
    <3>1. Cap \in Nat
      BY <1>0
    <3>2. /\ Newest(Append(ring, n + 1), Cap) \in Seq(Events)
          /\ Len(Newest(Append(ring, n + 1), Cap)) <= Cap
      BY ONLY <2>2, <3>1, NewestType
    <3> QED
      BY <3>2
  <2>4. at' \in [Events -> {"unborn", "done"} \cup Statements]
    BY <2>1 DEF Statements
  <2>5. dead' \subseteq Events
    BY <2>1, EventLogAssumption DEF InFlight, Events
  <2>6. outcome' \in 0..n' /\ stray' \in BOOLEAN /\ stage' \in {"running", "settled"}
    BY <1>0
  <2> QED
    BY <2>1, <2>2, <2>3, <2>4, <2>5, <2>6
<1>2. CASE LogExecute
  <2> USE <1>2 DEF LogExecute
  <2>1. inbox' \in Seq(Events) /\ Head(inbox) \in Events
    BY Beheaded
  <2>2. Prune \in Seq(Events)
    BY <1>0, NewestFacts DEF Prune
  <2>3. table' \in Seq(Events)
    <3>1. Append(table, Head(inbox)) \in Seq(Events) /\ table \in Seq(Events)
      BY <2>1
    <3>2. table' \in {table, Append(table, Head(inbox)), Prune}
      OBVIOUS
    <3> QED
      BY ONLY <2>2, <3>1, <3>2
  <2>4. /\ status' \in {"running", "settled"}
        /\ disk' \in [table : Seq(Events), status : {"running", "settled"}]
    OBVIOUS
  <2>5. failed' \subseteq Events /\ skipped' \subseteq Events /\ spared' \in BOOLEAN
    BY <2>1
  <2> QED
    BY <2>1, <2>3, <2>4, <2>5
<1>3. ASSUME NEW e \in Events, LogResume(e)
      PROVE  LogTypes'
  <2> USE <1>3 DEF LogResume
  <2>1. at' \in [Events -> {"unborn", "done"} \cup Statements]
    OBVIOUS
  <2>2. inbox' \in Seq(Events)
    <3>1. inbox' = inbox \/ inbox' = Append(inbox, e)
      OBVIOUS
    <3>2. Append(inbox, e) \in Seq(Events)
      BY Appended
    <3> QED
      BY ONLY <3>1, <3>2, inbox \in Seq(Events)
  <2>3. failed' \subseteq Events /\ written' \in Nat
    OBVIOUS
  <2> QED
    BY <2>1, <2>2, <2>3
<1>4. CASE LogCrash
  <2>1. /\ at' \in [Events -> {"unborn", "done"} \cup Statements]
        /\ <<>> \in Seq(Events) /\ Len(<<>>) = 0
    BY <1>4 DEF LogCrash
  <2> QED
    BY <1>4, <1>0, <2>1 DEF LogCrash
<1> QED
  BY <1>1, <1>2, <1>3, <1>4

(***************************************************************************)
(* The queue.                                                              *)
(***************************************************************************)
LEMMA LinedStep ==
    ASSUME LogTypes, Lined, LogPublish \/ LogExecute \/ (\E e \in Events : LogResume(e)) \/ LogCrash
    PROVE  Lined'
<1>0. /\ Slack \in Nat /\ Cap \in Nat \ {0} /\ Cap - 1 \in Nat
      /\ Cap <= Slack /\ Publishers \in Nat \ {0} /\ MaxEvents \in Nat
  BY EventLogAssumption, SlackFacts DEF LogTypes
<1> USE DEF LogTypes, Lined
<1>1. CASE LogPublish
  <2> USE <1>1 DEF LogPublish
  <2>1. n + 1 \in Events /\ n + 1 \notin 1..n /\ 1..n' = (1..n) \cup {n + 1}
    <3>1. n \in Nat /\ n + 1 <= MaxEvents
      BY <1>0
    <3> QED
      BY <1>0, <3>1 DEF Events
  <2>2. /\ Elements(inbox') = Elements(inbox) \cup {n + 1}
        /\ Elements(Append(ring, n + 1)) = Elements(ring) \cup {n + 1}
        /\ Append(ring, n + 1) \in Seq(Events)
        /\ DOMAIN inbox = 1..Len(inbox) /\ Len(inbox) \in Nat
        /\ DOMAIN inbox' = 1..(Len(inbox) + 1)
        /\ \A i \in 1..Len(inbox) : inbox'[i] = inbox[i]
        /\ inbox'[Len(inbox) + 1] = n + 1
    BY <2>1, Appended
  <2>3. \A e \in 1..n : at'[e] = at[e]
    BY <2>1 DEF Events
  <2>4. at'[n + 1] = "insert"
    BY <2>1
  <2>5. \A i \in 1..Len(inbox) : inbox[i] \in 1..n
    BY <2>2 DEF Elements
  <2>6. Elements(ring') \subseteq 1..n'
    BY <1>0, <2>1, <2>2, NewestType
  <2>7. dead' \subseteq 1..n'
    BY <2>1 DEF InFlight
  <2>8. \A e \in Elements(inbox') : e \in 1..n' /\ at'[e] \in Statements
    BY <2>1, <2>2, <2>3, <2>4 DEF Statements
  <2>9. \A i, k \in DOMAIN inbox' : inbox'[i] = inbox'[k] => i = k
    BY <2>1, <2>2, <2>5
  <2>10. \A i, k \in DOMAIN inbox' :
            i < k /\ at'[inbox'[i]] = "insert" /\ at'[inbox'[k]] = "insert"
              => inbox'[i] < inbox'[k]
    BY <2>2, <2>3, <2>4, <2>5
  <2>11. \A e \in 1..n' : at'[e] # "unborn"
    BY <2>1, <2>3, <2>4
  <2>12. (Elements(inbox))' = Elements(inbox') /\ (Elements(ring))' = Elements(ring')
    BY DEF Elements
  <2> QED
    BY <2>6, <2>7, <2>8, <2>9, <2>10, <2>11, <2>12
<1>2. CASE LogExecute
  <2> USE <1>2 DEF LogExecute
  <2>1. /\ Elements(inbox') \subseteq Elements(inbox)
        /\ DOMAIN inbox' = 1..(Len(inbox) - 1)
        /\ DOMAIN inbox = 1..Len(inbox)
        /\ Len(inbox) \in Nat
        /\ \A i \in 1..(Len(inbox) - 1) :
              inbox'[i] = inbox[i + 1] /\ i \in Nat /\ i + 1 \in 1..Len(inbox)
    BY Beheaded
  <2>2. \A i, k \in DOMAIN inbox' : inbox'[i] = inbox'[k] => i = k
    BY <2>1
  <2>3. ASSUME NEW i \in DOMAIN inbox', NEW k \in DOMAIN inbox', i < k,
               at[inbox'[i]] = "insert", at[inbox'[k]] = "insert"
        PROVE  inbox'[i] < inbox'[k]
    <3>1. /\ i + 1 \in DOMAIN inbox /\ inbox'[i] = inbox[i + 1]
          /\ k + 1 \in DOMAIN inbox /\ inbox'[k] = inbox[k + 1]
          /\ i + 1 < k + 1
      BY <2>1, <2>3
    <3> QED
      BY <3>1, <2>3
  <2>4. (Elements(inbox))' = Elements(inbox') /\ (Elements(ring))' = Elements(ring)
    BY DEF Elements
  <2> QED
    BY <2>1, <2>2, <2>3, <2>4
<1>3. ASSUME NEW e \in Events, LogResume(e)
      PROVE  Lined'
  <2> USE <1>3 DEF LogResume
  <2>1. (Elements(inbox))' = Elements(inbox') /\ (Elements(ring))' = Elements(ring)
    BY DEF Elements
  <2>2. CASE at' = [at EXCEPT ![e] = "done"] /\ UNCHANGED inbox
    <3>1. \A x \in Events \ {e} : at'[x] = at[x]
      BY <2>2
    <3>2. \A i \in DOMAIN inbox : inbox[i] \in Elements(inbox) /\ inbox[i] \in Events
      BY DEF Elements
    <3>3. 1..n \subseteq Events
      BY EventLogAssumption DEF Events
    <3> QED
      BY <2>1, <2>2, <3>1, <3>2, <3>3
  <2>3. ASSUME NEW s \in Statements \ {"insert"}, at' = [at EXCEPT ![e] = s],
               inbox' = Append(inbox, e)
        PROVE  Lined'
    <3>1. \A x \in Events \ {e} : at'[x] = at[x]
      BY <2>3
    <3>2. /\ Elements(inbox') = Elements(inbox) \cup {e}
          /\ DOMAIN inbox = 1..Len(inbox) /\ Len(inbox) \in Nat
          /\ DOMAIN inbox' = 1..(Len(inbox) + 1)
          /\ \A i \in 1..Len(inbox) : inbox'[i] = inbox[i]
          /\ inbox'[Len(inbox) + 1] = e
      BY <2>3, Appended
    <3>3. at'[e] = s
      BY <2>3
    <3>a. \A i \in 1..Len(inbox) : inbox[i] \in Elements(inbox)
      BY <3>2 DEF Elements
    <3>4. \A i \in 1..Len(inbox) : inbox[i] \in Elements(inbox) /\ inbox[i] \in Events \ {e}
      BY <3>2, <3>a
    <3>5. 1..n \subseteq Events
      BY EventLogAssumption DEF Events
    <3>6. \A x \in Elements(inbox') : x \in 1..n /\ at'[x] \in Statements
      BY <3>1, <3>2, <3>3, <3>5
    <3>7. ASSUME NEW i \in DOMAIN inbox', NEW k \in DOMAIN inbox', inbox'[i] = inbox'[k]
          PROVE  i = k
      <4>1. CASE i \in 1..Len(inbox) /\ k \in 1..Len(inbox)
        BY <4>1, <3>2, <3>7
      <4>2. CASE i = Len(inbox) + 1 /\ k = Len(inbox) + 1
        BY <4>2
      <4>3. CASE \/ i = Len(inbox) + 1 /\ k \in 1..Len(inbox)
                 \/ k = Len(inbox) + 1 /\ i \in 1..Len(inbox)
        BY <4>3, <3>2, <3>4, <3>7
      <4> QED
        BY <4>1, <4>2, <4>3, <3>2
    <3>8. \A i, k \in DOMAIN inbox' :
              i < k /\ at'[inbox'[i]] = "insert" /\ at'[inbox'[k]] = "insert"
                => inbox'[i] < inbox'[k]
      <4>1. Len(inbox) \in Nat
        BY <3>2
      <4> SUFFICES ASSUME NEW i \in DOMAIN inbox', NEW k \in DOMAIN inbox', i < k,
                          at'[inbox'[i]] = "insert", at'[inbox'[k]] = "insert"
                   PROVE  inbox'[i] < inbox'[k]
        OBVIOUS
      <4>a. i # Len(inbox) + 1 /\ k # Len(inbox) + 1
        BY <3>2, <3>3, <2>3
      <4>b. i \in 1..(Len(inbox) + 1) /\ k \in 1..(Len(inbox) + 1)
        BY <3>2
      <4>2. i \in 1..Len(inbox) /\ k \in 1..Len(inbox)
        BY <4>1, <4>a, <4>b
      <4> QED
        BY <4>2, <3>1, <3>2, <3>4
    <3>9. \A x \in 1..n : at'[x] # "unborn"
      BY <3>1, <3>3, <3>5 DEF Statements
    <3> QED
      BY <2>1, <3>6, <3>7, <3>8, <3>9
  <2> QED
    BY <2>2, <2>3
<1>4. CASE LogCrash
  <2>1. DOMAIN inbox' = {} /\ (Elements(inbox))' = {} /\ (Elements(ring))' = {}
    BY <1>4 DEF LogCrash, Elements
  <2>2. 1..n \subseteq Events /\ \A e \in 1..n : e <= n
    BY <1>0 DEF Events
  <2>3. \A e \in 1..n : at'[e] # "unborn"
    BY <1>4, <2>2 DEF LogCrash
  <2> QED
    BY <1>4, <2>1, <2>3 DEF LogCrash
<1> QED
  BY <1>1, <1>2, <1>3, <1>4

(***************************************************************************)
(* What the steps do to the set of the waiting publishers.                 *)
(***************************************************************************)
LEMMA PublishQueue ==
    ASSUME LogTypes, Lined, LogPublish
    PROVE  /\ n \in Nat /\ n + 1 \in Events /\ 1..n \subseteq Events
           /\ 1..n' = (1..n) \cup {n + 1} /\ n + 1 \notin 1..n
           /\ Elements(inbox)' = Elements(inbox) \cup {n + 1}
           /\ at'[n + 1] = "insert"
           /\ \A e \in 1..n : at'[e] = at[e] /\ e < n + 1
<1>1. n \in Nat /\ MaxEvents \in Nat /\ n + 1 <= MaxEvents
  BY EventLogAssumption DEF LogTypes, LogPublish
<1>2. n + 1 \in Events /\ 1..n \subseteq Events
  BY <1>1 DEF Events
<1>3. 1..n' = (1..n) \cup {n + 1} /\ n + 1 \notin 1..n
  BY <1>1 DEF LogPublish
<1>4. Elements(inbox)' = Elements(inbox) \cup {n + 1}
  <2>1. Elements(inbox)' = Elements(inbox')
    BY DEF Elements
  <2> QED
    BY <1>2, <2>1, Appended DEF LogPublish, LogTypes
<1>5. at'[n + 1] = "insert" /\ \A e \in 1..n : at'[e] = at[e]
  BY <1>2, <1>3 DEF LogPublish, LogTypes
<1> QED
  BY <1>1, <1>2, <1>3, <1>4, <1>5

LEMMA ExecuteQueue ==
    ASSUME LogTypes, Lined, LogExecute
    PROVE  /\ Head(inbox) \in 1..n /\ Head(inbox) \in Events /\ at[Head(inbox)] \in Statements
           /\ Elements(inbox) = Elements(inbox)' \cup {Head(inbox)}
           /\ Head(inbox) \notin Elements(inbox)'
           /\ \A e \in Elements(inbox)' :
                 at[e] = "insert" /\ at[Head(inbox)] = "insert" => Head(inbox) < e
<1> USE DEF LogTypes, Lined, LogExecute
<1>1. /\ inbox' \in Seq(Events)
      /\ Head(inbox) \in Events /\ Head(inbox) \in Elements(inbox)
      /\ Head(inbox) = inbox[1]
      /\ DOMAIN inbox = 1..Len(inbox) /\ Len(inbox) \in Nat \ {0}
      /\ DOMAIN inbox' = 1..(Len(inbox) - 1)
      /\ \A i \in 1..(Len(inbox) - 1) : inbox'[i] = inbox[i + 1]
      /\ Elements(inbox') \subseteq Elements(inbox)
      /\ Elements(inbox) \subseteq {Head(inbox)} \cup Elements(inbox')
  BY Beheaded
<1>2. Elements(inbox)' = Elements(inbox')
  BY DEF Elements
<1>3. ASSUME NEW e \in Elements(inbox')
      PROVE  /\ e # Head(inbox)
             /\ at[e] = "insert" /\ at[Head(inbox)] = "insert" => Head(inbox) < e
  <2>1. PICK i \in 1..(Len(inbox) - 1) : e = inbox'[i]
    BY <1>1 DEF Elements
  <2>2. e = inbox[i + 1] /\ i + 1 \in DOMAIN inbox /\ 1 \in DOMAIN inbox /\ 1 < i + 1
    BY <1>1, <2>1
  <2>3. inbox[1] # inbox[i + 1] /\ i \in Nat
    BY <2>2, <2>1
  <2>4. at[inbox[1]] = "insert" /\ at[inbox[i + 1]] = "insert" => inbox[1] < inbox[i + 1]
    BY <2>2
  <2> QED
    BY <1>1, <2>2, <2>3, <2>4
<1> QED
  BY <1>1, <1>2, <1>3

LEMMA ResumeQueue ==
    ASSUME LogTypes, Lined, NEW e \in Events, LogResume(e)
    PROVE  /\ 1..n \subseteq Events
           /\ Elements(inbox)' \subseteq Elements(inbox) \cup {e}
           /\ Elements(inbox) \subseteq Elements(inbox)'
           /\ at'[e] # "insert" /\ at'[e] # "unborn"
           /\ at'[e] = "done" \/ e \in Elements(inbox)'
           /\ \A x \in Events \ {e} : at'[x] = at[x]
<1> USE DEF LogTypes
<1>1. Elements(inbox)' = Elements(inbox')
  BY DEF Elements
<1>2. 1..n \subseteq Events
  BY EventLogAssumption DEF Events
<1>3. Elements(Append(inbox, e)) = Elements(inbox) \cup {e}
  BY Appended
<1>4. PICK s \in {"done"} \cup Statements :
          /\ s # "insert"
          /\ at' = [at EXCEPT ![e] = s]
          /\ \/ s = "done" /\ inbox' = inbox
             \/ inbox' = Append(inbox, e)
  BY DEF LogResume, Statements
<1>5. at'[e] = s /\ \A x \in Events \ {e} : at'[x] = at[x]
  BY <1>4
<1>6. s # "unborn"
  BY DEF Statements
<1> QED
  BY <1>1, <1>2, <1>3, <1>4, <1>5, <1>6

(***************************************************************************)
(* The rows.                                                               *)
(***************************************************************************)
LEMMA SeqOfMore ==
    ASSUME NEW S, NEW T, S \subseteq T, NEW s \in Seq(S)
    PROVE  s \in Seq(T)
OBVIOUS

LEMMA PruneRises ==
    ASSUME LogTypes, Rows
    PROVE  /\ Rising(Prune)
           /\ Elements(Prune) \subseteq Elements(table)
<1>1. Cap - 1 \in Nat
  BY EventLogAssumption DEF LogTypes
<1>2. Events \subseteq Nat
  BY DEF Events
<1>3. table \in Seq(Nat)
  <2>1. table \in Seq(Events)
    BY DEF LogTypes
  <2> QED BY <1>2, <2>1, SeqOfMore
<1>4. Rising(Newest(table, Cap - 1)) /\ Rising(table)
  BY <1>1, <1>3, NewestRises DEF Rows
<1>5. Elements(Newest(table, Cap - 1)) \subseteq Elements(table)
  BY <1>1, <1>3, NewestType
<1> QED
  BY <1>4, <1>5 DEF Prune

LEMMA RowsStep ==
    ASSUME LogTypes, Lined, Rows,
           LogPublish \/ LogExecute \/ (\E e \in Events : LogResume(e)) \/ LogCrash
    PROVE  Rows'
<1> USE DEF Rows
<1>0. n \in Nat
  BY DEF LogTypes
<1>1. CASE LogPublish
  <2>1. UNCHANGED <<table, disk>> /\ stage' # "down"
    BY <1>1 DEF LogPublish
  <2>2. /\ 1..n \subseteq 1..n'
        /\ \A x \in Elements(table), e \in Elements(inbox)' : at'[e] = "insert" => x < e
    BY <1>1, PublishQueue DEF Lined
  <2> QED
    BY <2>1, <2>2 DEF Elements, Rising
<1>2. CASE LogExecute
  <2> DEFINE h == Head(inbox)
  <2>0. /\ h \in 1..n /\ h \in Nat
        /\ Elements(inbox)' \subseteq Elements(inbox) /\ h \in Elements(inbox)
        /\ \A e \in Elements(inbox)' : at[e] = "insert" /\ at[h] = "insert" => h < e
    BY <1>2, ExecuteQueue
  <2> HIDE DEF h
  <2>1. UNCHANGED <<stage, n, at>> /\ stage # "down"
    BY <1>2 DEF LogExecute
  <2>2. disk'.table \in {disk.table, table}
    BY <1>2 DEF LogExecute
  <2>3. Rising(disk'.table) /\ Elements(disk'.table) \subseteq 1..n
    BY <2>2
  <2>4. /\ Rising(table') /\ Elements(table') \subseteq 1..n
        /\ \A x \in Elements(table'), e \in Elements(inbox)' : at[e] = "insert" => x < e
    <3>1. CASE at[h] = "insert" /\ table' = Append(table, h)
      <4>1. /\ table \in Seq(Events) /\ h \in Events
        BY <1>2, ExecuteQueue DEF LogTypes, h
      <4>2. /\ Elements(table') = Elements(table) \cup {h}
            /\ Len(table) \in Nat /\ DOMAIN table = 1..Len(table)
            /\ DOMAIN table' = 1..(Len(table) + 1)
            /\ \A i \in 1..Len(table) : table'[i] = table[i]
            /\ table'[Len(table) + 1] = h
        BY <3>1, <4>1, Appended
      <4>3. \A i \in 1..Len(table) : table[i] < h
        BY <2>0, <3>1, <4>2 DEF Elements
      <4>4. Rising(table')
        BY <4>2, <4>3 DEF Rising
      <4> QED
        BY <2>0, <3>1, <4>2, <4>4
    <3>2. CASE table' = Prune
      BY <2>0, <3>2, PruneRises
    <3>3. CASE table' = table
      BY <2>0, <3>3
    <3> QED
      BY <1>2, <3>1, <3>2, <3>3 DEF LogExecute, h
  <2> QED
    BY <2>1, <2>3, <2>4 DEF Elements, Rising
<1>3. ASSUME NEW e \in Events, LogResume(e)
      PROVE  Rows'
  <2>1. UNCHANGED <<table, disk, n, stage>>
    BY <1>3 DEF LogResume
  <2>2. \A x \in Elements(inbox)' : at'[x] = "insert" => x \in Elements(inbox) /\ at[x] = "insert"
    BY <1>3, ResumeQueue DEF Lined
  <2> QED
    BY <2>1, <2>2 DEF Elements, Rising
<1>4. CASE LogCrash
  <2>1. /\ table' = disk.table /\ disk' = disk /\ n' = n
        /\ Elements(inbox)' = {}
    BY <1>4 DEF LogCrash, Elements
  <2> QED
    BY <2>1 DEF Elements, Rising
<1> QED
  BY <1>1, <1>2, <1>3, <1>4

(***************************************************************************)
(* An event's INSERT is carried out once, by the thread and in its turn.   *)
(***************************************************************************)
LEMMA InsertedStep ==
    ASSUME LogTypes, Lined
    PROVE  /\ LogPublish => Inserted' = Inserted
           /\ LogExecute => Inserted' = Inserted \cup {Head(inbox)}
           /\ \A e \in Events : LogResume(e) => Inserted' = Inserted
           /\ Elements(inbox)' = {} /\ UNCHANGED <<n, at>> => Inserted' = 1..n
<1>1. ASSUME LogPublish
      PROVE  Inserted' = Inserted
  <2>1. \A e \in Elements(inbox) : e \in 1..n
    BY DEF Lined
  <2> QED
    BY <1>1, <2>1, PublishQueue DEF Inserted
<1>2. ASSUME LogExecute
      PROVE  Inserted' = Inserted \cup {Head(inbox)}
  <2>1. UNCHANGED <<n, at>>
    BY <1>2 DEF LogExecute
  <2> QED
    BY <1>2, <2>1, ExecuteQueue DEF Inserted
<1>3. ASSUME NEW e \in Events, LogResume(e)
      PROVE  Inserted' = Inserted
  <2>1. n' = n /\ e \in 1..n /\ e \notin Elements(inbox)
    BY <1>3 DEF LogResume
  <2>2. \A x \in 1..n : x # e =>
            at'[x] = at[x] /\ (x \in Elements(inbox)' <=> x \in Elements(inbox))
    BY <1>3, ResumeQueue
  <2>3. e \in Inserted /\ e \in Inserted'
    BY <1>3, <2>1, ResumeQueue DEF Inserted
  <2> QED
    BY <2>1, <2>2, <2>3 DEF Inserted
<1> QED
  BY <1>1, <1>2, <1>3 DEF Inserted

LEMMA RowType ==
    ASSUME LogTypes
    PROVE  /\ Len(table) \in Nat /\ DOMAIN table = 1..Len(table)
           /\ table \in Seq(Nat) /\ disk.table \in Seq(Nat)
           /\ \A i \in DOMAIN table : table[i] \in Nat
<1>1. Events \subseteq Nat
  BY DEF Events
<1>2. table \in Seq(Nat) /\ disk.table \in Seq(Nat)
  <2>1. table \in Seq(Events) /\ disk.table \in Seq(Events)
    BY DEF LogTypes
  <2> QED
    BY <1>1, <2>1, SeqOfMore
<1> QED
  BY <1>2

LEMMA PruneKeeps ==
    ASSUME LogTypes, Rows, NEW e \in 1..n,
           e \notin Elements(table) =>
              /\ Len(table) >= Cap - 1
              /\ \A i \in DOMAIN table : i > Len(table) - (Cap - 1) => table[i] > e,
           e \notin Elements(Prune)
    PROVE  /\ Len(Prune) >= Cap - 1
           /\ \A i \in DOMAIN Prune : i > Len(Prune) - (Cap - 1) => Prune[i] > e
<1>1. /\ Cap \in Nat \ {0} /\ Cap - 1 \in Nat /\ table \in Seq(Events)
      /\ Len(table) \in Nat /\ DOMAIN table = 1..Len(table) /\ e \in Nat
  BY EventLogAssumption DEF LogTypes
<1>2. CASE Len(table) < Cap
  BY <1>2 DEF Prune
<1>3. CASE ~(Len(table) < Cap)
  <2> DEFINE p == Newest(table, Cap - 1)
             d == Len(table) - Len(p)
  <2>1. /\ Len(p) = Cap - 1 /\ DOMAIN p = 1..Len(p)
        /\ \A i \in 1..Len(p) : i + d \in 1..Len(table) /\ p[i] = table[i + d]
    BY <1>1, <1>3, NewestFacts
  <2>2. Prune = p
    BY <1>3 DEF Prune
  <2>3. d = Len(table) - (Cap - 1)
    BY <2>1
  <2> HIDE DEF p, d
  <2>4. CASE e \in Elements(table)
    <3>1. PICK k \in 1..Len(table) : table[k] = e
      BY <1>1, <2>4 DEF Elements
    <3>2. k <= d
      <4>1. SUFFICES ASSUME k > d
                     PROVE  FALSE
        BY <1>1, <2>3
      <4>2. k - d \in 1..Len(p) /\ (k - d) + d = k
        BY <1>1, <2>1, <2>3, <4>1
      <4>3. p[k - d] = e
        BY <2>1, <3>1, <4>2
      <4> QED
        BY <2>1, <2>2, <4>2, <4>3 DEF Elements
    <3>3. ASSUME NEW i \in 1..Len(p)
          PROVE  p[i] > e
      <4>1. p[i] = table[i + d] /\ i + d \in DOMAIN table /\ k \in DOMAIN table /\ k < i + d
        BY <1>1, <2>1, <2>3, <3>2
      <4>2. table[k] < table[i + d] /\ table[i + d] \in Nat
        BY <4>1, RowType DEF Rows, Rising
      <4> QED
        BY <3>1, <4>1, <4>2, <1>1
    <3> QED
      BY <1>1, <2>1, <2>2, <3>3
  <2>5. CASE e \notin Elements(table)
    <3>1. \A i \in 1..Len(p) : p[i] > e
      BY <1>1, <2>1, <2>3, <2>5
    <3> QED
      BY <1>1, <2>1, <2>2, <3>1
  <2> QED
    BY <2>4, <2>5
<1> QED
  BY <1>2, <1>3

LEMMA KeptStep ==
    ASSUME LogTypes, Lined, Rows, Kept,
           LogPublish \/ LogExecute \/ (\E e \in Events : LogResume(e)) \/ LogCrash
    PROVE  Kept'
<1>0. Cap \in Nat \ {0} /\ table \in Seq(Events) /\ n \in Nat
  BY EventLogAssumption DEF LogTypes
<1>1. CASE LogPublish
  <2>1. UNCHANGED <<table, skipped>> /\ stage # "down" /\ Inserted' = Inserted
    BY <1>1, InsertedStep DEF LogPublish
  <2> QED
    BY <2>1 DEF Kept, Elements
<1>2. CASE LogExecute
  <2> DEFINE h == Head(inbox)
  <2>0. /\ stage # "down" /\ stage' # "down" /\ h \in 1..n /\ h \in Events
        /\ Inserted' = Inserted \cup {h} /\ Inserted \subseteq 1..n
    BY <1>2, InsertedStep, ExecuteQueue DEF LogExecute, Inserted
  <2>a. at[h] # "insert" => h \in Inserted
    BY <2>0 DEF Inserted
  <2> SUFFICES ASSUME NEW e \in Inserted' \ skipped', e \notin Elements(table')
               PROVE  /\ Len(table') >= Cap - 1
                      /\ \A i \in DOMAIN table' :
                            i > Len(table') - (Cap - 1) => table'[i] > e
    BY <2>0 DEF Kept, Elements
  <2>1. CASE at[h] = "insert" /\ table' = Append(table, h) /\ skipped' = skipped
    <3>1. /\ Elements(table') = Elements(table) \cup {h}
          /\ Len(table) \in Nat /\ DOMAIN table = 1..Len(table)
          /\ Len(table') = Len(table) + 1
          /\ DOMAIN table' = 1..(Len(table) + 1)
          /\ \A i \in 1..Len(table) : table'[i] = table[i]
          /\ table'[Len(table) + 1] = h
      BY <1>0, <2>0, <2>1, Appended
    <3>2. e \in Inserted \ skipped /\ e \notin Elements(table)
      BY <2>0, <2>1, <3>1
    <3>3. /\ Len(table) >= Cap - 1
          /\ \A i \in DOMAIN table : i > Len(table) - (Cap - 1) => table[i] > e
      BY <2>0, <3>2 DEF Kept
    <3>4. ASSUME Cap > 1
          PROVE  h > e
      <4>1. Len(table) \in DOMAIN table /\ table[Len(table)] > e
        BY <1>0, <3>1, <3>3, <3>4
      <4>2. table[Len(table)] < h
        BY <1>2, <2>1, <4>1, ExecuteQueue DEF Rows, Elements
      <4>3. table[Len(table)] \in Nat /\ h \in Nat /\ e \in Nat
        BY <1>0, <2>0, <3>2, <4>1, RowType
      <4> QED
        BY <4>1, <4>2, <4>3
    <3> HIDE DEF h
    <3> QED
      BY <1>0, <3>1, <3>3, <3>4
  <2>2. CASE table' = table /\ skipped' = skipped /\ at[h] # "insert"
    BY <2>0, <2>a, <2>2 DEF Kept
  <2>3. CASE table' = table /\ skipped' = skipped \cup {h}
    BY <2>0, <2>3 DEF Kept
  <2>4. CASE table' = Prune /\ skipped' = skipped /\ at[h] # "insert"
    <3>1. e \in Inserted \ skipped /\ e \in 1..n
      BY <2>0, <2>a, <2>4
    <3>2. e \notin Elements(table) =>
              /\ Len(table) >= Cap - 1
              /\ \A i \in DOMAIN table : i > Len(table) - (Cap - 1) => table[i] > e
      BY <2>0, <3>1 DEF Kept
    <3> QED
      BY <2>4, <3>1, <3>2, PruneKeeps
  <2> QED
    BY <1>2, <2>1, <2>2, <2>3, <2>4 DEF LogExecute
<1>3. ASSUME NEW e \in Events, LogResume(e)
      PROVE  Kept'
  <2>1. UNCHANGED <<table, skipped, stage>> /\ Inserted' = Inserted
    BY <1>3, InsertedStep DEF LogResume
  <2> QED
    BY <2>1 DEF Kept, Elements
<1>4. CASE LogCrash
  BY <1>4 DEF LogCrash, Kept
<1> QED
  BY <1>1, <1>2, <1>3, <1>4

(***************************************************************************)
(* With room for two, the newest event is in the table once it was         *)
(* inserted, whatever was trimmed since.                                   *)
(***************************************************************************)
LEMMA NewestIsThere ==
    ASSUME LogTypes, Rows, Kept, Cap > 1, stage # "down", n \in Inserted
    PROVE  n \in Elements(table) \cup skipped
<1> SUFFICES ASSUME n \notin Elements(table), n \notin skipped
             PROVE  FALSE
  OBVIOUS
<1>1. /\ Len(table) \in Nat /\ DOMAIN table = 1..Len(table) /\ Cap \in Nat
      /\ n \in Nat
  BY EventLogAssumption DEF LogTypes
<1>2. /\ Len(table) >= Cap - 1
      /\ \A i \in DOMAIN table : i > Len(table) - (Cap - 1) => table[i] > n
  BY DEF Kept
<1>3. Len(table) \in DOMAIN table /\ table[Len(table)] > n
  BY <1>1, <1>2
<1>4. table[Len(table)] \in 1..n
  BY <1>3 DEF Rows, Elements
<1> QED
  BY <1>1, <1>3, <1>4

(***************************************************************************)
(* The last k rows being newer than e, there are at least k such.          *)
(***************************************************************************)
LEMMA NewerRows ==
    ASSUME LogTypes, Rows, NEW e \in Nat, NEW k \in Nat, Len(table) >= k,
           \A i \in DOMAIN table : i > Len(table) - k => table[i] > e
    PROVE  Cardinality({x \in Elements(table) : x > e}) >= k
<1> DEFINE p == Newest(table, k)
           later == {x \in Elements(table) : x > e}
<1>1. /\ Len(table) \in Nat /\ DOMAIN table = 1..Len(table) /\ table \in Seq(Nat)
      /\ Rising(table)
  BY RowType DEF Rows
<1>2. p \in Seq(Nat) /\ Rising(p) /\ Elements(p) \subseteq Elements(table)
  BY <1>1, NewestType, NewestRises
<1>3. /\ Len(p) = k /\ DOMAIN p = 1..k
      /\ \A i \in 1..k : i + (Len(table) - k) \in 1..Len(table) /\ p[i] = table[i + (Len(table) - k)]
  <2>1. /\ Len(p) = IF Len(table) <= k THEN Len(table) ELSE k
        /\ DOMAIN p = 1..Len(p)
        /\ \A i \in 1..Len(p) : i + (Len(table) - Len(p)) \in 1..Len(table)
                                /\ p[i] = table[i + (Len(table) - Len(p))]
    BY <1>1, NewestFacts
  <2> HIDE DEF p
  <2>2. Len(p) = k
    <3>1. CASE Len(table) <= k
      <4>1. Len(p) = Len(table)
        BY <2>1, <3>1
      <4>2. \A a, b \in Nat : a >= b /\ a <= b => a = b
        OBVIOUS
      <4>3. Len(table) = k
        BY <1>1, <3>1, <4>2
      <4> QED
        BY <4>1, <4>3
    <3>2. CASE ~(Len(table) <= k)
      BY <2>1, <3>2
    <3> QED
      BY <3>1, <3>2
  <2> QED
    BY <2>1, <2>2
<1>4. \A i \in 1..k : p[i] > e
  <2>1. ASSUME NEW i \in 1..k
        PROVE  p[i] > e
    <3>1. i + (Len(table) - k) \in DOMAIN table /\ i + (Len(table) - k) > Len(table) - k
      BY <1>1, <1>3
    <3> QED
      BY <1>3, <3>1
  <2> QED
    BY <2>1
<1>5. Elements(p) \subseteq later
  BY <1>2, <1>3, <1>4 DEF Elements
<1>6. IsFiniteSet(Elements(p)) /\ Cardinality(Elements(p)) = k
  BY <1>2, <1>3, RisingCount
<1>7. IsFiniteSet(later)
  <2>1. IsFiniteSet(Elements(table))
    BY <1>1, RisingCount
  <2> QED
    BY <2>1, FS_Subset
<1>8. Cardinality(Elements(p)) <= Cardinality(later)
  BY <1>5, <1>7, FS_Subset
<1>9. Cardinality(later) \in Nat
  BY <1>7, FS_CardinalityType
<1> QED
  BY <1>6, <1>8, <1>9

(***************************************************************************)
(* What a commit puts on disk has the outcome's row if it has its status.  *)
(***************************************************************************)
LEMMA OutcomeIsThere ==
    ASSUME LogTypes, Rows, Kept, Outcome, Cap > 1, stage # "down", status = "settled"
    PROVE  \/ outcome \in Elements(table) \cup skipped
           \/ stray /\ Cardinality({e \in Elements(table) : e > outcome}) >= Cap - 1
<1> SUFFICES ASSUME outcome \notin Elements(table) \cup skipped
             PROVE  stray /\ Cardinality({e \in Elements(table) : e > outcome}) >= Cap - 1
  OBVIOUS
<1>1. outcome \in Inserted
  BY DEF Outcome
<1>2. outcome # 0 /\ outcome \in Nat /\ Cap - 1 \in Nat
  BY <1>1, EventLogAssumption DEF Inserted, LogTypes
<1>3. /\ Len(table) >= Cap - 1
      /\ \A i \in DOMAIN table : i > Len(table) - (Cap - 1) => table[i] > outcome
  BY <1>1 DEF Kept
<1>4. stray
  BY <1>1, <1>2, NewestIsThere DEF Outcome
<1>5. Cardinality({e \in Elements(table) : e > outcome}) >= Cap - 1
  BY <1>2, <1>3, NewerRows
<1> QED
  BY <1>4, <1>5

LEMMA OutcomeStep ==
    ASSUME LogTypes, Lined, Rows, Kept, Outcome,
           LogPublish \/ LogExecute \/ (\E e \in Events : LogResume(e)) \/ LogCrash
    PROVE  Outcome'
<1>0. n \in Nat /\ outcome \in 0..n /\ inbox \in Seq(Events)
  BY DEF LogTypes
<1>1. CASE LogPublish
  <2>1. /\ UNCHANGED <<status, disk, skipped>> /\ n' = n + 1 /\ inbox' = Append(inbox, n + 1)
        /\ Inserted' = Inserted /\ stage \in {"running", "settled"} /\ stage' \in {"running", "settled"}
    BY <1>1, InsertedStep DEF LogPublish
  <2>2. /\ DOMAIN inbox = 1..Len(inbox) /\ Len(inbox) \in Nat
        /\ DOMAIN inbox' = 1..(Len(inbox) + 1)
        /\ \A i \in 1..Len(inbox) : inbox'[i] = inbox[i]
        /\ inbox'[Len(inbox) + 1] = n + 1
    BY <1>1, <2>1, PublishQueue, Appended DEF LogTypes
  <2>3. /\ at'[n + 1] = "insert"
        /\ \A i \in 1..Len(inbox) : at'[inbox'[i]] = at[inbox[i]] /\ inbox[i] \in 1..n
    BY <1>1, <2>2, PublishQueue DEF Lined, Elements
  <2>4. CASE UNCHANGED <<stage, outcome, stray>> /\ (stage = "settled" => stray)
    <3>1. outcome # 0 /\ ~stray => FALSE
      BY <2>1, <2>4 DEF Outcome
    <3>2. ASSUME NEW k \in DOMAIN inbox', at'[inbox'[k]] = "settle"
          PROVE  /\ outcome # 0
                 /\ \A i \in DOMAIN inbox' : inbox'[i] = outcome /\ at'[outcome] = "insert" => i < k
      <4>1. k \in 1..Len(inbox) /\ at[inbox[k]] = "settle"
        BY <2>2, <2>3, <3>2
      <4>2. outcome # 0
        BY <2>2, <4>1 DEF Outcome
      <4>3. outcome \in 1..n
        BY <1>0, <4>2
      <4>4. at'[outcome] = at[outcome] /\ outcome # n + 1
        BY <1>0, <1>1, <4>3, PublishQueue
      <4>5. ASSUME NEW i \in DOMAIN inbox', inbox'[i] = outcome, at'[outcome] = "insert"
            PROVE  i < k
        <5>1. i \in 1..Len(inbox) /\ inbox[i] = outcome
          BY <2>2, <4>4, <4>5
        <5> QED
          BY <2>2, <4>1, <4>4, <4>5, <5>1 DEF Outcome
      <4> QED
        BY <4>2, <4>5
    <3>3. Elements(disk.table)' = Elements(disk.table)
      BY <2>1 DEF Elements
    <3>4. OutcomeLogged' <=> OutcomeLogged
      BY <2>1, <2>4, <3>3 DEF OutcomeLogged
    <3> QED
      BY <2>1, <2>4, <3>1, <3>2, <3>4 DEF Outcome
  <2>5. CASE stage = "running" /\ stage' = "settled" /\ outcome' = n + 1 /\ stray' \in BOOLEAN
    <3>1. outcome = 0 /\ outcome' # 0 /\ n' = outcome'
      BY <1>0, <2>1, <2>5 DEF Outcome
    <3>2. disk.status # "settled" /\ status # "settled"
      BY <1>0, <3>1, <2>5 DEF Outcome, Inserted
    <3>3. \A k \in DOMAIN inbox' : at'[inbox'[k]] # "settle"
      BY <2>2, <2>3, <3>1 DEF Outcome
    <3> QED
      BY <2>1, <2>5, <3>1, <3>2, <3>3 DEF Outcome, OutcomeLogged
  <2> QED
    BY <1>1, <2>4, <2>5 DEF LogPublish
<1>2. CASE LogExecute
  <2> DEFINE h == Head(inbox)
  <2>1. /\ stage # "down" /\ UNCHANGED <<stage, n, at, outcome, stray>> /\ skipped \subseteq skipped'
        /\ Inserted' = Inserted \cup {h}
    BY <1>2, InsertedStep DEF LogExecute
  <2>2. /\ h = inbox[1] /\ DOMAIN inbox = 1..Len(inbox) /\ Len(inbox) \in Nat \ {0}
        /\ DOMAIN inbox' = 1..(Len(inbox) - 1)
        /\ \A i \in 1..(Len(inbox) - 1) : inbox'[i] = inbox[i + 1]
    BY <1>0, <1>2, Beheaded DEF LogExecute
  <2> HIDE DEF h
  <2>3. \A k \in DOMAIN inbox' : at'[inbox'[k]] = "settle" =>
            /\ outcome' # 0
            /\ \A i \in DOMAIN inbox' : inbox'[i] = outcome' /\ at'[outcome'] = "insert" => i < k
    <3>1. SUFFICES ASSUME NEW k \in DOMAIN inbox', at[inbox'[k]] = "settle"
                   PROVE  /\ outcome # 0
                          /\ \A i \in DOMAIN inbox' :
                                inbox'[i] = outcome /\ at[outcome] = "insert" => i < k
      BY <2>1
    <3>2. k + 1 \in DOMAIN inbox /\ at[inbox[k + 1]] = "settle" /\ k \in Nat
      BY <2>2, <3>1
    <3>3. outcome # 0
      BY <3>2 DEF Outcome
    <3>4. ASSUME NEW i \in DOMAIN inbox', inbox'[i] = outcome, at[outcome] = "insert"
          PROVE  i < k
      <4>1. i + 1 \in DOMAIN inbox /\ inbox[i + 1] = outcome /\ i \in Nat
        BY <2>2, <3>4
      <4>2. i + 1 < k + 1
        BY <3>2, <3>4, <4>1 DEF Outcome
      <4> QED
        BY <3>2, <4>1, <4>2
    <3> QED
      BY <3>3, <3>4
  <2>4. at[h] = "settle" => outcome \in Inserted
    <3>1. SUFFICES ASSUME at[h] = "settle", outcome \notin Inserted
                   PROVE  FALSE
      OBVIOUS
    <3>2. 1 \in DOMAIN inbox /\ at[inbox[1]] = "settle"
      BY <2>2, <3>1
    <3>3. outcome # 0
      BY <3>2 DEF Outcome
    <3>4. at[outcome] = "insert" /\ outcome \in Elements(inbox)
      BY <1>0, <3>1, <3>3 DEF Inserted
    <3>5. PICK i \in 1..Len(inbox) : inbox[i] = outcome
      BY <2>2, <3>4 DEF Elements
    <3>6. i < 1
      BY <2>2, <3>2, <3>4, <3>5 DEF Outcome
    <3> QED
      BY <3>6
  <2>5. status' = "settled" => outcome \in Inserted'
    BY <1>2, <2>1, <2>4 DEF Outcome, LogExecute, h
  <2>6. disk' = disk \/ disk' = [table |-> table, status |-> status]
    BY <1>2 DEF LogExecute
  <2>7. (disk'.status = "settled" => outcome # 0) /\ (Cap > 1 => OutcomeLogged')
    <3>1. CASE disk' = disk
      <4>1. Elements(disk.table)' = Elements(disk.table)
        BY <3>1 DEF Elements
      <4>2. OutcomeLogged => OutcomeLogged'
        BY <2>1, <3>1, <4>1 DEF OutcomeLogged
      <4> QED
        BY <3>1, <4>2 DEF Outcome
    <3>2. CASE disk' = [table |-> table, status |-> status]
      <4>1. disk'.status = status /\ Elements(disk.table)' = Elements(table)
        BY <3>2 DEF Elements
      <4>2. status = "settled" => outcome # 0
        BY <1>0, <2>1 DEF Outcome, Inserted
      <4>3. ASSUME Cap > 1
            PROVE  OutcomeLogged'
        <5>1. status = "settled" =>
                \/ outcome \in Elements(table) \cup skipped
                \/ stray /\ Cardinality({e \in Elements(table) : e > outcome}) >= Cap - 1
          BY <2>1, <4>3, OutcomeIsThere
        <5> QED
          BY <2>1, <4>1, <5>1 DEF OutcomeLogged
      <4> QED
        BY <4>1, <4>2, <4>3
    <3> QED
      BY <2>6, <3>1, <3>2
  <2> QED
    BY <2>1, <2>3, <2>5, <2>7 DEF Outcome
<1>3. ASSUME NEW e \in Events, LogResume(e)
      PROVE  Outcome'
  <2>1. /\ UNCHANGED <<stage, n, outcome, stray, status, disk, skipped>> /\ Inserted' = Inserted
        /\ e \notin Elements(inbox) /\ e \in 1..n
    BY <1>3, InsertedStep DEF LogResume
  <2>2. OutcomeLogged' <=> OutcomeLogged
    BY <2>1 DEF OutcomeLogged, Elements
  <2>3. /\ DOMAIN inbox = 1..Len(inbox) /\ Len(inbox) \in Nat
        /\ \A i \in DOMAIN inbox : inbox[i] \in Events \ {e}
    BY <1>0, <2>1 DEF Elements
  <2>4. /\ at'[e] # "insert" /\ at'[e] # "unborn"
        /\ \A x \in Events \ {e} : at'[x] = at[x]
    BY <1>3, ResumeQueue
  <2>5. ASSUME NEW k \in DOMAIN inbox', at'[inbox'[k]] = "settle"
        PROVE  /\ outcome # 0
               /\ \A i \in DOMAIN inbox' : inbox'[i] = outcome /\ at'[outcome] = "insert" => i < k
    <3>1. CASE inbox' = inbox
      <4>1. at[inbox[k]] = "settle" /\ k \in DOMAIN inbox
        BY <2>3, <2>4, <2>5, <3>1
      <4>2. \A i \in DOMAIN inbox : at'[inbox[i]] = at[inbox[i]]
        BY <2>3, <2>4
      <4> QED
        BY <3>1, <4>1, <4>2 DEF Outcome
    <3>2. ASSUME NEW s \in Statements \ {"insert"}, at' = [at EXCEPT ![e] = s],
                 inbox' = Append(inbox, e), s = "settle" => stage = "settled"
          PROVE  /\ outcome # 0
                 /\ \A i \in DOMAIN inbox' : inbox'[i] = outcome /\ at'[outcome] = "insert" => i < k
      <4>1. /\ DOMAIN inbox' = 1..(Len(inbox) + 1)
            /\ \A i \in 1..Len(inbox) : inbox'[i] = inbox[i]
            /\ inbox'[Len(inbox) + 1] = e
        BY <1>0, <3>2, Appended
      <4>2. at'[e] = s
        BY <3>2 DEF LogTypes
      <4>3. outcome # 0
        <5>1. CASE k = Len(inbox) + 1
          BY <2>5, <3>2, <4>1, <4>2, <5>1 DEF Outcome
        <5>2. CASE k \in 1..Len(inbox)
          BY <2>3, <2>4, <2>5, <4>1, <5>2 DEF Outcome
        <5> QED
          BY <4>1, <5>1, <5>2, <2>3
      <4>4. ASSUME NEW i \in DOMAIN inbox', inbox'[i] = outcome, at'[outcome] = "insert"
            PROVE  i < k
        <5>1. outcome # e
          BY <2>4, <4>4
        <5>2. i \in 1..Len(inbox) /\ inbox[i] = outcome
          BY <2>3, <4>1, <4>4, <5>1
        <5>3. at[outcome] = "insert"
          BY <2>3, <2>4, <4>4, <5>2
        <5>4. CASE k = Len(inbox) + 1
          BY <2>3, <5>2, <5>4
        <5>5. CASE k \in 1..Len(inbox)
          <6>1. at[inbox[k]] = "settle" /\ k \in DOMAIN inbox
            BY <2>3, <2>4, <2>5, <4>1, <5>5
          <6> QED
            BY <2>3, <5>2, <5>3, <6>1 DEF Outcome
        <5> QED
          BY <2>3, <4>1, <5>4, <5>5
      <4> QED
        BY <4>3, <4>4
    <3> QED
      BY <1>3, <3>1, <3>2 DEF LogResume
  <2> QED
    BY <2>1, <2>2, <2>5 DEF Outcome
<1>4. CASE LogCrash
  <2>1. /\ UNCHANGED <<n, outcome, stray, disk, skipped>> /\ stage' = "down" /\ DOMAIN inbox' = {}
    BY <1>4 DEF LogCrash
  <2>2. OutcomeLogged' <=> OutcomeLogged
    BY <2>1 DEF OutcomeLogged, Elements
  <2> QED
    BY <2>1, <2>2 DEF Outcome
<1> QED
  BY <1>1, <1>2, <1>3, <1>4

(***************************************************************************)
(* The bound.                                                              *)
(***************************************************************************)
LEMMA LogFinite ==
    ASSUME LogTypes, Lined, Rows
    PROVE  /\ IsFiniteSet(1..n)
           /\ IsFiniteSet(InFlight) /\ Cardinality(InFlight) \in Nat
           /\ IsFiniteSet(dead) /\ Cardinality(dead) \in Nat
           /\ IsFiniteSet(Counted) /\ Cardinality(Counted) \in Nat
           /\ Cardinality(Elements(table)) = Len(table)
           /\ Cardinality(Elements(disk.table)) = Len(disk.table)
<1>1. IsFiniteSet(1..n)
  BY FS_Interval DEF LogTypes
<1>2. InFlight \subseteq 1..n /\ dead \subseteq 1..n /\ Counted \subseteq 1..n
  BY DEF InFlight, Lined, Counted, Rows
<1>3. IsFiniteSet(InFlight) /\ IsFiniteSet(dead) /\ IsFiniteSet(Counted)
  BY <1>1, <1>2, FS_Subset
<1>4. /\ Cardinality(Elements(table)) = Len(table)
      /\ Cardinality(Elements(disk.table)) = Len(disk.table)
  BY RowType, RisingCount DEF Rows
<1> QED
  BY <1>1, <1>3, <1>4, FS_CardinalityType

(***************************************************************************)
(* Rows that are not counted yet, or whose publisher waits behind a DELETE,*)
(* belong to publishers in flight or cancelled.                            *)
(***************************************************************************)
LEMMA TableIsBounded ==
    ASSUME LogInv
    PROVE  ~spared => Len(table) <= Slack + Publishers + Cardinality(dead)
<1> SUFFICES ASSUME ~spared
             PROVE  Len(table) <= Slack + Publishers + Cardinality(dead)
  OBVIOUS
<1> USE DEF LogInv
<1>1. CASE stage = "down"
  BY <1>1 DEF Rows, Bound
<1>2. CASE stage # "down"
  <2> DEFINE others == InFlight \cup dead
  <2>1. Behind \subseteq Elements(inbox)
    BY DEF Behind, After, Elements
  <2>2. Elements(table) \subseteq Counted \cup others
    BY <2>1 DEF Counted, InFlight, Rows, Lined, Statements
  <2>3. /\ IsFiniteSet(others) /\ Cardinality(others) \in Nat
        /\ Cardinality(others) <= Cardinality(InFlight) + Cardinality(dead)
    <3>1. /\ IsFiniteSet(InFlight) /\ IsFiniteSet(dead)
          /\ Cardinality(InFlight) \in Nat /\ Cardinality(dead) \in Nat
      BY LogFinite
    <3>2. /\ IsFiniteSet(others)
          /\ Cardinality(others) = Cardinality(InFlight) + Cardinality(dead)
                                     - Cardinality(InFlight \cap dead)
      BY <3>1, FS_Union
    <3>3. Cardinality(InFlight \cap dead) \in Nat /\ Cardinality(others) \in Nat
      BY <3>1, <3>2, FS_Intersection, FS_CardinalityType
    <3> QED
      BY <3>1, <3>2, <3>3
  <2>4. /\ IsFiniteSet(Counted \cup others)
        /\ Cardinality(Counted \cup others) <= Cardinality(Counted) + Cardinality(others)
        /\ Cardinality(Counted \cup others) \in Nat
    <3>1. IsFiniteSet(Counted) /\ Cardinality(Counted) \in Nat
      BY LogFinite
    <3>2. /\ IsFiniteSet(Counted \cup others)
          /\ Cardinality(Counted \cup others) = Cardinality(Counted) + Cardinality(others)
                                     - Cardinality(Counted \cap others)
      BY <3>1, <2>3, FS_Union
    <3>3. Cardinality(Counted \cap others) \in Nat /\ Cardinality(Counted \cup others) \in Nat
      BY <3>1, <3>2, FS_Intersection, FS_CardinalityType
    <3> QED
      BY <3>1, <3>2, <3>3, <2>3
  <2>5. Len(table) <= Cardinality(Counted \cup others)
    BY <2>2, <2>4, LogFinite, FS_Subset
  <2>6. Cardinality(Counted) <= Slack
    BY <1>2, LogFinite, SlackFacts DEF Bound, LogTypes
  <2> HIDE DEF others
  <2>7. /\ Cardinality(InFlight) <= Publishers /\ Cardinality(InFlight) \in Nat
        /\ Cardinality(dead) \in Nat /\ Cardinality(Counted) \in Nat /\ Len(table) \in Nat
        /\ Slack \in Nat /\ Publishers \in Nat
    BY LogFinite, SlackFacts, RowType DEF Bound, LogTypes
  <2> QED
    BY <2>3, <2>4, <2>5, <2>6, <2>7
<1> QED
  BY <1>1, <1>2

(***************************************************************************)
(* How the parts of the bound move.                                        *)
(***************************************************************************)
LEMMA InFlightStep ==
    ASSUME LogTypes, Lined, Rows, Cardinality(InFlight) <= Publishers, LogNext
    PROVE  Cardinality(InFlight') <= Publishers
<1>0. /\ IsFiniteSet(InFlight) /\ Cardinality(InFlight) \in Nat
      /\ Publishers \in Nat \ {0}
  BY LogFinite, SlackFacts DEF LogTypes
<1>1. CASE Emit \/ Finish \/ Raise \/ CancelTask
  <2>1. LogPublish
    BY <1>1, PublishSteps
  <2>2. InFlight' \subseteq (InFlight \ (dead' \ dead)) \cup {n + 1}
    BY <2>1, PublishQueue DEF InFlight, LogPublish
  <2>3. CASE Emit \/ Raise
    <3>1. dead' = dead /\ Cardinality(InFlight) < Publishers
      BY <2>3 DEF Emit, Raise
    <3>2. InFlight' \subseteq InFlight \cup {n + 1}
      BY <2>2
    <3>a. /\ IsFiniteSet(InFlight \cup {n + 1})
          /\ \/ Cardinality(InFlight \cup {n + 1}) = Cardinality(InFlight)
             \/ Cardinality(InFlight \cup {n + 1}) = Cardinality(InFlight) + 1
      BY <1>0, FS_AddElement
    <3>3. /\ IsFiniteSet(InFlight \cup {n + 1})
          /\ Cardinality(InFlight \cup {n + 1}) \in Nat
          /\ Cardinality(InFlight \cup {n + 1}) <= Cardinality(InFlight) + 1
      BY <1>0, <3>a
    <3>4. Cardinality(InFlight') <= Cardinality(InFlight \cup {n + 1})
          /\ Cardinality(InFlight') \in Nat
      BY <3>2, <3>3, FS_Subset, FS_CardinalityType
    <3> QED
      BY <1>0, <3>1, <3>3, <3>4
  <2>4. CASE Finish \/ CancelTask
    <3>a. InFlight = {} \/ dead' = dead \cup InFlight
      BY <2>4 DEF Finish, CancelTask
    <3>b. InFlight \cap dead = {}
      BY DEF InFlight
    <3>1. InFlight' \subseteq {n + 1}
      BY <2>2, <3>a, <3>b
    <3>2. Cardinality(InFlight') <= 1 /\ Cardinality(InFlight') \in Nat
      <4>1. IsFiniteSet({n + 1}) /\ Cardinality({n + 1}) = 1
        BY FS_Singleton
      <4>2. IsFiniteSet(InFlight') /\ Cardinality(InFlight') <= Cardinality({n + 1})
        BY <3>1, <4>1, FS_Subset
      <4> QED
        BY <4>1, <4>2, FS_CardinalityType
    <3> QED
      BY <1>0, <3>2
  <2> QED
    BY <1>1, <2>3, <2>4
<1>2. ASSUME InFlight' \subseteq InFlight
      PROVE  Cardinality(InFlight') <= Publishers
  <2>1. Cardinality(InFlight') <= Cardinality(InFlight) /\ Cardinality(InFlight') \in Nat
    BY <1>0, <1>2, FS_Subset, FS_CardinalityType
  <2> QED
    BY <1>0, <2>1
<1>3. CASE Execute
  BY <1>2, <1>3 DEF Execute, InFlight
<1>4. CASE \E e \in Events : Resume(e)
  <2>1. PICK e \in Events : LogResume(e)
    BY <1>4, LogResumes
  <2>2. \A x \in 1..n : x # e => at'[x] = at[x]
    BY <2>1, ResumeQueue
  <2>3. e \in InFlight /\ n' = n /\ dead' = dead
    BY <2>1 DEF LogResume, InFlight, Statements
  <2> QED
    BY <1>2, <2>2, <2>3 DEF InFlight
<1>5. CASE LogCrash
  <2>1. 1..n \subseteq Events /\ \A e \in 1..n : e <= n
    BY EventLogAssumption DEF Events, LogTypes
  <2>2. InFlight' = {}
    BY <1>5, <2>1 DEF LogCrash, InFlight
  <2> QED
    BY <1>2, <2>2
<1> QED
  BY <1>1, <1>3, <1>4, <1>5 DEF LogNext

LEMMA BehindIs ==
    ASSUME NEW q \in Seq(Events), NEW a
    PROVE  /\ DOMAIN q = 1..Len(q) /\ Len(q) \in Nat
           /\ \A x : x \in After(q, a) <=>
                 \E i, k \in 1..Len(q) : i <= k /\ a[q[i]] = "prune" /\ x = q[k]
           /\ Waits(q, a) <=> \E i \in 1..Len(q) : a[q[i]] = "prune"
<1>1. DOMAIN q = 1..Len(q) /\ Len(q) \in Nat
  OBVIOUS
<1>2. \A k \in 1..Len(q) : \A i : i \in 1..k <=> i \in 1..Len(q) /\ i <= k
  BY <1>1
<1>3. Waits(q, a) <=> \E i \in 1..Len(q) : a[q[i]] = "prune"
  BY <1>1 DEF Waits, Elements
<1>4. \A x : x \in After(q, a) <=>
         \E k \in 1..Len(q) : x = q[k] /\ \E i \in 1..k : a[q[i]] = "prune"
  BY <1>1 DEF After
<1> QED
  BY <1>1, <1>2, <1>3, <1>4

LEMMA BehindNow ==
    ASSUME LogTypes
    PROVE  /\ DOMAIN inbox = 1..Len(inbox) /\ Len(inbox) \in Nat
           /\ \A x : x \in Behind <=>
                 \E i, k \in 1..Len(inbox) : i <= k /\ at[inbox[i]] = "prune" /\ x = inbox[k]
           /\ Pending <=> \E i \in 1..Len(inbox) : at[inbox[i]] = "prune"
BY BehindIs DEF LogTypes, Pending, Behind

LEMMA BehindThen ==
    ASSUME LogTypes'
    PROVE  /\ \A x : x \in Behind' <=>
                 \E i, k \in 1..Len(inbox') :
                    i <= k /\ at'[inbox'[i]] = "prune" /\ x = inbox'[k]
           /\ Pending' <=> \E i \in 1..Len(inbox') : at'[inbox'[i]] = "prune"
<1>1. inbox' \in Seq(Events)
  BY DEF LogTypes
<1>2. Pending' = Waits(inbox', at') /\ Behind' = After(inbox', at')
  BY DEF Pending, Behind, Waits, After, Elements
<1> QED
  BY <1>1, <1>2, BehindIs

\* A statement is queued.
LEMMA BehindGrows ==
    ASSUME LogTypes, LogTypes', NEW e \in Events, inbox' = Append(inbox, e),
           \A x \in Elements(inbox) : at'[x] = at[x]
    PROVE  /\ Behind \subseteq Behind'
           /\ Pending => Pending'
           /\ Pending' => Pending \/ at'[e] = "prune"
           /\ Pending' => e \in Behind'
<1>1. /\ Len(inbox) \in Nat /\ DOMAIN inbox = 1..Len(inbox)
      /\ Len(inbox') = Len(inbox) + 1
      /\ \A i \in 1..Len(inbox) : inbox'[i] = inbox[i]
      /\ inbox'[Len(inbox) + 1] = e
  BY Appended DEF LogTypes
<1>2. \A i \in 1..Len(inbox) : at'[inbox'[i]] = at[inbox[i]] /\ i \in 1..Len(inbox')
  BY <1>1 DEF Elements
<1>3. /\ \A x : x \in Behind' <=>
            \E i, k \in 1..Len(inbox') : i <= k /\ at'[inbox'[i]] = "prune" /\ x = inbox'[k]
      /\ Pending' <=> \E i \in 1..Len(inbox') : at'[inbox'[i]] = "prune"
  BY BehindThen
<1>4. Behind \subseteq Behind'
  BY <1>1, <1>2, <1>3, BehindNow
<1>5. Pending => Pending'
  BY <1>1, <1>2, <1>3, BehindNow
<1>6. Pending' => Pending \/ at'[e] = "prune"
  BY <1>1, <1>2, <1>3, BehindNow
<1>7. ASSUME Pending'
      PROVE  e \in Behind'
  <2>1. PICK i \in 1..Len(inbox') : at'[inbox'[i]] = "prune"
    BY <1>3, <1>7
  <2>2. i <= Len(inbox') /\ Len(inbox') \in 1..Len(inbox') /\ inbox'[Len(inbox')] = e
    BY <1>1
  <2> QED
    BY <1>3, <2>1, <2>2
<1> QED
  BY <1>4, <1>5, <1>6, <1>7

\* A statement other than the DELETE is carried out.
LEMMA BehindStays ==
    ASSUME LogTypes, LogTypes', LogExecute, at[Head(inbox)] # "prune"
    PROVE  /\ Behind \subseteq Behind'
           /\ Pending' <=> Pending
<1>1. /\ Len(inbox) \in Nat \ {0} /\ inbox[1] = Head(inbox)
      /\ Len(inbox') = Len(inbox) - 1
      /\ \A i \in 1..Len(inbox') : inbox'[i] = inbox[i + 1]
      /\ at' = at
  BY Beheaded DEF LogTypes, LogExecute
<1>2. \A i \in 1..Len(inbox) : at[inbox[i]] = "prune" => i # 1
  BY <1>1
<1>3. /\ \A x : x \in Behind' <=>
            \E i, k \in 1..Len(inbox') : i <= k /\ at'[inbox'[i]] = "prune" /\ x = inbox'[k]
      /\ Pending' <=> \E i \in 1..Len(inbox') : at'[inbox'[i]] = "prune"
  BY BehindThen
<1>4. \A i \in 1..Len(inbox) : i # 1 => i - 1 \in 1..Len(inbox') /\ inbox'[i - 1] = inbox[i]
  BY <1>1
<1>5. ASSUME NEW x \in Behind
      PROVE  x \in Behind'
  <2>1. PICK i \in 1..Len(inbox), k \in 1..Len(inbox) :
            i <= k /\ at[inbox[i]] = "prune" /\ x = inbox[k]
    BY BehindNow
  <2>2. i # 1 /\ k # 1
    BY <1>1, <1>2, <2>1
  <2>3. i - 1 \in 1..Len(inbox') /\ k - 1 \in 1..Len(inbox') /\ i - 1 <= k - 1
        /\ at'[inbox'[i - 1]] = "prune" /\ x = inbox'[k - 1]
    BY <1>1, <1>4, <2>1, <2>2
  <2> QED
    BY <1>3, <2>3
<1>6. Pending => Pending'
  BY <1>1, <1>2, <1>3, <1>4, BehindNow
<1>7. Pending' => Pending
  <2>1. \A i \in 1..Len(inbox') : i + 1 \in 1..Len(inbox) /\ inbox[i + 1] = inbox'[i]
    BY <1>1
  <2> QED
    BY <1>1, <1>3, <2>1, BehindNow
<1> QED
  BY <1>5, <1>6, <1>7

LEMMA Shrinks ==
    ASSUME LogTypes, Lined, Rows, Counted' \subseteq Counted
    PROVE  Cardinality(Counted') <= Cardinality(Counted) /\ Cardinality(Counted') \in Nat
BY LogFinite, FS_Subset, FS_CardinalityType

LEMMA BaseStep ==
    ASSUME LogInv, LogTypes', Rows', LogNext,
           ~spared' /\ stage' # "down"
    PROVE  /\ written' <= Slack
           /\ Pending' => written' >= Cap
           /\ Cardinality(Counted') <= IF Pending' THEN Slack ELSE written'
<1> USE DEF LogInv
<1>0. /\ Slack \in Nat /\ Cap \in Nat \ {0} /\ Cap <= Slack /\ written \in Nat
      /\ written <= Slack /\ (Pending => written >= Cap)
      /\ Cardinality(Counted) \in Nat
  BY SlackFacts, LogFinite DEF LogTypes, Bound
<1>1. CASE LogPublish
  <2>1. /\ ~spared /\ stage # "down" /\ written' = written /\ table' = table
        /\ inbox' = Append(inbox, n + 1)
    BY <1>1 DEF LogPublish
  <2>2. Behind \subseteq Behind' /\ (Pending' <=> Pending)
    BY <1>1, <2>1, PublishQueue, BehindGrows DEF Lined
  <2>3. Counted' \subseteq Counted
    BY <1>1, <2>1, <2>2, PublishQueue DEF Counted, Elements, Rows
  <2> QED
    BY <1>0, <2>1, <2>2, <2>3, Shrinks DEF Bound
<1>2. CASE LogExecute
  <2>a. spared' = spared \/ spared' = (spared \/ at[Head(inbox)] = "prune")
    BY <1>2 DEF LogExecute
  <2>b. ~spared
    BY <2>a, Zenon
  <2>1. written' = written /\ stage # "down" /\ ~spared
    BY <1>2, <2>b DEF LogExecute
  <2>2. CASE at[Head(inbox)] # "prune"
    <3>1. Behind \subseteq Behind' /\ (Pending' <=> Pending)
      BY <1>2, <2>2, BehindStays
    <3>2. \/ table' = table
          \/ at[Head(inbox)] = "insert" /\ table' = Append(table, Head(inbox))
      BY <1>2, <2>2 DEF LogExecute
    <3>3. Elements(table)' \subseteq Elements(table)
             \cup (IF at[Head(inbox)] = "insert" THEN {Head(inbox)} ELSE {})
      <4>1. Elements(table)' = Elements(table')
        BY DEF Elements
      <4>2. Elements(Append(table, Head(inbox))) = Elements(table) \cup {Head(inbox)}
        BY <1>2, ExecuteQueue, Appended DEF LogTypes
      <4> QED
        BY <3>2, <4>1, <4>2
    <3>4. at' = at
      BY <1>2 DEF LogExecute
    <3>5. Counted' \subseteq Counted
      BY <3>1, <3>3, <3>4 DEF Counted
    <3> QED
      BY <1>0, <2>1, <3>1, <3>5, Shrinks DEF Bound
  <2>3. CASE at[Head(inbox)] = "prune"
    <3>1. Pending
      BY <2>3, <1>2, ExecuteQueue DEF Pending, Waits
    <3>2. table' = Prune
      BY <1>2, <2>3 DEF LogExecute
    <3>3. Len(table') <= Cap - 1 /\ Len(table') \in Nat
      <4>1. Len(table) \in Nat /\ Cap - 1 \in Nat /\ table \in Seq(Nat)
        BY <1>0, RowType
      <4>2. Len(Newest(table, Cap - 1)) = IF Len(table) <= Cap - 1 THEN Len(table) ELSE Cap - 1
        BY <4>1, NewestFacts
      <4> QED
        BY <1>0, <3>2, <4>1, <4>2 DEF Prune
    <3>4. table' \in Seq(Nat) /\ Rising(table')
      <4>1. table' \in Seq(Events)
        BY DEF LogTypes
      <4>2. Events \subseteq Nat
        BY DEF Events
      <4> QED
        BY <4>1, <4>2, SeqOfMore, <3>2, PruneRises
    <3>5. IsFiniteSet(Elements(table')) /\ Cardinality(Elements(table')) = Len(table')
      BY <3>4, RisingCount
    <3>6. Counted' \subseteq Elements(table')
      BY DEF Counted, Elements
    <3>7. Cardinality(Counted') <= Len(table') /\ Cardinality(Counted') \in Nat
      BY <3>5, <3>6, FS_Subset, FS_CardinalityType
    <3> QED
      BY <1>0, <2>1, <3>1, <3>3, <3>7
  <2> QED
    BY <2>2, <2>3
<1>3. ASSUME NEW e \in Events, Resume(e)
      PROVE  /\ written' <= Slack
             /\ Pending' => written' >= Cap
             /\ Cardinality(Counted') <= IF Pending' THEN Slack ELSE written'
  <2>0. LogResume(e)
    BY <1>3, LogResumes
  <2>1. /\ ~spared /\ stage # "down" /\ e \notin Elements(inbox) /\ table' = table
    BY <2>0 DEF LogResume
  <2>2. /\ \A x \in Events \ {e} : at'[x] = at[x]
        /\ Elements(inbox) \subseteq Events /\ Elements(table) \subseteq Events
        /\ Elements(table)' = Elements(table)
    BY <2>0, <2>1, ResumeQueue DEF Lined, Rows, Elements
  <2>3. /\ Behind \subseteq Behind'
        /\ Pending => Pending'
        /\ Pending' => Pending \/ at'[e] = "prune"
        /\ at'[e] # "done" /\ Pending' => e \in Behind'
    <3>1. CASE inbox' = Append(inbox, e)
      BY <2>1, <2>2, <3>1, BehindGrows
    <3>2. CASE at' = [at EXCEPT ![e] = "done"] /\ inbox' = inbox
      <4>1. at'[e] = "done"
        BY <3>2 DEF LogTypes
      <4>2. Elements(inbox)' = Elements(inbox) /\ \A x \in Elements(inbox) : at'[x] = at[x]
        BY <2>1, <2>2, <3>2 DEF Elements
      <4>3. \A i \in DOMAIN inbox : at'[inbox'[i]] = at[inbox[i]] /\ inbox'[i] = inbox[i]
        BY <3>2, <4>2 DEF Elements
      <4>4. DOMAIN inbox = 1..Len(inbox) /\ Len(inbox) \in Nat
        BY BehindNow
      <4>5. Pending' <=> Pending
        BY <4>2 DEF Pending, Waits
      <4>6. Behind' = Behind
        BY <3>2, <4>3, <4>4 DEF Behind, After
      <4> QED
        BY <4>1, <4>5, <4>6
    <3> QED
      BY <2>0, <3>1, <3>2 DEF LogResume
  <2>4. Counted' \subseteq Counted \cup {e}
    BY <2>2, <2>3 DEF Counted
  <2>5. \/ at'[e] \in {"insert", "commit"}
        \/ at[e] \notin {"insert", "commit"}
        \/ at'[e] # "done" /\ Pending'
        => Counted' \subseteq Counted
    BY <2>1, <2>2, <2>3, <2>4 DEF Counted, Behind, After, Elements
  <2>6. /\ Cardinality(Counted') \in Nat /\ Cardinality(Counted') <= Cardinality(Counted) + 1
    <3>1. /\ IsFiniteSet(Counted \cup {e})
          /\ \/ Cardinality(Counted \cup {e}) = Cardinality(Counted)
             \/ Cardinality(Counted \cup {e}) = Cardinality(Counted) + 1
      BY LogFinite, FS_AddElement
    <3>2. Cardinality(Counted') <= Cardinality(Counted \cup {e}) /\ Cardinality(Counted') \in Nat
      BY <2>4, <3>1, FS_Subset, FS_CardinalityType
    <3> QED
      BY <1>0, <3>1, <3>2
  <2>7. Cardinality(Counted) <= IF Pending THEN Slack ELSE written
    BY <2>1 DEF Bound
  <2>8. CASE Commit(e)
    <3>1. written' = written /\ at'[e] = "commit"
      BY <2>8 DEF Commit, Ask, LogTypes
    <3> QED
      BY <1>0, <2>3, <2>5, <2>7, <3>1, Shrinks
  <2>9. CASE Count(e)
    <3>1. CASE written + 1 <= Slack
      <4>1. written' = written + 1 /\ at'[e] \in {"update", "settle"}
        BY <2>9, <3>1 DEF Count, Ask, Update, LogTypes
      <4> QED
        BY <1>0, <2>3, <2>5, <2>6, <2>7, <3>1, <4>1, Shrinks
    <3>2. CASE ~(written + 1 <= Slack)
      <4>1. written' = Cap /\ at'[e] = "prune" /\ inbox' = Append(inbox, e)
        BY <2>9, <3>2 DEF Count, Ask, LogTypes
      <4>2. e \in Elements(inbox)'
        BY <2>0, <4>1, ResumeQueue
      <4>3. Pending'
        BY <4>1, <4>2 DEF Pending, Waits
      <4> QED
        BY <1>0, <2>5, <2>7, <4>1, <4>3, Shrinks
    <3> QED
      BY <3>1, <3>2
  <2>10. CASE Proceed(e)
    <3>1. /\ written' = written /\ at[e] \notin {"insert", "commit"}
          /\ at'[e] # "prune"
      BY <2>10 DEF Proceed, Ask, Update, LogTypes
    <3> QED
      BY <1>0, <2>3, <2>5, <2>7, <3>1, Shrinks
  <2> QED
    BY <1>3, <2>8, <2>9, <2>10 DEF Resume
<1>4. LogPublish \/ LogExecute \/ \E e \in Events : Resume(e)
  <2>1. CASE Emit \/ Finish \/ Raise \/ CancelTask
    BY <2>1, PublishSteps
  <2>2. CASE Execute
    BY <2>2 DEF Execute, Succeed, Fail, LogExecute
  <2> QED
    BY <2>1, <2>2 DEF LogNext, LogCrash
<1> QED
  BY <1>1, <1>2, <1>3, <1>4

LEMMA BoundStep ==
    ASSUME LogInv, LogTypes', Rows', LogNext
    PROVE  Bound'
<1> USE DEF LogInv
<1>0. /\ Slack \in Nat /\ Publishers \in Nat /\ Cardinality(dead) \in Nat
      /\ written <= Slack /\ (Pending => written >= Cap)
  BY SlackFacts, LogFinite DEF LogTypes, Bound
<1>1. Cardinality(InFlight)' <= Publishers
  BY InFlightStep DEF Bound
<1>2. written' <= Slack /\ (Pending' => written' >= Cap)
  <2>1. CASE LogPublish
    <3>1. inbox' = Append(inbox, n + 1) /\ written' = written
      BY <2>1 DEF LogPublish
    <3>2. Pending' => Pending
      BY <2>1, <3>1, PublishQueue, BehindGrows DEF Lined
    <3> QED
      BY <1>0, <3>1, <3>2
  <2>2. CASE LogExecute
    <3>1. written' = written /\ at' = at
      BY <2>2 DEF LogExecute
    <3>2. Pending' => Pending
      BY <2>2, <3>1, ExecuteQueue DEF Pending, Waits
    <3> QED
      BY <1>0, <3>1, <3>2
  <2>3. ASSUME NEW e \in Events, Resume(e)
        PROVE  written' <= Slack /\ (Pending' => written' >= Cap)
    <3>1. LogResume(e)
      BY <2>3, LogResumes
    <3>2. Pending' => Pending \/ at'[e] = "prune"
      BY <3>1, ResumeQueue DEF Pending, Waits, Lined
    <3>3. \/ written' = written /\ at'[e] # "prune"
          \/ written + 1 <= Slack /\ written' = written + 1 /\ at'[e] # "prune"
          \/ written' = Cap
      BY <2>3 DEF Resume, Commit, Count, Proceed, Ask, Update, LogTypes
    <3>4. Cap \in Nat /\ Cap <= Slack /\ written \in Nat
      BY SlackFacts DEF LogTypes
    <3> QED
      BY <1>0, <3>2, <3>3, <3>4
  <2>4. CASE LogCrash
    <3>1. written' = 0 /\ ~Pending'
      BY <2>4 DEF LogCrash, Pending, Waits, Elements
    <3> QED
      BY <1>0, <3>1
  <2> QED
    <3>1. CASE Emit \/ Finish \/ Raise \/ CancelTask
      BY <2>1, <3>1, PublishSteps
    <3>2. CASE Execute
      BY <2>2, <3>2 DEF Execute, Succeed, Fail, LogExecute
    <3> QED
      BY <2>3, <2>4, <3>1, <3>2 DEF LogNext
<1>3. ~spared' /\ stage' # "down" =>
        Cardinality(Counted)' <= IF Pending' THEN Slack ELSE written'
  BY BaseStep
<1>4. ~spared' => Len(disk'.table) <= Slack + Publishers + Cardinality(dead)'
  <2>1. spared \in BOOLEAN /\ (spared => spared')
    BY Zenon, LogSteps DEF LogPublish, LogExecute, LogResume, LogCrash, LogTypes
  <2>2. /\ Cardinality(dead') \in Nat /\ Cardinality(dead) <= Cardinality(dead')
    <3>1. dead \subseteq dead' /\ dead' \subseteq Events
      BY LogSteps DEF LogPublish, LogExecute, LogResume, LogCrash, LogTypes
    <3>2. IsFiniteSet(Events)
      BY EventLogAssumption, FS_Interval DEF Events, LogTypes
    <3> QED
      BY <3>1, <3>2, FS_Subset, FS_CardinalityType
  <2>3. disk'.table = disk.table \/ disk'.table = table
    <3>1. disk' = disk \/ disk' = [table |-> table, status |-> status]
      BY LogSteps DEF LogPublish, LogExecute, LogResume, LogCrash
    <3> QED
      BY <3>1
  <2>4. /\ ~spared => Len(disk.table) <= Slack + Publishers + Cardinality(dead)
        /\ ~spared => Len(table) <= Slack + Publishers + Cardinality(dead)
    BY TableIsBounded DEF Bound
  <2>5. Len(table) \in Nat /\ Len(disk.table) \in Nat
    BY RowType
  <2> QED
    BY <1>0, <2>1, <2>2, <2>3, <2>4, <2>5
<1> QED
  BY <1>1, <1>2, <1>3, <1>4 DEF Bound

-----------------------------------------------------------------------------
(***************************************************************************)
(* The invariant of the log.                                               *)
(***************************************************************************)
LEMMA LogStarts == LogInit => LogInv
<1> SUFFICES ASSUME LogInit
             PROVE  LogInv
  OBVIOUS
<1> USE DEF LogInit
<1>0. /\ Slack \in Nat /\ Cap \in Nat \ {0} /\ Publishers \in Nat \ {0} /\ MaxEvents \in Nat
      /\ inbox = <<>> /\ table = <<>> /\ ring = <<>> /\ n = 0 /\ outcome = 0 /\ dead = {} /\ written = 0
      /\ disk.table = <<>> /\ disk.status = "running" /\ status = "running"
      /\ 1..n = {}
  BY EventLogAssumption, SlackFacts
<1>1. Elements(<<>>) = {}
  BY DEF Elements
<1>2. LogTypes
  <2>1. /\ at \in [Events -> {"unborn", "done"} \cup Statements]
        /\ disk \in [table : Seq(Events), status : {"running", "settled"}]
        /\ <<>> \in Seq(Events)
    OBVIOUS
  <2>2. n \in 0..MaxEvents /\ outcome \in 0..n /\ Len(ring) <= Cap
    BY <1>0
  <2>3. ring \in Seq(Events) /\ inbox \in Seq(Events) /\ table \in Seq(Events)
    BY <1>0, <2>1
  <2>4. /\ dead \subseteq Events /\ failed \subseteq Events /\ skipped \subseteq Events
        /\ written \in Nat /\ status \in {"running", "settled"}
        /\ stage \in {"running", "settled", "down"}
    BY <1>0
  <2>5. spared \in BOOLEAN /\ stray \in BOOLEAN
    BY Zenon
  <2> QED
    BY <2>1, <2>2, <2>3, <2>4, <2>5 DEF LogTypes
<1>3. Lined /\ Rows
  BY <1>0, <1>1 DEF Lined, Rows, Rising
<1>4. Inserted = {}
  BY <1>0 DEF Inserted
<1>5. Kept /\ Outcome
  BY <1>0, <1>4 DEF Kept, Outcome, OutcomeLogged
<1>6. InFlight = {} /\ Counted = {} /\ ~Pending
  BY <1>0, <1>1 DEF InFlight, Counted, Pending, Waits
<1>7. Cardinality({}) = 0 /\ Len(<<>>) = 0
  BY FS_EmptySet
<1>8. Bound
  BY <1>0, <1>6, <1>7 DEF Bound
<1> QED
  BY <1>2, <1>3, <1>5, <1>8 DEF LogInv

LEMMA LogSteadies == LogInv /\ [LogNext]_logVars => LogInv'
<1> SUFFICES ASSUME LogInv, [LogNext]_logVars
             PROVE  LogInv'
  OBVIOUS
<1>1. CASE LogNext
  <2>0. LogTypes /\ Lined /\ Rows /\ Kept /\ Outcome
    BY DEF LogInv
  <2>1. LogPublish \/ LogExecute \/ (\E e \in Events : LogResume(e)) \/ LogCrash
    BY <1>1, <2>0, LogSteps
  <2>2. LogTypes'
    BY <2>0, <2>1, TypesStep
  <2>3. Lined'
    BY <2>0, <2>1, LinedStep
  <2>4. Rows'
    BY <2>0, <2>1, RowsStep
  <2>5. Kept'
    BY <2>0, <2>1, KeptStep
  <2>6. Outcome'
    BY <2>0, <2>1, OutcomeStep
  <2>7. Bound'
    BY <1>1, <2>2, <2>4, BoundStep
  <2> QED
    BY <2>2, <2>3, <2>4, <2>5, <2>6, <2>7 DEF LogInv
<1>2. CASE UNCHANGED logVars
  <2>1. UNCHANGED <<stage, n, outcome, stray, ring, at, inbox, dead, written, table, status,
                    disk, failed, skipped, spared>>
    BY <1>2 DEF logVars
  <2>2. LogTypes'
    BY <2>1 DEF LogInv, LogTypes
  <2>3. Lined' /\ Rows'
    BY <2>1 DEF LogInv, Lined, Rows, Rising, Elements
  <2>4. Kept' /\ Outcome'
    BY <2>1 DEF LogInv, Kept, Outcome, OutcomeLogged, Inserted, Elements
  <2>5. Bound'
    BY <2>1 DEF LogInv, Bound, Counted, Pending, Behind, Waits, After, InFlight, Elements
  <2> QED
    BY <2>2, <2>3, <2>4, <2>5 DEF LogInv
<1> QED
  BY <1>1, <1>2

(***************************************************************************)
(* The inductive invariant of the log.                                     *)
(***************************************************************************)
THEOREM LogInvariance == LogSpec => []LogInv
BY LogStarts, LogSteadies, PTL DEF LogSpec

(***************************************************************************)
(* Types, and the bound of the table: whatever interleaving of publishers, *)
(* cancelled ones and trims, the rows of a job exceed the slack by no more *)
(* than the publishers in flight and the cancelled ones.                   *)
(***************************************************************************)
THEOREM LogIsBounded == LogSpec => []LogTypeOK
<1>1. LogInv => LogTypeOK
  <2> SUFFICES ASSUME LogInv
               PROVE  LogTypeOK
    OBVIOUS
  <2>1. LogTypes
    BY DEF LogInv
  <2>2. ~spared => Len(table) <= Slack + Publishers + Cardinality(dead)
    BY TableIsBounded
  <2> QED
    BY <2>1, <2>2 DEF LogTypeOK, LogTypes
<1> QED
  BY <1>1, LogInvariance, PTL

(***************************************************************************)
(* What a restart shows of a job is its events in the order of their       *)
(* publication, none twice.                                                *)
(***************************************************************************)
THEOREM HistoryIsOrdered == LogSpec => []RestoredInOrder
<1>1. LogInv => RestoredInOrder
  <2> SUFFICES ASSUME LogInv
               PROVE  RestoredInOrder
    OBVIOUS
  <2>1. Cap \in Nat /\ disk.table \in Seq(Nat) /\ Rising(disk.table)
    BY RowType, SlackFacts DEF LogInv, LogTypes, Rows
  <2>2. Rising(Restored)
    BY <2>1, NewestRises DEF Restored
  <2> QED
    BY <2>2 DEF RestoredInOrder, Rising
<1> QED
  BY <1>1, LogInvariance, PTL

(***************************************************************************)
(* A job that is settled on disk has its outcome event there too, unless   *)
(* that INSERT failed or a failed body's branches emitted on and left      *)
(* Cap - 1 later events: for every cap but 1, with which the trim deletes  *)
(* every row.                                                              *)
(***************************************************************************)
THEOREM OutcomesAreLogged == Cap > 1 /\ LogSpec => []OutcomeLogged
<1> SUFFICES ASSUME Cap > 1
             PROVE  LogSpec => []OutcomeLogged
  OBVIOUS
<1>1. LogInv => OutcomeLogged
  BY DEF LogInv, Outcome
<1> QED
  BY <1>1, LogInvariance, PTL

(***************************************************************************)
(* No trim eats into the newest Cap - 1 events, whoever inserts meanwhile. *)
(***************************************************************************)
THEOREM TrimsKeepTheNewest == LogSpec => []NewestAreKept
<1>1. LogInv => NewestAreKept
  <2> SUFFICES ASSUME LogInv, AtRest, NEW e \in Elements(ring) \ skipped,
                      e > n - Cap + 1, e \notin Elements(table)
               PROVE  FALSE
    BY DEF NewestAreKept
  <2>1. /\ stage # "down" /\ inbox = <<>> /\ e \in 1..n /\ n \in Nat /\ Cap \in Nat \ {0}
        /\ e \in Nat
    BY SlackFacts DEF AtRest, LogInv, Lined, LogTypes
  <2>2. e \in Inserted
    BY <2>1 DEF Inserted, Elements
  <2>3. /\ Len(table) >= Cap - 1
        /\ \A i \in DOMAIN table : i > Len(table) - (Cap - 1) => table[i] > e
    BY <2>1, <2>2 DEF LogInv, Kept
  <2>4. /\ Len(table) \in Nat /\ DOMAIN table = 1..Len(table) /\ table \in Seq(Nat)
        /\ Rising(table) /\ \A i \in DOMAIN table : table[i] \in 1..n
    BY RowType DEF LogInv, Rows, Elements
  <2> DEFINE p == Newest(table, Cap - 1)
  <2>5. Cap - 1 \in Nat /\ Cardinality(Elements(p)) = Cap - 1
    <3>1. Cap - 1 \in Nat
      BY <2>1
    <3>a. p \in Seq(Nat) /\ Rising(p)
      BY <2>4, <3>1, NewestType, NewestRises
    <3>b. Len(p) = IF Len(table) <= Cap - 1 THEN Len(table) ELSE Cap - 1
      BY <2>4, <3>1, NewestFacts
    <3>2. p \in Seq(Nat) /\ Rising(p) /\ Len(p) = Cap - 1
      BY <2>1, <2>3, <2>4, <3>a, <3>b
    <3> QED
      BY <3>1, <3>2, RisingCount
  <2>6. Elements(p) \subseteq (e + 1)..n
    <3>0. /\ Len(p) = IF Len(table) <= Cap - 1 THEN Len(table) ELSE Cap - 1
          /\ DOMAIN p = 1..Len(p)
          /\ \A i \in 1..Len(p) : /\ i + (Len(table) - Len(p)) \in 1..Len(table)
                                  /\ p[i] = table[i + (Len(table) - Len(p))]
      <4>1. table \in Seq(Nat) /\ Cap - 1 \in Nat
        BY <2>4, <2>5
      <4> QED BY ONLY <4>1, NewestFacts
    <3> HIDE DEF p
    <3>1. Len(p) = Cap - 1
      <4>1. Cap \in Nat /\ Len(table) \in Nat /\ Len(table) >= Cap - 1
        BY <2>1, <2>3, <2>4
      <4>2. Len(p) = IF Len(table) <= Cap - 1 THEN Len(table) ELSE Cap - 1
        BY <3>0
      <4> QED BY ONLY <4>1, <4>2
    <3>2. ASSUME NEW i \in 1..Len(p)
          PROVE  p[i] \in (e + 1)..n
      <4> DEFINE k == i + (Len(table) - Len(p))
      <4>0. k \in 1..Len(table) /\ p[i] = table[k]
        BY <3>0
      <4>1. k \in DOMAIN table /\ k > Len(table) - (Cap - 1) /\ p[i] = table[k]
        <5>1. k = i + (Len(table) - (Cap - 1)) /\ i \in Nat /\ i > 0
          BY <3>1
        <5> HIDE DEF k
        <5> QED BY <2>1, <2>4, <4>0, <5>1
      <4> HIDE DEF k
      <4>2. table[k] > e /\ table[k] \in 1..n
        BY <2>3, <2>4, <4>1
      <4> QED
        BY <2>1, <4>1, <4>2
    <3> QED
      BY <3>0, <3>2 DEF Elements
  <2>7. IsFiniteSet((e + 1)..n) /\ Cardinality((e + 1)..n) <= Cap - 2
    <3>1. e + 1 \in Int /\ n \in Int /\ Cap \in Int
      BY <2>1
    <3>2. /\ IsFiniteSet((e + 1)..n)
          /\ Cardinality((e + 1)..n) = IF e + 1 > n THEN 0 ELSE n - (e + 1) + 1
      BY <3>1, FS_Interval
    <3>3. Cap > 1
      BY <2>1
    <3> QED
      BY <2>1, <3>2, <3>3
  <2>8. Cardinality(Elements(p)) <= Cardinality((e + 1)..n) /\ Cardinality((e + 1)..n) \in Nat
    BY <2>6, <2>7, FS_Subset, FS_CardinalityType
  <2> HIDE DEF p
  <2> QED
    BY <2>1, <2>5, <2>7, <2>8
<1> QED
  BY <1>1, LogInvariance, PTL
=============================================================================
