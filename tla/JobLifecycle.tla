---------------------------- MODULE JobLifecycle ----------------------------
(***************************************************************************)
(* The life of background jobs: app/jobs/manager.py (JobManager) over      *)
(* app/jobs/store.py (SqliteJobStore, InMemoryJobStore), the DELETE        *)
(* handler of app/api/routes/jobs.py and the callers that create a job     *)
(* and submit it.                                                          *)
(*                                                                         *)
(* Everything runs on one asyncio loop, so code between two awaits is one  *)
(* action.  With an open SQLite store every publish awaits two writes; with*)
(* the in-memory store, or a database that would not open, _persist never  *)
(* yields and the publish is part of the step that makes it.               *)
(*                                                                         *)
(* What subscribers see is in JobStream, the persisted events are in       *)
(* JobEventLog.                                                            *)
(***************************************************************************)

CONSTANTS
    Jobs,      \* job identifiers; a uuid4 is drawn once and never again
    Durable    \* JOB_BACKEND: TRUE is "sqlite", FALSE is "memory"

ASSUME DurableAssumption == Durable \in BOOLEAN

VARIABLES
    phase,     \* of the process: "down", "up", "closing" (in shutdown)
    store,     \* TRUE while SqliteJobStore._conn is open
    job,       \* JobManager._jobs: the status, "absent" when not in the table
    task,      \* JobManager._tasks: where the coroutine _run stands
    cancelReq, \* a CancelledError is waiting to be thrown into the task
    saved,     \* the write the coroutine awaits has been carried out
    stamped,   \* JobManager._finished_at
    row,       \* the jobs table of the database, "absent" when no row
    purge,     \* rows _evict still has to delete
    asked      \* history: DELETE was answered 202 by this process

vars == <<phase, store, job, task, cancelReq, saved, stamped, row, purge, asked>>

(***************************************************************************)
(* JobStatus.failed is split by the error that comes with it: "cancelled", *)
(* the text of an exception, or RESTART_ERROR.                             *)
(***************************************************************************)
Failed   == {"cancelled", "errored", "interrupted"}
Terminal == {"completed"} \cup Failed
Live     == {"pending", "running"}
Status   == {"absent"} \cup Live \cup Terminal

\* Await points of _run at which a publish waits for the store.
Settling   == {"completing", "cancelling", "failing"}
Publishing == {"starting"} \cup Settling
\* No entry in _tasks, or a task that is done.
Over       == {"none", "over"}
\* The caller of create has not handed the job to a task.
Caller     == {"unborn", "creating", "abandoned"}
Inside     == {"ready", "working", "unwinding"}
TaskState  == Caller \cup Inside \cup Publishing \cup Over

TypeOK ==
    /\ phase \in {"down", "up", "closing"}
    /\ store \in BOOLEAN
    /\ job \in [Jobs -> Status]
    /\ task \in [Jobs -> TaskState]
    /\ cancelReq \in [Jobs -> BOOLEAN]
    /\ saved \in [Jobs -> BOOLEAN]
    /\ stamped \subseteq Jobs
    /\ row \in [Jobs -> Status]
    /\ purge \subseteq Jobs
    /\ asked \subseteq Jobs

Init ==
    /\ phase = "down"
    /\ store = FALSE
    /\ job = [j \in Jobs |-> "absent"]
    /\ task = [j \in Jobs |-> "unborn"]
    /\ cancelReq = [j \in Jobs |-> FALSE]
    /\ saved = [j \in Jobs |-> FALSE]
    /\ stamped = {}
    /\ row = [j \in Jobs |-> "absent"]
    /\ purge = {}
    /\ asked = {}

-----------------------------------------------------------------------------
(* Operations of the manager that its callers invoke.                      *)
(* Definitions named ...Bug are no part of the specification: each is a    *)
(* mistake this code could have made, kept to show which property finds it.*)

\* The table f without the jobs in gone, as dict.pop leaves it.
Without(f, gone) == [j \in Jobs |-> IF j \in gone THEN "absent" ELSE f[j]]

Idle(gone)  == [j \in Jobs |-> IF j \in gone THEN "none" ELSE task[j]]

\* _evict: any stamped job may be the one that aged past the retention.
Stale == SUBSET stamped

\* create: evict, insert the new job, then await its row.
Create(j) ==
    /\ phase = "up"
    /\ task[j] = "unborn"
    /\ \E stale \in Stale :
         /\ job' = [Without(job, stale) EXCEPT ![j] = "pending"]
         /\ task' = [Idle(stale) EXCEPT ![j] = "creating"]
         /\ stamped' = stamped \ stale
         /\ purge' = IF store THEN purge \cup stale ELSE purge
    /\ saved' = [saved EXCEPT ![j] = FALSE]
    /\ UNCHANGED <<phase, store, cancelReq, row, asked>>

\* The request that called create is itself cancelled while it awaits the row.
Abandon(j) ==
    /\ task[j] = "creating"
    /\ store
    /\ task' = [task EXCEPT ![j] = "abandoned"]
    /\ UNCHANGED <<phase, store, job, cancelReq, saved, stamped, row, purge, asked>>

Submit(j) ==
    /\ task[j] = "creating"
    /\ store => saved[j]
    /\ task' = [task EXCEPT ![j] = "ready"]
    /\ UNCHANGED <<phase, store, job, cancelReq, saved, stamped, row, purge, asked>>

\* A client holds the id only once the answer to its request is out, which
\* is after the first step of the task that submit scheduled.
Known(j) == task[j] \notin Caller \cup {"ready"}

CancellableBug(j) == Known(j) /\ job[j] # "absent"

Cancellable(j) == Known(j) /\ job[j] \in Live

\* DELETE /v1/jobs/{id} answered 202 (404 and 409 change nothing).
Cancel(j) ==
    /\ phase = "up"
    /\ Cancellable(j)
    /\ cancelReq' = [cancelReq EXCEPT ![j] = @ \/ task[j] \notin Over]
    /\ asked' = asked \cup {j}
    /\ UNCHANGED <<phase, store, job, task, saved, stamped, row, purge>>

\* One sweep of _evict_loop that finds something.
Sweep ==
    /\ phase = "up"
    /\ \E stale \in Stale \ {{}} :
         /\ job' = Without(job, stale)
         /\ task' = Idle(stale)
         /\ stamped' = stamped \ stale
         /\ purge' = IF store THEN purge \cup stale ELSE purge
    /\ UNCHANGED <<phase, store, cancelReq, saved, row, asked>>

-----------------------------------------------------------------------------
(* _run, one action from each await to the next.                           *)

\* First step: the publish of the "running" event comes before the try.
Begin(j) ==
    /\ task[j] = "ready"
    /\ job' = [job EXCEPT ![j] = "running"]
    /\ task' = [task EXCEPT ![j] = IF store THEN "starting" ELSE "working"]
    /\ saved' = [saved EXCEPT ![j] = FALSE]
    /\ UNCHANGED <<phase, store, cancelReq, stamped, row, purge, asked>>

EnterBody(j) ==
    /\ task[j] = "starting"
    /\ saved[j]
    /\ ~cancelReq[j]
    /\ task' = [task EXCEPT ![j] = "working"]
    /\ UNCHANGED <<phase, store, job, cancelReq, saved, stamped, row, purge, asked>>

\* The CancelledError leaves _run: neither except nor finally encloses it.
ThrowStarting(j) ==
    /\ task[j] = "starting"
    /\ cancelReq[j]
    /\ task' = [task EXCEPT ![j] = "over"]
    /\ cancelReq' = [cancelReq EXCEPT ![j] = FALSE]
    /\ UNCHANGED <<phase, store, job, saved, stamped, row, purge, asked>>

\* The outcome is set and published, and when nothing yields finally runs too.
Settle(j, outcome, stage) ==
    /\ job' = [job EXCEPT ![j] = outcome]
    /\ task' = [task EXCEPT ![j] = IF store THEN stage ELSE "over"]
    /\ saved' = [saved EXCEPT ![j] = FALSE]
    /\ stamped' = IF store THEN stamped ELSE stamped \cup {j}

BodyReturns(j) ==
    /\ task[j] = "working"
    /\ ~cancelReq[j]
    /\ Settle(j, "completed", "completing")
    /\ UNCHANGED <<phase, store, cancelReq, row, purge, asked>>

\* The body raised, in its own work or while it unwound from a cancellation.
BodyRaises(j) ==
    /\ task[j] \in {"working", "unwinding"}
    /\ ~cancelReq[j]
    /\ Settle(j, "errored", "failing")
    /\ UNCHANGED <<phase, store, cancelReq, row, purge, asked>>

ThrowBodyUncaughtBug(j) ==
    /\ task[j] = "working"
    /\ cancelReq[j]
    /\ task' = [task EXCEPT ![j] = "over"]
    /\ cancelReq' = [cancelReq EXCEPT ![j] = FALSE]
    /\ stamped' = stamped \cup {j}
    /\ UNCHANGED <<phase, store, job, saved, row, purge, asked>>

ThrowBodySwallowedBug(j) ==
    /\ task[j] = "working"
    /\ cancelReq[j]
    /\ cancelReq' = [cancelReq EXCEPT ![j] = FALSE]
    /\ UNCHANGED <<phase, store, job, task, saved, stamped, row, purge, asked>>

\* CancelledError thrown into the body, whose own handlers may await.
ThrowBody(j) ==
    /\ task[j] = "working"
    /\ cancelReq[j]
    /\ task' = [task EXCEPT ![j] = "unwinding"]
    /\ cancelReq' = [cancelReq EXCEPT ![j] = FALSE]
    /\ UNCHANGED <<phase, store, job, saved, stamped, row, purge, asked>>

BodyUnwound(j) ==
    /\ task[j] = "unwinding"
    /\ ~cancelReq[j]
    /\ Settle(j, "cancelled", "cancelling")
    /\ UNCHANGED <<phase, store, cancelReq, row, purge, asked>>

\* A second CancelledError cuts that unwinding short.
ThrowUnwinding(j) ==
    /\ task[j] = "unwinding"
    /\ cancelReq[j]
    /\ cancelReq' = [cancelReq EXCEPT ![j] = FALSE]
    /\ Settle(j, "cancelled", "cancelling")
    /\ UNCHANGED <<phase, store, row, purge, asked>>

\* CancelledError thrown into the publish of "completed", inside the try.
ThrowCompleting(j) ==
    /\ task[j] = "completing"
    /\ cancelReq[j]
    /\ cancelReq' = [cancelReq EXCEPT ![j] = FALSE]
    /\ Settle(j, "cancelled", "cancelling")
    /\ UNCHANGED <<phase, store, row, purge, asked>>

Finally(j) ==
    /\ task' = [task EXCEPT ![j] = "over"]
    /\ cancelReq' = [cancelReq EXCEPT ![j] = FALSE]
    /\ stamped' = stamped \cup {j}
    /\ UNCHANGED <<phase, store, job, saved, row, purge, asked>>

Published(j) ==
    /\ task[j] \in Settling
    /\ saved[j]
    /\ ~cancelReq[j]
    /\ Finally(j)

\* CancelledError thrown into the publish of an except clause.
ThrowSettling(j) ==
    /\ task[j] \in {"cancelling", "failing"}
    /\ cancelReq[j]
    /\ Finally(j)

-----------------------------------------------------------------------------
(* The store.  Its failures are logged and swallowed.                      *)

Awaited(j) == task[j] \in Publishing \cup {"creating", "abandoned"} /\ ~saved[j]

\* INSERT for create; UPDATE ... WHERE id, which finds nothing without a row.
Persist(j) ==
    /\ store
    /\ Awaited(j)
    /\ row' = IF task[j] \in Publishing /\ row[j] = "absent"
              THEN row
              ELSE [row EXCEPT ![j] = job[j]]
    /\ saved' = [saved EXCEPT ![j] = TRUE]
    /\ UNCHANGED <<phase, store, job, task, cancelReq, stamped, purge, asked>>

PersistFails(j) ==
    /\ store
    /\ Awaited(j)
    /\ saved' = [saved EXCEPT ![j] = TRUE]
    /\ UNCHANGED <<phase, store, job, task, cancelReq, stamped, row, purge, asked>>

\* The DELETE of _evict commits, or fails, or is cut off with its caller.
Purge(j) ==
    /\ j \in purge
    /\ row' \in {row, [row EXCEPT ![j] = "absent"]}
    /\ purge' = purge \ {j}
    /\ UNCHANGED <<phase, store, job, task, cancelReq, saved, stamped, asked>>

-----------------------------------------------------------------------------
(* The process.                                                            *)

\* shutdown, once the server has drained its requests.
Shutdown ==
    /\ phase = "up"
    /\ \A j \in Jobs : task[j] \notin {"creating", "ready"}
    /\ phase' = "closing"
    /\ cancelReq' = [j \in Jobs |-> cancelReq[j] \/ task[j] \notin Caller \cup Over]
    /\ UNCHANGED <<store, job, task, saved, stamped, row, purge, asked>>

\* Whatever is in memory is gone; only the rows are left.
ProcessEnds ==
    /\ phase' = "down"
    /\ store' = FALSE
    /\ job' = [j \in Jobs |-> "absent"]
    /\ task' = [j \in Jobs |-> IF task[j] = "unborn" THEN "unborn" ELSE "none"]
    /\ cancelReq' = [j \in Jobs |-> FALSE]
    /\ saved' = [j \in Jobs |-> FALSE]
    /\ stamped' = {}
    /\ purge' = {}
    /\ asked' = {}
    /\ UNCHANGED row

\* shutdown gathered its tasks and closed the store.
Close ==
    /\ phase = "closing"
    /\ \A j \in Jobs : task[j] \in Caller \cup Over
    /\ ProcessEnds

Crash ==
    /\ phase # "down"
    /\ ProcessEnds

ReconcileBug == [j \in Jobs |-> IF row[j] = "absent" THEN "absent" ELSE "interrupted"]

\* SqliteJobStore.start: one UPDATE over the rows a dead process left behind.
\* (That it fails once the connection is open is not modelled.)
Reconcile == [j \in Jobs |-> IF row[j] \in Live THEN "interrupted" ELSE row[j]]

\* start: load_all, stamp what is terminal, evict what is already stale.
Restore(table) ==
    \E stale \in SUBSET {j \in Jobs : table[j] \in Terminal} :
        \E kept \in SUBSET stale :
            /\ job' = Without(table, stale)
            /\ row' = Without(table, stale \ kept)
            /\ stamped' = {j \in Jobs : table[j] \in Terminal} \ stale

Start ==
    /\ phase = "down"
    /\ Durable
    /\ phase' = "up"
    /\ store' = TRUE
    /\ Restore(Reconcile)
    /\ UNCHANGED <<task, cancelReq, saved, purge, asked>>

\* The memory backend, or a database that does not open: an empty table.
StartEmpty ==
    /\ phase = "down"
    /\ phase' = "up"
    /\ UNCHANGED <<store, job, task, cancelReq, saved, stamped, row, purge, asked>>

-----------------------------------------------------------------------------
\* Steps the loop takes by itself once something is cancelled or saved.
TaskStep(j) ==
    \/ Begin(j)
    \/ EnterBody(j)
    \/ ThrowStarting(j)
    \/ ThrowBody(j)
    \/ BodyUnwound(j)
    \/ ThrowUnwinding(j)
    \/ ThrowCompleting(j)
    \/ Published(j)
    \/ ThrowSettling(j)

StoreStep(j) == Persist(j) \/ PersistFails(j) \/ Purge(j)

Next ==
    \/ \E j \in Jobs :
         \/ Create(j) \/ Abandon(j) \/ Submit(j) \/ Cancel(j)
         \/ TaskStep(j) \/ BodyReturns(j) \/ BodyRaises(j)
         \/ StoreStep(j)
    \/ Sweep \/ Shutdown \/ Close \/ Crash \/ Start \/ StartEmpty

Spec == Init /\ [][Next]_vars

(***************************************************************************)
(* The loop runs ready callbacks in turn and the connection's thread works *)
(* off its queue, so both are weakly fair, and time passes, so the sweeper *)
(* is.  Clients, failures, crashes and the body's own end are not.         *)
(***************************************************************************)
Fairness ==
    /\ \A j \in Jobs : WF_vars(TaskStep(j)) /\ WF_vars(StoreStep(j))
    /\ WF_vars(Sweep)

FairSpec == Spec /\ Fairness

-----------------------------------------------------------------------------
(* Properties.                                                             *)

(***************************************************************************)
(* While the process serves requests, a job that reached a terminal status *)
(* keeps that very outcome until it is evicted, whatever DELETE requests   *)
(* race with the publish of its result.  (A shutdown may still turn a      *)
(* completed job into a cancelled one: ThrowCompleting.)                   *)
(***************************************************************************)
OutcomeIsFinal ==
    [][phase = "up" /\ phase' = "up" =>
         \A j \in Jobs : job[j] \in Terminal => job'[j] \in {job[j], "absent"}]_vars

(***************************************************************************)
(* The eviction clock runs for a job exactly when its outcome is set and   *)
(* no task works on it any more: a sweep never takes a job out from under  *)
(* its task, and none of the ways a task ends after its outcome is set     *)
(* leaves the result in memory for the life of the process.                *)
(***************************************************************************)
StampedExactlyWhenSettled ==
    \A j \in Jobs : j \in stamped <=> job[j] \in Terminal /\ task[j] \in Over

(***************************************************************************)
(* The mirror never contradicts a serving process: an outcome on disk is   *)
(* the outcome the client of this process reads, however the writes failed *)
(* or were cut off.                                                        *)
(***************************************************************************)
MirrorAgrees ==
    phase = "up" => \A j \in Jobs :
        job[j] # "absent" /\ row[j] \in Terminal => row[j] = job[j]

(***************************************************************************)
(* Outside a shutdown an outcome that reached the disk is never rewritten, *)
(* in particular not by the reconciliation after a crash.                  *)
(***************************************************************************)
DurableOutcomeIsFinal ==
    [][phase # "closing" =>
         \A j \in Jobs : row[j] \in Terminal => row'[j] \in {row[j], "absent"}]_vars

(***************************************************************************)
(* A job this process inherited is never shown as pending or running: its  *)
(* task died with the process that owned it.  README: "A job left running  *)
(* by a killed process is reconciled at startup."                          *)
(***************************************************************************)
InheritedJobsAreSettled ==
    \A j \in Jobs : task[j] = "none" => job[j] \notin Live

(***************************************************************************)
(* A task that is done has left its job in a terminal status, so that a    *)
(* DELETE that was accepted ends in what API_REFERENCE promises: the job   *)
(* settles as failed once the task unwinds.                                *)
(***************************************************************************)
EndedTasksSettle ==
    phase = "up" => \A j \in Jobs : task[j] = "over" => job[j] \in Terminal

(***************************************************************************)
(* What active_counts reports as in flight is worked on: a job that is     *)
(* pending or running has a task, or a caller about to give it one.        *)
(***************************************************************************)
ActiveJobsHaveTasks ==
    phase = "up" => \A j \in Jobs :
        job[j] \in Live => task[j] \notin Over \cup {"abandoned"}

(***************************************************************************)
(* In a process without an open store (JOB_BACKEND=memory, or a database   *)
(* that did not open) both hold, whatever is cancelled and whenever: what  *)
(* breaks them with SQLite is the awaits of its writes.                    *)
(***************************************************************************)
MemoryJobsSettle == ~store => EndedTasksSettle /\ ActiveJobsHaveTasks

(***************************************************************************)
(* While the process serves, nothing lingers: an accepted DELETE is        *)
(* followed by the end of the task, at whichever await it is thrown, and a *)
(* settled job leaves memory even when no other job is ever created.       *)
(***************************************************************************)
NothingLingers ==
    \A j \in Jobs :
        /\ j \in asked ~> (task[j] \in Over \/ phase # "up")
        /\ j \in stamped ~> (job[j] = "absent" \/ phase # "up")

(***************************************************************************)
(* The whole manager, seen through GET, does only what JobContract says:   *)
(* statuses move forward one edge at a time, only finished jobs vanish,    *)
(* and a restart shows finished jobs only.                                 *)
(***************************************************************************)
Shown(j) ==
    IF phase # "up" \/ job[j] = "absent" THEN "none"
    ELSE IF job[j] \in Failed THEN "failed" ELSE job[j]

Contract == INSTANCE JobContract WITH
    serving <- phase = "up",
    known   <- {j \in Jobs : task[j] # "unborn"},
    view    <- [j \in Jobs |-> Shown(j)]

ImplementsContract == Contract!Spec
=============================================================================
