----------------------------- MODULE JobEventLog -----------------------------
(***************************************************************************)
(* The persisted history of one job: the writes of JobManager._publish and *)
(* SqliteJobStore.append_event, update and load_all (app/jobs/store.py).   *)
(*                                                                         *)
(* Publishers run concurrently (a site crawl and the branches of a research*)
(* run emit in parallel).  Each one awaits its statements in turn; all of  *)
(* them go through the one connection, whose thread executes them first in,*)
(* first out, and a commit commits whatever was executed before it.  A body*)
(* that fails leaves the siblings of its failed branch running, and they   *)
(* emit on after the outcome.                                              *)
(***************************************************************************)
EXTENDS Naturals, Sequences, FiniteSets

CONSTANTS
    Cap,        \* JOB_MAX_PROGRESS_EVENTS, the cap of append_event
    Faults,     \* the statements that may fail
    Publishers, \* bound: publishes in flight at a time
    MaxEvents   \* bound: events published in a behaviour

\* append_event: INSERT, commit, then perhaps DELETE, commit; then update, whose
\* UPDATE carries the running status or the settled one.
Statements == {"insert", "commit", "prune", "trim", "update", "settle", "save"}

ASSUME EventLogAssumption ==
    /\ Cap \in Nat \ {0}
    /\ Faults \subseteq Statements
    /\ Publishers \in Nat \ {0}
    /\ MaxEvents \in Nat

VARIABLES
    stage,   \* "running", "settled" (the outcome is published), "down"
    n,       \* events published so far
    outcome, \* the event that is the outcome, 0 before it
    stray,   \* branches of the failed body may still emit
    ring,    \* Job.progress
    at,      \* of each event: what its publisher awaits or has finished
    inbox,   \* the events whose publishers wait for the connection's thread
    dead,    \* events whose publisher was cancelled
    written, \* SqliteJobStore._written
    table,   \* job_events as the connection sees it
    status,  \* the status column of jobs, likewise: "running" or "settled"
    disk,    \* the same two as of the last commit
    failed,  \* events whose publisher's present statement raised
    skipped, \* history: events whose INSERT raised
    spared   \* history: a DELETE raised

logVars == <<stage, n, outcome, stray, ring, at, inbox, dead, written, table, status, disk,
             failed, skipped, spared>>

Events == 1..MaxEvents

\* Cap * _PRUNE_SLACK, in whole rows.
Slack == (3 * Cap) \div 2

\* Types, and the bound of the log of one job: the slack, the publishers in
\* flight and those cancelled before they were counted, unless a DELETE failed,
\* whose rows wait for the next one.
LogTypeOK ==
    /\ stage \in {"running", "settled", "down"}
    /\ n \in 0..MaxEvents
    /\ outcome \in 0..n
    /\ stray \in BOOLEAN
    /\ ring \in Seq(Events) /\ Len(ring) <= Cap
    /\ at \in [Events -> {"unborn", "done"} \cup Statements]
    /\ inbox \in Seq(Events)
    /\ dead \subseteq Events
    /\ written \in Nat
    /\ table \in Seq(Events)
    /\ status \in {"running", "settled"}
    /\ disk \in [table : Seq(Events), status : {"running", "settled"}]
    /\ failed \subseteq Events
    /\ skipped \subseteq Events
    /\ spared \in BOOLEAN
    /\ ~spared => Len(table) <= Slack + Publishers + Cardinality(dead)

LogInit ==
    /\ stage = "running"
    /\ n = 0
    /\ outcome = 0
    /\ stray = FALSE
    /\ ring = <<>>
    /\ at = [e \in Events |-> "unborn"]
    /\ inbox = <<>>
    /\ dead = {}
    /\ written = 0
    /\ table = <<>>
    /\ status = "running"
    /\ disk = [table |-> <<>>, status |-> "running"]
    /\ failed = {}
    /\ skipped = {}
    /\ spared = FALSE

-----------------------------------------------------------------------------
\* The newest k entries of s: a deque with maxlen k filled from s.
Newest(s, k)  == IF Len(s) <= k THEN s ELSE SubSeq(s, Len(s) - k + 1, Len(s))
Elements(s)   == {s[i] : i \in DOMAIN s}
InFlight      == {e \in 1..n : at[e] # "done"} \ dead

\* _publish: into the ring and, in the same step, the INSERT is queued.
Publish ==
    /\ n < MaxEvents
    /\ n' = n + 1
    /\ ring' = Newest(Append(ring, n + 1), Cap)
    /\ at' = [at EXCEPT ![n + 1] = "insert"]
    /\ inbox' = Append(inbox, n + 1)
    /\ UNCHANGED <<written, table, status, disk, failed, skipped, spared>>

\* By a branch of the body, or by one that a failed body has left behind.
Emit ==
    /\ stage = "running" \/ (stage = "settled" /\ stray)
    /\ Cardinality(InFlight) < Publishers
    /\ Publish
    /\ UNCHANGED <<stage, outcome, stray, dead>>

\* The task sets the status and publishes the outcome.
Conclude ==
    /\ stage = "running"
    /\ stage' = "settled"
    /\ outcome' = n + 1
    /\ Publish

\* The body has returned: every branch of it has, with its emits.
Finish ==
    /\ InFlight = {}
    /\ Conclude
    /\ UNCHANGED <<stray, dead>>

\* The body has failed: gather raised what one branch raised, and the others
\* go on, some amid an emit.  (That one has no emit in flight: the outcome
\* takes its place among the publishers.)
Raise ==
    /\ Cardinality(InFlight) < Publishers
    /\ Conclude
    /\ stray' = TRUE
    /\ UNCHANGED dead

\* The task is cancelled, and the branches with it: their emits are given up
\* where they stand, but the statements they queued stay with the thread.
CancelTask ==
    /\ Conclude
    /\ dead' = dead \cup InFlight
    /\ UNCHANGED stray

-----------------------------------------------------------------------------
(* The connection's thread.                                                *)

PruneNewestBug == IF Len(table) < Cap THEN table ELSE SubSeq(table, 1, Cap - 1)

PruneTooMuchBug == Newest(table, IF Cap > 1 THEN Cap - 2 ELSE 0)

\* DELETE ... seq <= (the seq at OFFSET Cap - 1, newest first): the row at that
\* offset is the Cap-th newest and goes too; with fewer rows nothing matches.
Prune == IF Len(table) < Cap THEN table ELSE Newest(table, Cap - 1)

Succeed(e) ==
    /\ table' = CASE at[e] = "insert" -> Append(table, e)
                  [] at[e] = "prune"  -> Prune
                  [] OTHER            -> table
    /\ status' = CASE at[e] = "update" -> "running"
                   [] at[e] = "settle" -> "settled"
                   [] OTHER            -> status
    /\ disk' = IF at[e] \in {"commit", "trim", "save"}
               THEN [table |-> table, status |-> status] ELSE disk
    /\ UNCHANGED <<failed, skipped, spared>>

\* The statement raises, for its publisher if that is not cancelled.
Fail(e) ==
    /\ at[e] \in Faults
    /\ failed' = failed \cup ({e} \ dead)
    /\ skipped' = IF at[e] = "insert" THEN skipped \cup {e} ELSE skipped
    /\ spared' = (spared \/ at[e] = "prune")
    /\ UNCHANGED <<table, status, disk>>

Execute ==
    /\ stage # "down"
    /\ inbox # <<>>
    /\ inbox' = Tail(inbox)
    /\ Succeed(Head(inbox)) \/ Fail(Head(inbox))
    /\ UNCHANGED <<stage, n, outcome, stray, ring, at, dead, written>>

-----------------------------------------------------------------------------
(* The publisher, back on the loop with its statement executed.            *)

Resumable(e) ==
    /\ stage # "down"
    /\ e \in 1..n /\ at[e] \in Statements
    /\ e \notin dead
    /\ e \notin Elements(inbox)

\* The next statement is queued.
Ask(e, statement) ==
    /\ at' = [at EXCEPT ![e] = statement]
    /\ inbox' = Append(inbox, e)

\* The UPDATE of this moment.
Update == IF stage = "settled" THEN "settle" ELSE "update"

CommitRetriedBug(e) ==
    /\ at[e] = "insert"
    /\ Ask(e, IF e \in failed THEN "insert" ELSE "commit")
    /\ UNCHANGED written

Commit(e) ==
    /\ at[e] = "insert"
    /\ e \notin failed
    /\ Ask(e, "commit")
    /\ UNCHANGED written

CountUnboundedBug(e) ==
    /\ at[e] = "commit" \/ (at[e] = "insert" /\ e \in failed)
    /\ written' = written + 1
    /\ Ask(e, Update)

Count(e) ==
    /\ at[e] = "commit" \/ (at[e] = "insert" /\ e \in failed)
    /\ IF written + 1 <= Slack
       THEN written' = written + 1 /\ Ask(e, Update)
       ELSE written' = Cap /\ Ask(e, "prune")

\* The statements that follow, up to the commit of the UPDATE.
Proceed(e) ==
    /\ \/ at[e] = "prune" /\ Ask(e, IF e \in failed THEN Update ELSE "trim")
       \/ at[e] = "trim" /\ Ask(e, Update)
       \/ at[e] \in {"update", "settle"} /\ e \notin failed /\ Ask(e, "save")
       \/ /\ at[e] = "save" \/ (at[e] \in {"update", "settle"} /\ e \in failed)
          /\ at' = [at EXCEPT ![e] = "done"]
          /\ UNCHANGED inbox
    /\ UNCHANGED written

\* _run has logged what its execute or its commit raised; an execute that
\* raised is not committed.
Resume(e) ==
    /\ Resumable(e)
    /\ Commit(e) \/ Count(e) \/ Proceed(e)
    /\ failed' = failed \ {e}
    /\ UNCHANGED <<stage, n, outcome, stray, ring, dead, table, status, disk, skipped, spared>>

\* The process dies, at any point: what it had in memory and what is not
\* committed is lost.
LogCrash ==
    /\ stage # "down"
    /\ stage' = "down"
    /\ ring' = <<>>
    /\ at' = [e \in Events |-> IF e <= n THEN "done" ELSE "unborn"]
    /\ inbox' = <<>>
    /\ written' = 0
    /\ failed' = {}
    /\ table' = disk.table
    /\ status' = disk.status
    /\ UNCHANGED <<n, outcome, stray, dead, disk, skipped, spared>>

LogNext ==
    \/ Emit \/ Finish \/ Raise \/ CancelTask
    \/ Execute
    \/ \E e \in Events : Resume(e)
    \/ LogCrash

LogSpec == LogInit /\ [][LogNext]_logVars

-----------------------------------------------------------------------------
(* Properties.                                                             *)

\* load_all appends the rows in seq order to a deque of Cap entries.
Restored == Newest(disk.table, Cap)

AtRest == stage # "down" /\ inbox = <<>>

(***************************************************************************)
(* What a restart shows of a job is its events in the order of their       *)
(* publication, none twice, whatever interleaving of concurrent publishers *)
(* wrote them and wherever the process died.                               *)
(***************************************************************************)
RestoredInOrder ==
    \A i, k \in DOMAIN Restored : i < k => Restored[i] < Restored[k]

(***************************************************************************)
(* A job that is settled on disk has its outcome event there too: the event*)
(* is written before any status that follows it, whoever writes that.      *)
(* Except that the INSERT failed, or that a failed body's stray branches   *)
(* have pushed the event out: then at least Cap - 1 later events are there.*)
(***************************************************************************)
OutcomeLogged ==
    disk.status = "settled" =>
        \/ outcome \in Elements(disk.table) \cup skipped
        \/ stray /\ Cardinality({e \in Elements(disk.table) : e > outcome}) >= Cap - 1

(***************************************************************************)
(* Whenever no statement waits for the thread, also those of publishers    *)
(* that were cancelled, the log misses at most the oldest of the events    *)
(* that the ring holds: the trim, which runs while other publishers        *)
(* insert, never eats into the newest Cap - 1.                             *)
(***************************************************************************)
NewestAreKept ==
    AtRest => \A e \in Elements(ring) \ skipped :
        e > n - Cap + 1 => e \in Elements(table)
=============================================================================
