---------------------------- MODULE ResearchRuns ----------------------------
(***************************************************************************)
(* Paying for research: the daily cost cap, the clarification step, the    *)
(* per-key slots, the bill and the callback of a run, on its three         *)
(* surfaces: POST /v1/research answered in the request ("sync") or by a    *)
(* job ("job") in app/api/routes/research.py, and the deep_research tool   *)
(* ("mcp") in app/mcp/tools.py, with app/mcp/guards.py, app/core/cost.py   *)
(* and app/api/deps.py.                                                    *)
(*                                                                         *)
(* All runs belong to one API key.  One action is the code between two     *)
(* awaits; the ledger is the SQLite one, whose statements are executed by  *)
(* the connection's thread even when their caller has been cancelled.      *)
(* JobLifecycle says when a task can be cancelled; here a CancelledError   *)
(* simply arrives at an await.                                             *)
(***************************************************************************)
EXTENDS Naturals, FiniteSets

CONSTANTS
    Runs,     \* calls made with the key
    Slots,    \* MCP_RESEARCH_MAX_CONCURRENT; 0 is no bound
    Cap,      \* DAILY_COST_CAP_USD; 0 is no cap
    Faults,   \* statements of the ledger may fail
    MaxSpend  \* bound: what one run costs at most

ASSUME RunsAssumption ==
    /\ IsFiniteSet(Runs)
    /\ Slots \in Nat
    /\ Cap \in Nat
    /\ Faults \in BOOLEAN
    /\ MaxSpend \in Nat

VARIABLES
    kind,    \* of each run: the surface it came in on
    pc,      \* of each run: where its coroutine stands
    seen,    \* of each run: what the check read of the ledger
    outcome, \* of each run: how it ended, or is about to
    usage,   \* of each run: UsageTracker.total_cost_usd
    due,     \* of each run: the statement that bills it
    owed,    \* of each run: the cost that statement carries
    billed,  \* history: what the ledger has taken for each run
    heard,   \* of each run: what its webhook was told
    active,  \* ConcurrencyBound._active of the key
    ledger   \* cost_ledger: what the key has spent today

vars == <<kind, pc, seen, outcome, usage, due, owed, billed, heard, active, ledger>>

Surfaces == {"sync", "job", "mcp"}
Outcomes == {"none", "returned", "completed", "failed", "cancelled"}

TypeOK ==
    /\ kind \in [Runs -> Surfaces \cup {"none"}]
    /\ pc \in [Runs -> {"idle", "checking", "clarifying", "eliciting", "creating", "starting",
                        "running", "billing", "notifying", "over", "stranded"}]
    /\ seen \in [Runs -> {"nothing", "under", "over"}]
    /\ outcome \in [Runs -> Outcomes]
    /\ usage \in [Runs -> 0..MaxSpend]
    /\ due \in [Runs -> {"no", "asked", "done", "lost"}]
    /\ owed \in [Runs -> 0..MaxSpend]
    /\ billed \in [Runs -> Nat]
    /\ heard \in [Runs -> {"nothing", "undelivered", "completed", "failed"}]
    /\ active \in 0..Slots
    /\ ledger \in Nat

Init ==
    /\ kind = [r \in Runs |-> "none"]
    /\ pc = [r \in Runs |-> "idle"]
    /\ seen = [r \in Runs |-> "nothing"]
    /\ outcome = [r \in Runs |-> "none"]
    /\ usage = [r \in Runs |-> 0]
    /\ due = [r \in Runs |-> "no"]
    /\ owed = [r \in Runs |-> 0]
    /\ billed = [r \in Runs |-> 0]
    /\ heard = [r \in Runs |-> "nothing"]
    /\ active = 0
    /\ ledger = 0

-----------------------------------------------------------------------------
(* Parts of the steps.  Definitions named ...Bug are no part of the        *)
(* specification: each is a mistake this code could have made.             *)

Goto(r, place) == pc' = [pc EXCEPT ![r] = place]

End(r, how) ==
    /\ Goto(r, "over")
    /\ outcome' = [outcome EXCEPT ![r] = how]

\* record_usage: the INSERT is queued and awaited; nothing is, for no cost.
Record(r, how) ==
    /\ Goto(r, "billing")
    /\ outcome' = [outcome EXCEPT ![r] = how]
    /\ due' = [due EXCEPT ![r] = IF usage[r] > 0 THEN "asked" ELSE "done"]
    /\ owed' = [owed EXCEPT ![r] = usage[r]]

\* ConcurrencyBound.acquire would not refuse.
Free == active < Slots

\* ConcurrencyBound.release
Released == IF active > 0 THEN active - 1 ELSE 0

\* The run holds a slot: taken before the job exists, returned by the job's
\* finally, which follows the bill of a run that failed but not of one that
\* succeeded.
Holds(r) ==
    /\ Slots > 0
    /\ kind[r] = "mcp"
    /\ \/ pc[r] \in {"creating", "starting", "running", "stranded"}
       \/ pc[r] = "billing" /\ outcome[r] \in {"failed", "cancelled"}

-----------------------------------------------------------------------------
(* The call.                                                               *)

\* The handler reaches enforce_daily_cost_cap, or the tool check_cost_cap.
Ask(r, surface) ==
    /\ pc[r] = "idle"
    /\ kind' = [kind EXCEPT ![r] = surface]
    /\ Goto(r, "checking")
    /\ UNCHANGED <<seen, outcome, usage, due, owed, billed, heard, active, ledger>>

\* spent_today, executed by the thread; 0 when it fails.
ReadSpent(r) ==
    /\ pc[r] = "checking"
    /\ seen[r] = "nothing"
    /\ \/ seen' = [seen EXCEPT ![r] = IF Cap > 0 /\ ledger >= Cap THEN "over" ELSE "under"]
       \/ Faults /\ seen' = [seen EXCEPT ![r] = "under"]
    /\ UNCHANGED <<kind, pc, outcome, usage, due, owed, billed, heard, active, ledger>>

\* 429, or ToolRefused.
Refuse(r) ==
    /\ pc[r] = "checking"
    /\ seen[r] = "over"
    /\ End(r, "returned")
    /\ UNCHANGED <<kind, seen, usage, due, owed, billed, heard, active, ledger>>

\* estimate_only is answered with a price, "from the request alone".
Quote(r) ==
    /\ pc[r] = "checking"
    /\ seen[r] = "under"
    /\ kind[r] # "mcp"
    /\ End(r, "returned")
    /\ UNCHANGED <<kind, seen, usage, due, owed, billed, heard, active, ledger>>

\* _check_webhook: a callback that is not signed or not allowed is a 400.
RefuseWebhook(r) ==
    /\ pc[r] = "checking"
    /\ seen[r] = "under"
    /\ kind[r] # "mcp"
    /\ End(r, "returned")
    /\ UNCHANGED <<kind, seen, usage, due, owed, billed, heard, active, ledger>>

\* From the check or the clarification on to the next await: the tool takes a
\* slot, or is refused one; a request runs the engine itself or creates a job.
Proceed(r) ==
    \/ /\ kind[r] = "sync"
       /\ Goto(r, "running")
       /\ UNCHANGED <<outcome, active>>
    \/ /\ kind[r] = "job"
       /\ Goto(r, "creating")
       /\ UNCHANGED <<outcome, active>>
    \/ /\ kind[r] = "mcp"
       /\ Slots > 0 => Free
       /\ Goto(r, "creating")
       /\ active' = IF Slots > 0 THEN active + 1 ELSE active
       /\ UNCHANGED outcome
    \/ /\ kind[r] = "mcp"
       /\ Slots > 0 /\ ~Free
       /\ End(r, "returned")
       /\ UNCHANGED active

\* The query is specific enough, answered already, or not to be clarified.
Admit(r) ==
    /\ pc[r] = "checking"
    /\ seen[r] = "under"
    /\ Proceed(r)
    /\ UNCHANGED <<kind, seen, usage, due, owed, billed, heard, ledger>>

Clarify(r) ==
    /\ pc[r] = "checking"
    /\ seen[r] = "under"
    /\ Goto(r, "clarifying")
    /\ UNCHANGED <<kind, seen, outcome, usage, due, owed, billed, heard, active, ledger>>

\* generate_feedback has no questions, or the elicited form came back.
Clarified(r) ==
    /\ pc[r] \in {"clarifying", "eliciting"}
    /\ Proceed(r)
    /\ UNCHANGED <<kind, seen, usage, due, owed, billed, heard, ledger>>

\* It has, and the tool puts them to the user ...
Elicit(r) ==
    /\ pc[r] = "clarifying"
    /\ kind[r] = "mcp"
    /\ Goto(r, "eliciting")
    /\ UNCHANGED <<kind, seen, outcome, usage, due, owed, billed, heard, active, ledger>>

\* ... or hands them back to the caller, or the step failed.
HandBack(r) ==
    /\ pc[r] \in {"clarifying", "eliciting"}
    /\ Record(r, "returned")
    /\ UNCHANGED <<kind, seen, usage, billed, heard, active, ledger>>

\* The row is written and the task submitted; the caller gets its job id.
Created(r) ==
    /\ pc[r] = "creating"
    /\ Goto(r, "starting")
    /\ UNCHANGED <<kind, seen, outcome, usage, due, owed, billed, heard, active, ledger>>

HangUpBug(r) ==
    /\ kind[r] = "mcp"
    /\ \/ pc[r] \in {"checking", "clarifying", "eliciting", "creating"}
       \/ pc[r] = "billing" /\ outcome[r] = "returned" /\ owed[r] > 0
    /\ End(r, "cancelled")
    /\ UNCHANGED <<kind, seen, usage, due, owed, billed, heard, active, ledger>>

\* The client cancels its tool call; launch, cut off, returns the slot.
HangUp(r) ==
    /\ kind[r] = "mcp"
    /\ \/ pc[r] \in {"checking", "clarifying", "eliciting", "creating"}
       \/ pc[r] = "billing" /\ outcome[r] = "returned" /\ owed[r] > 0
    /\ active' = IF Holds(r) THEN Released ELSE active
    /\ End(r, "cancelled")
    /\ UNCHANGED <<kind, seen, usage, due, owed, billed, heard, ledger>>

-----------------------------------------------------------------------------
(* The run.                                                                *)

\* The first publish of the job is stored (JobLifecycle's EnterBody).
Begin(r) ==
    /\ pc[r] = "starting"
    /\ Goto(r, "running")
    /\ UNCHANGED <<kind, seen, outcome, usage, due, owed, billed, heard, active, ledger>>

\* A completion is folded into the tracker.
Spend(r) ==
    /\ pc[r] \in {"clarifying", "running"}
    /\ usage[r] < MaxSpend
    /\ usage' = [usage EXCEPT ![r] = @ + 1]
    /\ UNCHANGED <<kind, pc, seen, outcome, due, owed, billed, heard, active, ledger>>

\* A branch of the run that outlives its failure: engine.run gathers branches
\* without waiting for the others when one raises.
SpendLate(r) ==
    /\ outcome[r] = "failed"
    /\ usage[r] < MaxSpend
    /\ usage' = [usage EXCEPT ![r] = @ + 1]
    /\ UNCHANGED <<kind, pc, seen, outcome, due, owed, billed, heard, active, ledger>>

\* engine.run returns: the tool's finally comes first, then the bill.
Return(r) ==
    /\ pc[r] = "running"
    /\ active' = IF Holds(r) THEN Released ELSE active
    /\ Record(r, "completed")
    /\ UNCHANGED <<kind, seen, usage, billed, heard, ledger>>

RaiseBug(r) ==
    /\ pc[r] = "running"
    /\ active' = IF Holds(r) THEN Released ELSE active
    /\ End(r, "failed")
    /\ UNCHANGED <<kind, seen, usage, due, owed, billed, heard, ledger>>

\* engine.run raises, or the synchronous timeout ends it: the bill comes first.
Raise(r) ==
    /\ pc[r] = "running"
    /\ Record(r, "failed")
    /\ UNCHANGED <<kind, seen, usage, billed, heard, active, ledger>>

RecordedBug(r) ==
    /\ pc[r] = "billing"
    /\ due[r] \in {"done", "lost"}
    /\ active' = IF Holds(r) THEN Released ELSE active
    /\ Goto(r, IF kind[r] = "job" /\ outcome[r] = "completed" THEN "notifying" ELSE "over")
    /\ UNCHANGED <<kind, seen, outcome, usage, due, owed, billed, heard, ledger>>

\* The books are closed: the slot of a failed run is returned, a job with a
\* webhook goes on to call it, everything else is over.
Recorded(r) ==
    /\ pc[r] = "billing"
    /\ due[r] \in {"done", "lost"}
    /\ active' = IF Holds(r) THEN Released ELSE active
    /\ Goto(r, IF kind[r] = "job" /\ outcome[r] \in {"completed", "failed"}
               THEN "notifying" ELSE "over")
    /\ UNCHANGED <<kind, seen, outcome, usage, due, owed, billed, heard, ledger>>

\* The receiver gets the POST, while the job is still running.
Deliver(r) ==
    /\ pc[r] = "notifying"
    /\ heard[r] = "nothing"
    /\ heard' = [heard EXCEPT ![r] = outcome[r]]
    /\ UNCHANGED <<kind, pc, seen, outcome, usage, due, owed, billed, active, ledger>>

\* _notify returns: answered, refused by the guard or undeliverable.
Notified(r) ==
    /\ pc[r] = "notifying"
    /\ heard' = [heard EXCEPT ![r] = IF @ = "nothing" THEN "undelivered" ELSE @]
    /\ Goto(r, "over")
    /\ UNCHANGED <<kind, seen, outcome, usage, due, owed, billed, active, ledger>>

\* DELETE /v1/jobs/{id} before the task entered its body: nothing runs that
\* could bill, release or tell anyone.
CancelStarting(r) ==
    /\ pc[r] = "starting"
    /\ Goto(r, "stranded")
    /\ UNCHANGED <<kind, seen, outcome, usage, due, owed, billed, heard, active, ledger>>

\* In the engine: the tool bills a cancelled run, the HTTP task, which catches
\* Exception, neither bills it nor tells its webhook.
CancelRunning(r) ==
    /\ pc[r] = "running"
    /\ \/ kind[r] = "mcp" /\ Record(r, "cancelled")
       \/ kind[r] = "job" /\ End(r, "cancelled") /\ UNCHANGED <<due, owed>>
    /\ UNCHANGED <<kind, seen, usage, billed, heard, active, ledger>>

\* While the task awaits its bill or its webhook: that await is cut short, and
\* the finally of the tool still runs.
CancelEnding(r) ==
    /\ kind[r] \in {"job", "mcp"}
    /\ \/ pc[r] = "billing" /\ outcome[r] # "returned" /\ owed[r] > 0
       \/ pc[r] = "notifying"
    /\ active' = IF Holds(r) THEN Released ELSE active
    /\ End(r, "cancelled")
    /\ UNCHANGED <<kind, seen, usage, due, owed, billed, heard, ledger>>

\* SqliteCostLedger.add, executed by the thread, or logged and given up.
Bill(r) ==
    /\ due[r] = "asked"
    /\ \/ /\ due' = [due EXCEPT ![r] = "done"]
          /\ ledger' = ledger + owed[r]
          /\ billed' = [billed EXCEPT ![r] = @ + owed[r]]
       \/ /\ Faults
          /\ due' = [due EXCEPT ![r] = "lost"]
          /\ UNCHANGED <<ledger, billed>>
    /\ UNCHANGED <<kind, pc, seen, outcome, usage, owed, heard, active>>

-----------------------------------------------------------------------------
Next == \E r \in Runs :
    \/ \E surface \in Surfaces : Ask(r, surface)
    \/ ReadSpent(r) \/ Refuse(r) \/ Quote(r) \/ RefuseWebhook(r) \/ Admit(r) \/ Clarify(r) \/ Clarified(r)
    \/ Elicit(r) \/ HandBack(r) \/ Created(r) \/ HangUp(r)
    \/ Begin(r) \/ Spend(r) \/ SpendLate(r) \/ Return(r) \/ Raise(r) \/ Recorded(r)
    \/ Deliver(r) \/ Notified(r) \/ Bill(r)
    \/ CancelStarting(r) \/ CancelRunning(r) \/ CancelEnding(r)

Spec == Init /\ [][Next]_vars

-----------------------------------------------------------------------------
(* Properties.                                                             *)

(***************************************************************************)
(* The count of slots is the number of runs that hold one, along every way *)
(* a tool call or its job can end, so no slot is returned twice and the    *)
(* only one never returned is that of a job cancelled before its body.     *)
(***************************************************************************)
SlotsMatch == active = Cardinality({r \in Runs : Holds(r)})

(***************************************************************************)
(* Never do more runs of the tool work than the key has slots, however     *)
(* calls, failures and cancellations interleave with the awaits between    *)
(* taking a slot and returning it.                                         *)
(***************************************************************************)
RunsAreBounded ==
    Slots > 0 => Cardinality({r \in Runs : kind[r] = "mcp" /\ pc[r] = "running"}) <= Slots

(***************************************************************************)
(* No run is billed twice, not even one whose bill was cut short by a      *)
(* cancellation and executed by the thread all the same.                   *)
(***************************************************************************)
BilledOnce == \A r \in Runs : billed[r] <= usage[r]

(***************************************************************************)
(* A run that ends by itself is billed before it ends, with all that it    *)
(* spent up to its return or its failure: a completed or failed one on     *)
(* every surface, a clarification handed back over HTTP.  "a run that      *)
(* raises halfway through still bills what it already spent"; only a       *)
(* failing ledger loses it.                                                *)
(***************************************************************************)
SettledRunsAreBilled ==
    \A r \in Runs :
        /\ pc[r] \in {"notifying", "over"}
        /\ \/ outcome[r] \in {"completed", "failed"}
           \/ outcome[r] = "returned" /\ kind[r] # "mcp" /\ usage[r] > 0
        => /\ due[r] \in {"done", "lost"}
           /\ due[r] = "done" => billed[r] = owed[r]
           /\ outcome[r] # "failed" => owed[r] = usage[r]

(***************************************************************************)
(* The webhook of a job that settled by itself was called before it did,   *)
(* for failures too ("or it waits forever for a run that is never coming"),*)
(* and told the outcome the job then has; what it heard is only ever       *)
(* contradicted by a cancellation.                                         *)
(***************************************************************************)
CallbackMatchesOutcome ==
    \A r \in Runs : kind[r] = "job" /\ pc[r] = "over" =>
        /\ outcome[r] \in {"completed", "failed"} => heard[r] \in {"undelivered", outcome[r]}
        /\ outcome[r] = "returned" => heard[r] = "nothing"
=============================================================================
