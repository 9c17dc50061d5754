---------------------------- MODULE JobContract -----------------------------
(***************************************************************************)
(* What the jobs API promises a client, and no more: the answers GET       *)
(* /v1/jobs/{id} may give for each id over time (JobView of                *)
(* app/models/jobs.py, the table of outcomes in API_REFERENCE.md).         *)
(* JobLifecycle implements it.                                             *)
(***************************************************************************)

CONSTANT Jobs

VARIABLES
    serving,   \* requests are answered
    known,     \* ids that were given out
    view       \* the status of each job, "none" for a 404

vars == <<serving, known, view>>

Done == {"completed", "failed"}

Init ==
    /\ serving = FALSE
    /\ known = {}
    /\ view = [j \in Jobs |-> "none"]

\* Finished jobs may disappear at any time, nothing else may.
Forgotten ==
    {[j \in Jobs |-> IF j \in gone THEN "none" ELSE view[j]] :
        gone \in SUBSET {j \in Jobs : view[j] \in Done}}

\* A new id appears as pending.
Accept(j) ==
    /\ serving
    /\ j \notin known
    /\ known' = known \cup {j}
    /\ \E rest \in Forgotten : view' = [rest EXCEPT ![j] = "pending"]
    /\ UNCHANGED serving

Run(j) ==
    /\ serving
    /\ view[j] = "pending"
    /\ view' = [view EXCEPT ![j] = "running"]
    /\ UNCHANGED <<serving, known>>

Finish(j) ==
    /\ serving
    /\ view[j] = "running"
    /\ \E outcome \in Done : view' = [view EXCEPT ![j] = outcome]
    /\ UNCHANGED <<serving, known>>

Forget ==
    /\ serving
    /\ view' \in Forgotten
    /\ view' # view
    /\ UNCHANGED <<serving, known>>

Stop ==
    /\ serving
    /\ serving' = FALSE
    /\ view' = [j \in Jobs |-> "none"]
    /\ UNCHANGED known

\* After a restart only finished jobs are seen, each of them given out before.
Return ==
    /\ ~serving
    /\ serving' = TRUE
    /\ view' \in [Jobs -> Done \cup {"none"}]
    /\ \A j \in Jobs \ known : view'[j] = "none"
    /\ UNCHANGED known

Next ==
    \/ \E j \in Jobs : Accept(j) \/ Run(j) \/ Finish(j)
    \/ Forget \/ Stop \/ Return

Spec == Init /\ [][Next]_vars
=============================================================================
