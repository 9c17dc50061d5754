--------------------------- MODULE ResearchEngine ---------------------------
(***************************************************************************)
(* One run of DeepResearchEngine (app/core/research/engine.py): a tree of  *)
(* levels, each asking the model for queries and gathering one branch per  *)
(* query; a branch searches, ranks, claims and crawls pages, reads them,   *)
(* and may open a level of its own.  All branches of a run share one       *)
(* semaphore, one set of visited URLs, one tracker of its cost.            *)
(*                                                                         *)
(* A path of indices names a branch and the level that branch opens; the   *)
(* empty path is the level opened by the run itself.  One action is the    *)
(* code between two awaits.  A call to the model, the search engine or the *)
(* crawler answers or raises; what it answers is left open.  Learnings and *)
(* sources always travel together, so what a branch learnt and from which  *)
(* pages is one finding, named by its path, until the report is fitted to  *)
(* its budget of tokens, learning by learning.                             *)
(***************************************************************************)
EXTENDS Naturals, Sequences, FiniteSets, FiniteSetsExt

CONSTANTS
    Urls,        \* pages the search engine knows, by normalize_url
    Breadth,     \* queries of the first level
    Depth,       \* levels
    Concurrency, \* RESEARCH_CONCURRENCY
    TopK,        \* RESEARCH_CRAWL_TOP_K
    Cap,         \* RESEARCH_MAX_COST_USD, in calls to the model; 0 is no cap
    Room,        \* RESEARCH_REPORT_TOKEN_BUDGET; 0 is no budget
    Tokens       \* of each path: what the learnings of its branch cost in the report

ASSUME EngineAssumption ==
    /\ IsFiniteSet(Urls)
    /\ Breadth \in Nat \ {0}
    /\ Depth \in Nat \ {0}
    /\ Concurrency \in Nat \ {0}
    /\ TopK \in Nat \ {0}
    /\ Cap \in Nat
    /\ Room \in Nat

\* The breadth of the level at a depth: halved, rounded up, at each step down.
Width[d \in Nat] == IF d = 0 THEN Breadth ELSE (Width[d - 1] + 1) \div 2

Branches ==
    UNION {{p \in [1..d -> 1..Breadth] : \A i \in 1..d : p[i] <= Width[i - 1]} : d \in 1..Depth}
Levels   == {<<>>} \cup {p \in Branches : Len(p) < Depth}
Parent(p) == SubSeq(p, 1, Len(p) - 1)

ASSUME TokensAssumption == Tokens \in [Branches -> Seq(Nat)]

\* A branch comes before those below it, and before its later siblings with theirs.
Earlier(p, q) ==
    \/ Len(p) < Len(q) /\ \A k \in DOMAIN p : p[k] = q[k]
    \/ \E i \in DOMAIN p \cap DOMAIN q : p[i] < q[i] /\ \A k \in 1..(i - 1) : p[k] = q[k]

\* The learnings of some findings, and their order in the lists that gather returns.
Learnings(findings) == UNION {{p} \X (DOMAIN Tokens[p]) : p \in findings}
Before(k, l)        == Earlier(k[1], l[1]) \/ (k[1] = l[1] /\ k[2] < l[2])
UpTo(l, learnings)  == {k \in learnings : k = l \/ Before(k, l)}

VARIABLES
    run,     \* where engine.run stands
    level,   \* of each level: the await _deep_research is at
    pc,      \* of each branch: the await its handle is at
    doomed,  \* branches whose task has a CancelledError coming
    offered, \* of each branch: the candidates it is having ranked
    visited, \* _RunState.visited
    usage,   \* _RunState.usage.total_cost_usd
    stopped, \* _RunState.stopped_early
    carried, \* of each branch: the findings it returns
    result,  \* the findings the run came back with
    found,   \* history: branches that read something
    barren,  \* history: a level got no query from the model
    report,  \* the learnings that the report is written from
    fetches  \* history: how often each page was crawled

vars == <<run, level, pc, doomed, offered, visited, usage, stopped, carried, result,
          found, barren, report, fetches>>

Inside  == {"searching", "ranking", "reading", "reporting"}
Alive   == {"queued", "recursing"} \cup Inside
Ended   == {"done", "failed", "cancelled"}
RunOver == {"returned", "failed", "cancelled"}

TypeOK ==
    /\ run \in {"starting", "exploring", "cancelling", "writing"} \cup RunOver
    /\ level \in [Levels -> {"none", "asking", "gathering", "over"}]
    /\ pc \in [Branches -> {"none"} \cup Alive \cup Ended]
    /\ Cardinality({p \in Branches : pc[p] \in Inside}) <= Concurrency
    /\ doomed \subseteq Branches
    /\ offered \in [Branches -> SUBSET Urls]
    /\ visited \subseteq Urls
    /\ usage \in Nat
    /\ stopped \in BOOLEAN
    /\ carried \in [Branches -> SUBSET Branches]
    /\ result \subseteq Branches
    /\ found \subseteq Branches
    /\ barren \in BOOLEAN
    /\ report \subseteq Learnings(Branches)
    /\ fetches \in [Urls -> Nat]

\* The tracker may already hold the price of the clarification.
Init ==
    /\ run = "starting"
    /\ level = [p \in Levels |-> "none"]
    /\ pc = [p \in Branches |-> "none"]
    /\ doomed = {}
    /\ offered = [p \in Branches |-> {}]
    /\ visited = {}
    /\ usage \in {0, 1}
    /\ stopped = FALSE
    /\ carried = [p \in Branches |-> {}]
    /\ result = {}
    /\ found = {}
    /\ barren = FALSE
    /\ report = {}
    /\ fetches = [u \in Urls |-> 0]

-----------------------------------------------------------------------------
(* Parts of the steps.  Definitions named ...Bug are no part of the        *)
(* specification: each is a mistake this code could have made.             *)

OverBudget == Cap > 0 /\ usage >= Cap

FreeBug == Cardinality({p \in Branches : pc[p] \in Inside \cup {"recursing"}}) < Concurrency

\* The semaphore of the run has a permit.
Free == Cardinality({p \in Branches : pc[p] \in Inside}) < Concurrency

Children(p) == {q \in Branches : Len(q) = Len(p) + 1 /\ Parent(q) = p /\ pc[q] # "none"}

\* The gather of level p has not been settled by its branches.
Pending(p) ==
    /\ level[p] = "gathering"
    /\ \A q \in Children(p) : pc[q] \notin {"failed", "cancelled"}
    /\ \E q \in Children(p) : pc[q] # "done"

\* The findings a level, and so its branches, start from.
Inherited(p) == IF p = <<>> THEN {} ELSE carried[p]

\* _deep_research returns to its caller: the branch of that path, or run.
Return(p, findings) ==
    IF p = <<>>
    THEN /\ run' = "writing"
         /\ result' = findings
         /\ UNCHANGED <<pc, carried>>
    ELSE /\ pc' = [pc EXCEPT ![p] = "done"]
         /\ carried' = [carried EXCEPT ![p] = findings]
         /\ UNCHANGED <<run, result>>

\* It raises.
Fail(p) ==
    /\ IF p = <<>>
       THEN run' = "failed" /\ UNCHANGED pc
       ELSE pc' = [pc EXCEPT ![p] = "failed"] /\ UNCHANGED run
    /\ UNCHANGED <<carried, result>>

\* The tokens of some learnings.
Cost(learnings) == MapThenSumSet(LAMBDA l : Tokens[l[1]][l[2]], learnings)

\* A learning still fits: with those before it, or cut to the budget as the first.
Fits(l, learnings) ==
    UpTo(l, learnings) = {l} \/ Cost(UpTo(l, learnings)) <= Room

\* Those that are kept, up to the first that does not fit.
_fit_learnings(learnings) ==
    IF Room = 0 THEN learnings
    ELSE {l \in learnings : \A k \in UpTo(l, learnings) : Fits(k, learnings)}

\* The caller of a level that nobody cancelled.
Waiting(p) == IF p = <<>> THEN run = "exploring" ELSE p \notin doomed

\* The branch resumes from the await at.
At(p, at) == pc[p] = at /\ p \notin doomed

-----------------------------------------------------------------------------
(* The run and its levels.                                                 *)

Start ==
    /\ run = "starting"
    /\ IF OverBudget
       THEN /\ stopped' = TRUE
            /\ run' = "writing"
            /\ UNCHANGED level
       ELSE /\ level' = [level EXCEPT ![<<>>] = "asking"]
            /\ run' = "exploring"
            /\ UNCHANGED stopped
    /\ UNCHANGED <<pc, doomed, offered, visited, usage, carried, result, found, barren,
                   report, fetches>>

\* The model proposes queries, cut to the breadth of the level.
Asked(p) ==
    /\ level[p] = "asking"
    /\ Waiting(p)
    /\ usage' = usage + 1
    /\ \/ \E k \in 1..Width[Len(p)] :
            /\ level' = [level EXCEPT ![p] = "gathering"]
            /\ pc' = [q \in Branches |->
                        IF Len(q) = Len(p) + 1 /\ Parent(q) = p /\ q[Len(q)] <= k
                        THEN "queued" ELSE pc[q]]
            /\ UNCHANGED <<run, carried, result, barren>>
       \/ \* Or none at all: gather() of nothing, the inherited findings are dropped.
          /\ level' = [level EXCEPT ![p] = "over"]
          /\ barren' = TRUE
          /\ Return(p, {})
    /\ UNCHANGED <<doomed, offered, visited, stopped, found, report, fetches>>

AskFails(p) ==
    /\ level[p] = "asking"
    /\ Waiting(p)
    /\ level' = [level EXCEPT ![p] = "over"]
    /\ Fail(p)
    /\ UNCHANGED <<doomed, offered, visited, usage, stopped, found, barren, report, fetches>>

GatheredBug(p) ==
    /\ level[p] = "gathering"
    /\ Waiting(p)
    /\ \A q \in Children(p) : pc[q] = "done"
    /\ level' = [level EXCEPT ![p] = "over"]
    /\ Return(p, UNION {carried[q] \cap {q} : q \in Children(p)})
    /\ UNCHANGED <<doomed, offered, visited, usage, stopped, found, barren, report, fetches>>

\* All its branches returned.
Gathered(p) ==
    /\ level[p] = "gathering"
    /\ Waiting(p)
    /\ \A q \in Children(p) : pc[q] = "done"
    /\ level' = [level EXCEPT ![p] = "over"]
    /\ Return(p, UNION {carried[q] : q \in Children(p)})
    /\ UNCHANGED <<doomed, offered, visited, usage, stopped, found, barren, report, fetches>>

\* One of them raised: gather raises at once and leaves the others running.
Broken(p) ==
    /\ level[p] = "gathering"
    /\ Waiting(p)
    /\ \E q \in Children(p) : pc[q] = "failed"
    /\ level' = [level EXCEPT ![p] = "over"]
    /\ Fail(p)
    /\ UNCHANGED <<doomed, offered, visited, usage, stopped, found, barren, report, fetches>>

WriteReport ==
    /\ run = "writing"
    /\ \/ /\ run' = "returned"
          /\ usage' = usage + 1
          /\ report' = _fit_learnings(Learnings(result))
       \/ run' = "failed" /\ UNCHANGED <<usage, report>>
    /\ UNCHANGED <<level, pc, doomed, offered, visited, stopped, carried, result,
                   found, barren, fetches>>

-----------------------------------------------------------------------------
(* A branch.                                                               *)

AcquireBug(p) ==
    /\ At(p, "queued")
    /\ Free
    /\ carried' = [carried EXCEPT ![p] = Inherited(Parent(p))]
    /\ pc' = [pc EXCEPT ![p] = "searching"]
    /\ UNCHANGED <<run, level, doomed, offered, visited, usage, stopped, result, found, barren,
                   report, fetches>>

\* It gets a permit, and gives up if the budget went while it was queued.
Acquire(p) ==
    /\ At(p, "queued")
    /\ Free
    /\ carried' = [carried EXCEPT ![p] = Inherited(Parent(p))]
    /\ pc' = [pc EXCEPT ![p] = IF OverBudget THEN "done" ELSE "searching"]
    /\ stopped' = (stopped \/ OverBudget)
    /\ UNCHANGED <<run, level, doomed, offered, visited, usage, result, found, barren,
                   report, fetches>>

\* What no branch has taken yet goes to the reranker.
Searched(p) ==
    /\ At(p, "searching")
    /\ \E hits \in SUBSET Urls :
         LET candidates == hits \ visited
         IN  /\ offered' = [offered EXCEPT ![p] = candidates]
             /\ pc' = [pc EXCEPT ![p] = IF candidates = {} THEN "reporting" ELSE "ranking"]
    /\ UNCHANGED <<run, level, doomed, visited, usage, stopped, carried, result, found, barren,
                   report, fetches>>

RankedBug(p) ==
    /\ At(p, "ranking")
    /\ usage' \in {usage, usage + 1}
    /\ \E pick \in SUBSET offered[p] :
         /\ pick # {} /\ Cardinality(pick) <= TopK
         /\ visited' = visited \cup pick
         /\ fetches' = [u \in Urls |-> IF u \in pick THEN fetches[u] + 1 ELSE fetches[u]]
         /\ pc' = [pc EXCEPT ![p] = "reading"]
    /\ offered' = [offered EXCEPT ![p] = {}]
    /\ UNCHANGED <<run, level, doomed, stopped, carried, result, found, barren, report>>

\* The reranker, with or without a call to the model, keeps a few; those still
\* free are claimed and crawled.
Ranked(p) ==
    /\ At(p, "ranking")
    /\ usage' \in {usage, usage + 1}
    /\ \E pick \in SUBSET offered[p] :
         LET fresh == pick \ visited
         IN  /\ pick # {} /\ Cardinality(pick) <= TopK
             /\ visited' = visited \cup fresh
             /\ fetches' = [u \in Urls |-> IF u \in fresh THEN fetches[u] + 1 ELSE fetches[u]]
             /\ pc' = [pc EXCEPT ![p] = IF fresh = {} THEN "reporting" ELSE "reading"]
    /\ offered' = [offered EXCEPT ![p] = {}]
    /\ UNCHANGED <<run, level, doomed, stopped, carried, result, found, barren, report>>

\* No page could be crawled, or none has content.
Barren(p) ==
    /\ At(p, "reading")
    /\ pc' = [pc EXCEPT ![p] = "reporting"]
    /\ UNCHANGED <<run, level, doomed, offered, visited, usage, stopped, carried, result, found,
                   barren, report, fetches>>

\* The pages are crawled, and the model has extracted what they say.
Read(p) ==
    /\ At(p, "reading")
    /\ usage' = usage + 1
    /\ found' = found \cup {p}
    /\ carried' = [carried EXCEPT ![p] = @ \cup {p}]
    /\ pc' = [pc EXCEPT ![p] = "reporting"]
    /\ UNCHANGED <<run, level, doomed, offered, visited, stopped, result, barren,
                   report, fetches>>

\* Progress is emitted, the permit returned; follow-ups open a level further
\* down, which is allowed to by the budget.
Reported(p) ==
    /\ At(p, "reporting")
    /\ \/ /\ pc' = [pc EXCEPT ![p] = "done"]
          /\ UNCHANGED <<level, stopped>>
       \/ /\ p \in found /\ Len(p) < Depth
          /\ stopped' = (stopped \/ OverBudget)
          /\ IF OverBudget
             THEN pc' = [pc EXCEPT ![p] = "done"] /\ UNCHANGED level
             ELSE /\ pc' = [pc EXCEPT ![p] = "recursing"]
                  /\ level' = [level EXCEPT ![p] = "asking"]
    /\ UNCHANGED <<run, doomed, offered, visited, usage, carried, result, found, barren,
                   report, fetches>>

\* The search, the crawler or the model raised; the permit is returned.
Raise(p) ==
    /\ pc[p] \in {"searching", "reading"}
    /\ p \notin doomed
    /\ pc' = [pc EXCEPT ![p] = "failed"]
    /\ UNCHANGED <<run, level, doomed, offered, visited, usage, stopped, carried, result, found,
                   barren, report, fetches>>

-----------------------------------------------------------------------------
(* Cancellation: DELETE of the job, its timeout, or a shutdown.            *)

\* A gather that is still pending hands the cancellation down to its branches,
\* and theirs; branches a failure left behind belong to no such gather.
Reached ==
    {p \in Branches : pc[p] \in Alive
                      /\ \A i \in 0..(Len(p) - 1) : Pending(SubSeq(p, 1, i))}

Cancel ==
    /\ run \in {"exploring", "writing"}
    /\ run' = IF run = "exploring" /\ Pending(<<>>) THEN "cancelling" ELSE "cancelled"
    /\ doomed' = IF run = "exploring" THEN doomed \cup Reached ELSE doomed
    /\ level' = [level EXCEPT ![<<>>] = IF Pending(<<>>) THEN @ ELSE "over"]
    /\ UNCHANGED <<pc, offered, visited, usage, stopped, carried, result, found, barren,
                   report, fetches>>

\* CancelledError leaves the branch, once its own level lets go of it.
Unwind(p) ==
    /\ p \in doomed
    /\ pc[p] \in Alive
    /\ pc[p] = "recursing" => ~Pending(p)
    /\ pc' = [pc EXCEPT ![p] = "cancelled"]
    /\ level' = IF pc[p] = "recursing" THEN [level EXCEPT ![p] = "over"] ELSE level
    /\ UNCHANGED <<run, doomed, offered, visited, usage, stopped, carried, result, found, barren,
                   report, fetches>>

\* ... and then the run.
RunUnwinds ==
    /\ run = "cancelling"
    /\ ~Pending(<<>>)
    /\ run' = "cancelled"
    /\ level' = [level EXCEPT ![<<>>] = "over"]
    /\ UNCHANGED <<pc, doomed, offered, visited, usage, stopped, carried, result, found, barren,
                   report, fetches>>

-----------------------------------------------------------------------------
LevelStep(p)  == Asked(p) \/ AskFails(p) \/ Gathered(p) \/ Broken(p)
BranchStep(p) ==
    \/ Acquire(p) \/ Searched(p) \/ Ranked(p) \/ Barren(p) \/ Read(p) \/ Reported(p)
    \/ Raise(p) \/ Unwind(p)

Work ==
    \/ Start \/ WriteReport \/ RunUnwinds
    \/ \E p \in Levels : LevelStep(p)
    \/ \E p \in Branches : BranchStep(p)

Next == Work \/ Cancel

Spec == Init /\ [][Next]_vars

\* The loop does not idle while a task can go on, and every call is answered or
\* times out.  Nothing in a run repeats, so which task goes first does not matter.
Fairness == WF_vars(Work)

FairSpec == Spec /\ Fairness

-----------------------------------------------------------------------------
(* Properties.                                                             *)

(***************************************************************************)
(* "a page crawled by one branch is never crawled again by another",       *)
(* though each branch looks at visited, awaits the reranker and only then  *)
(* claims what it kept.                                                    *)
(***************************************************************************)
NoPageTwice == \A u \in Urls : fetches[u] <= 1

\* Calls to the model that work already admitted may still make.
Outstanding ==
    2 * Cardinality({p \in Branches : pc[p] \in {"searching", "ranking"}})
    + Cardinality({p \in Branches : pc[p] = "reading"})
    + Cardinality({p \in Levels : level[p] = "asking"})
    + (IF run \in {"returned", "failed", "cancelled", "cancelling"} THEN 0 ELSE 1)

(***************************************************************************)
(* Once a run has spent its cap it finishes what is under way and takes    *)
(* nothing new on: what it has spent and may still spend never grows       *)
(* again, in whatever order branches queue, finish and recurse.            *)
(***************************************************************************)
SpendingWindsDown ==
    [][OverBudget => usage' + Outstanding' <= usage + Outstanding]_vars

(***************************************************************************)
(* The report of a run that returns tells what any branch learnt, at any   *)
(* depth, whether or not the budget stopped it early; unless the model     *)
(* proposed no query for some level, which then drops what its branch had  *)
(* found.  Of what was learnt only a tail is missing, nothing if there is  *)
(* no budget of tokens, and only from where the budget is exceeded: "the   *)
(* prompt is bounded even if that means dropping the tail".  The very first*)
(* learning is always told, cut if it alone is too long.                   *)
(***************************************************************************)
AllFindingsReported ==
    run = "returned" /\ ~barren =>
        LET learnt == Learnings(found)
        IN  /\ report \subseteq learnt
            /\ \A l \in report : UpTo(l, learnt) \subseteq report
            /\ \A l \in learnt \ report :
                  /\ Room > 0
                  /\ \E k \in UpTo(l, learnt) :
                        UpTo(k, learnt) # {k} /\ ~(Cost(UpTo(k, learnt)) <= Room)

(***************************************************************************)
(* Every run ends, however many branches share however few permits:        *)
(* "Recursing while still holding it would deadlock".                      *)
(***************************************************************************)
RunEnds == (run # "starting") ~> (run \in RunOver)
=============================================================================
