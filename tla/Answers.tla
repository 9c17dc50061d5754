------------------------------- MODULE Answers -------------------------------
(***************************************************************************)
(* Calls of a language model outside the engine of research: sourced       *)
(* answers, whole or streamed (app/services/answer.py, /v1/answer, the     *)
(* answer tool), structured extraction (app/services/extract.py), and the  *)
(* arbitration of search results (app/core/research/rerank.py).  They      *)
(* share the cap on calls in flight (app/core/llm/client.py); answers have *)
(* a cache and a bill, arbitrations a cache.                               *)
(*                                                                         *)
(* All callers use one API key.  One action is the code between two        *)
(* awaits.  A call of the model costs 1, which the provider charges when   *)
(* its first token leaves, whether or not it says so in the end; retries   *)
(* and fallbacks happen inside it.  The caches are those of SearchClient:  *)
(* here an entry may be forgotten at any time.  ResearchRuns has the       *)
(* faults of the ledger.                                                   *)
(***************************************************************************)
EXTENDS Naturals, Sequences, FiniteSets, Semaphore, SequencesExt

CONSTANTS
    Calls,   \* answers, extractions and arbitrations that are asked for
    Kinds,   \* the kinds of them that occur
    Keys,    \* cache keys
    None,    \* no call
    Limit,   \* LLM_MAX_CONCURRENCY
    Cap,     \* DAILY_COST_CAP_USD; 0 is no cap
    Results, \* search results an arbitration is given
    TopK,    \* ... and those it may keep
    Pages    \* pages an extraction is asked for

ASSUME AnswersAssumption ==
    /\ IsFiniteSet(Calls) /\ None \notin Calls
    /\ Kinds \subseteq {"answer", "stream", "extract", "tool", "rank"}
    /\ {Limit, Results, TopK} \subseteq Nat \ {0}
    /\ {Cap, Pages} \subseteq Nat

VARIABLES
    kind,    \* of each call: what it asks for
    key,     \* of each call: its cache key
    stage,   \* of each call: where it stands
    todo,    \* of each call: its calls of the model that are not over
    from,    \* of each call: the call whose outcome it was given
    kept,    \* of each arbitration: how many results it kept
    charged, \* of each call: what the provider charged for it
    usage,   \* of each call: what its UsageTracker learned of that
    billed,  \* of each call: what the ledger took for it
    model,   \* the semaphore of _concurrency_guard
    memo,    \* the answer cache, and the cache of CachedReranker
    ledger,  \* cost_ledger: what the key has spent today
    peak     \* history: most calls in flight between the cap and the bill

vars == <<kind, key, stage, todo, from, kept, charged, usage, billed, model, memo, ledger,
          peak>>

Capped == {"answer", "stream", "tool"}
Memoized == {"answer", "rank"}
InFlight == {"preparing", "asking", "billing"}
Ended == {"refused", "done", "failed", "gone"}

Tasks == Calls \X (0..Pages)

TypeOK ==
    /\ kind \in [Calls -> Kinds]
    /\ key \in [Calls -> Keys]
    /\ stage \in [Calls -> {"idle"} \cup InFlight \cup Ended]
    /\ todo \in [Calls -> SUBSET (0..Pages)]
    /\ from \in [Calls -> Calls \cup {None}]
    /\ kept \in [Calls -> 0..TopK]
    /\ charged \in [Calls -> Nat]
    /\ usage \in [Calls -> 0..1] /\ billed \in [Calls -> 0..1]
    /\ memo \in [Memoized -> [Keys -> Calls \cup {None}]]
    /\ ledger \in Nat /\ peak \in Nat

Init ==
    /\ kind \in [Calls -> Kinds]
    /\ key \in [Calls -> Keys]
    /\ stage = [c \in Calls |-> "idle"]
    /\ todo = [c \in Calls |-> {}]
    /\ from = [c \in Calls |-> None]
    /\ kept = [c \in Calls |-> 0]
    /\ charged = [c \in Calls |-> 0]
    /\ usage = [c \in Calls |-> 0]
    /\ billed = [c \in Calls |-> 0]
    /\ model = [open |-> {}, queue |-> <<>>]
    /\ memo = [m \in Memoized |-> [k \in Keys |-> None]]
    /\ ledger = 0 /\ peak = 0

-----------------------------------------------------------------------------
(* Parts of the steps.  Definitions named ...Bug are no part of the        *)
(* specification: each is a mistake this code could have made.             *)

Goto(c, where) == stage' = [stage EXCEPT ![c] = where]

OverCapBug(c) == kind[c] \in Capped /\ Cap > 0 /\ ledger > Cap

\* enforce_daily_cost_cap and check_cost_cap; nothing caps POST /v1/extract.
OverCap(c) == kind[c] \in Capped /\ Cap > 0 /\ ledger >= Cap

\* The entry of a call's cache, if it has one.
Entry(c) == IF kind[c] \in Memoized THEN memo[kind[c]][key[c]] ELSE None

Store(c) == memo' = [memo EXCEPT ![kind[c]][key[c]] = c]

\* The call reaches the guard of the model with these requests.
Request(c, requests) ==
    /\ Goto(c, IF requests = {} THEN "done" ELSE "asking")
    /\ todo' = [todo EXCEPT ![c] = requests]
    /\ model' = Acquire(model, Limit, SetToSeq({c} \X requests))

\* The request of a call leaves the guard.
Leave(c) ==
    /\ todo' = [todo EXCEPT ![c] = {}]
    /\ model' = Release(model, Limit, {c} \X todo[c])

\* record_completion: an answer of the model is paid for, and the tracker
\* learns its price if the provider reports its usage, which the last chunk of
\* a stream need not, and litellm can price the model.
Record(c) ==
    /\ charged' = [charged EXCEPT ![c] = 1]
    /\ \E learned \in 0..1 : usage' = [usage EXCEPT ![c] = learned]

\* The request of an answer or an arbitration is with the provider.
Asking(c, what) == kind[c] = what /\ stage[c] = "asking" /\ <<c, 0>> \in model.open

-----------------------------------------------------------------------------
(* Up to the model.                                                        *)

\* 429, or ToolRefused.
Refuse(c) ==
    /\ stage[c] = "idle" /\ OverCap(c)
    /\ Goto(c, "refused")
    /\ UNCHANGED <<kind, key, todo, from, kept, charged, usage, billed, model, memo, ledger,
                   peak>>

HitBug(c) ==
    /\ stage[c] = "idle" /\ ~OverCap(c) /\ Entry(c) # None
    /\ Goto(c, IF kind[c] = "answer" THEN "billing" ELSE "done")
    /\ from' = [from EXCEPT ![c] = Entry(c)]
    /\ kept' = [kept EXCEPT ![c] = kept[Entry(c)]]
    /\ usage' = [usage EXCEPT ![c] = usage[Entry(c)]]
    /\ UNCHANGED <<kind, key, todo, charged, billed, model, memo, ledger, peak>>

\* The cache has it: a copy, with an empty usage, which nobody bills.
Hit(c) ==
    /\ stage[c] = "idle" /\ ~OverCap(c) /\ Entry(c) # None
    /\ Goto(c, "done")
    /\ from' = [from EXCEPT ![c] = Entry(c)]
    /\ kept' = [kept EXCEPT ![c] = kept[Entry(c)]]
    /\ UNCHANGED <<kind, key, todo, charged, usage, billed, model, memo, ledger, peak>>

\* It does not: an answer searches and crawls, an extraction crawls.
Prepare(c) ==
    /\ stage[c] = "idle" /\ ~OverCap(c) /\ Entry(c) = None
    /\ kind[c] # "rank"
    /\ Goto(c, "preparing")
    /\ peak' = LET n == Cardinality({d \in Calls : stage'[d] \in InFlight})
               IN  IF n > peak THEN n ELSE peak
    /\ UNCHANGED <<kind, key, todo, from, kept, charged, usage, billed, model, memo, ledger>>

\* An arbitration goes straight to the model.
Arbitrate(c) ==
    /\ stage[c] = "idle" /\ Entry(c) = None
    /\ kind[c] = "rank"
    /\ Request(c, {0})
    /\ UNCHANGED <<kind, key, from, kept, charged, usage, billed, memo, ledger, peak>>

\* Pages that cannot be read are no error for an answer; for an extraction
\* each is a failure of its own, and only the others reach the model.
Prepared(c) ==
    /\ stage[c] = "preparing"
    /\ \E read \in SUBSET (1..Pages) :
         Request(c, IF kind[c] \in {"answer", "stream"} THEN {0} ELSE read)
    /\ UNCHANGED <<kind, key, from, kept, charged, usage, billed, memo, ledger, peak>>

\* The search fails, or every URL of an extraction is blocked, or its schema
\* is unusable.  No tokens yet, and so no bill.
PrepareFails(c) ==
    /\ stage[c] = "preparing"
    /\ Goto(c, "failed")
    /\ UNCHANGED <<kind, key, todo, from, kept, charged, usage, billed, model, memo, ledger,
                   peak>>

-----------------------------------------------------------------------------
(* The model.                                                              *)

\* complete: the usage is recorded, the answer is stored, the bill is due.
Answer(c) ==
    /\ Asking(c, "answer")
    /\ Leave(c) /\ Goto(c, "billing")
    /\ from' = [from EXCEPT ![c] = c]
    /\ Record(c) /\ Store(c)
    /\ UNCHANGED <<kind, key, kept, billed, ledger, peak>>

\* stream_complete: the slot is held while tokens are sent to the client,
Token(c) ==
    /\ Asking(c, "stream")
    /\ charged[c] = 0
    /\ charged' = [charged EXCEPT ![c] = 1]
    /\ UNCHANGED <<kind, key, stage, todo, from, kept, usage, billed, model, memo, ledger,
                   peak>>

\* ... and at most the last chunk says what they cost.
StreamEnds(c) ==
    /\ Asking(c, "stream")
    /\ Leave(c) /\ Goto(c, "billing")
    /\ from' = [from EXCEPT ![c] = c]
    /\ Record(c)
    /\ UNCHANGED <<kind, key, kept, billed, memo, ledger, peak>>

\* The model fails, at once or halfway through a stream: nothing is recorded.
AnswerFails(c) ==
    /\ Asking(c, "answer") \/ Asking(c, "stream")
    /\ Leave(c) /\ Goto(c, "failed")
    /\ UNCHANGED <<kind, key, from, kept, charged, usage, billed, memo, ledger, peak>>

\* _extract_one: a page is read or has failed; all of them are, and it is over.
ExtractOne(t) ==
    LET c == t[1]
    IN  /\ kind[c] \in {"extract", "tool"} /\ t \in model.open
        /\ model' = Release(model, Limit, {t})
        /\ todo' = [todo EXCEPT ![c] = @ \ {t[2]}]
        /\ Goto(c, IF todo'[c] = {} THEN "done" ELSE "asking")
        /\ charged' = [charged EXCEPT ![c] = @ + 1]
        /\ UNCHANGED <<kind, key, from, kept, usage, billed, memo, ledger, peak>>

\* _valid_indices: the indices a model names that exist.
Valid(named) == named \cap (0..Results - 1)

Lesser(a, b) == IF a < b THEN a ELSE b

\* LLMReranker.rank: none that does, or no answer, and the lexical ranker rules.
Ranked(named) ==
    Lesser(TopK, IF Valid(named) = {} THEN Results ELSE Cardinality(Valid(named)))

\* Either way the outcome is memoized.
Rank(c) ==
    /\ Asking(c, "rank")
    /\ Leave(c) /\ Goto(c, "done")
    /\ from' = [from EXCEPT ![c] = c]
    /\ \/ /\ \E named \in SUBSET (0..Results) : kept' = [kept EXCEPT ![c] = Ranked(named)]
          /\ Record(c)
       \/ /\ kept' = [kept EXCEPT ![c] = Ranked({})]
          /\ UNCHANGED <<charged, usage>>
    /\ Store(c)
    /\ UNCHANGED <<kind, key, billed, ledger, peak>>

-----------------------------------------------------------------------------
(* Afterwards.                                                             *)

\* record_usage, and the call is over.
Bill(c) ==
    /\ stage[c] = "billing"
    /\ Goto(c, "done")
    /\ billed' = [billed EXCEPT ![c] = usage[c]]
    /\ ledger' = ledger + usage[c]
    /\ UNCHANGED <<kind, key, todo, from, kept, charged, usage, model, memo, peak>>

\* The client of a stream is gone, or the task of another call is cancelled:
\* what is recorded by then is billed or, when the ledger is cut short, not.
Depart(c) ==
    /\ stage[c] \in InFlight
    /\ Leave(c) /\ Goto(c, "gone")
    /\ \E bill \in {0, usage[c]} :
         /\ billed' = [billed EXCEPT ![c] = bill]
         /\ ledger' = ledger + bill
    /\ UNCHANGED <<kind, key, from, kept, charged, usage, memo, peak>>

\* An entry expires, or makes room for another.
Forget(m, k) ==
    /\ memo[m][k] # None
    /\ memo' = [memo EXCEPT ![m][k] = None]
    /\ UNCHANGED <<kind, key, stage, todo, from, kept, charged, usage, billed, model, ledger,
                   peak>>

-----------------------------------------------------------------------------
Work ==
    \/ \E c \in Calls :
         \/ Prepared(c) \/ PrepareFails(c) \/ Answer(c) \/ Token(c) \/ StreamEnds(c)
         \/ AnswerFails(c) \/ Rank(c) \/ Bill(c)
    \/ \E t \in Tasks : ExtractOne(t)

Next ==
    \/ Work
    \/ \E c \in Calls : Refuse(c) \/ Hit(c) \/ Prepare(c) \/ Arbitrate(c) \/ Depart(c)
    \/ \E m \in Memoized, k \in Keys : Forget(m, k)

Spec == Init /\ [][Next]_vars

\* Providers answer or time out, clients of a stream read it or are gone, and
\* the loop resumes every task.
FairSpec == Spec /\ WF_vars(Work)

-----------------------------------------------------------------------------
(* Properties.                                                             *)

(***************************************************************************)
(* "Serving from cache costs nothing, so it reports nothing": an answer is *)
(* billed once, to the call that produced it unless that one is cut off    *)
(* while it pays, at what its tracker learned, which is never more than    *)
(* the provider charged, and may be nothing; whoever else is given it, and *)
(* whether or not the first call is over by then, costs, reports and pays  *)
(* nothing.                                                                *)
(***************************************************************************)
PaidOnce ==
    \A c \in Calls : stage[c] = "done" /\ kind[c] \in {"answer", "stream"} =>
        LET d == from[c]
        IN  /\ kind[d] = kind[c]
            /\ billed[d] = usage[d] \/ stage[d] \in {"billing", "gone"}
            /\ billed[d] <= usage[d] /\ usage[d] <= charged[d]
            /\ c # d => charged[c] = 0 /\ usage[c] = 0 /\ billed[c] = 0

(***************************************************************************)
(* What the daily cap is worth: it is exceeded by no more than the calls   *)
(* that were in flight at once, and not, as deps.py:163 has it, "by at     *)
(* most one run".                                                          *)
(***************************************************************************)
OvershootIsInFlight == Cap > 0 => ledger < Cap + peak

(***************************************************************************)
(* "Never raises: a timeout, a provider error or an unusable answer        *)
(* silently falls back": an arbitration of some results keeps at least one *)
(* and at most top_k of them, fresh or memoized.                           *)
(***************************************************************************)
RankKeepsSome ==
    \A c \in Calls : stage[c] = "done" /\ kind[c] = "rank" => kept[c] \in 1..TopK

(***************************************************************************)
(* Every call that is let in ends, and gives back its slot of the model    *)
(* when it fails or its client is gone: nobody waits for good.             *)
(***************************************************************************)
CallsEnd ==
    (\E c \in Calls : stage[c] \in InFlight) ~> (\A c \in Calls : stage[c] \notin InFlight)
=============================================================================
