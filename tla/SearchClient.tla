---------------------------- MODULE SearchClient ----------------------------
(***************************************************************************)
(* SearxngClient.search (app/core/search/searxng.py): a TTL and LRU cache  *)
(* of answers (TTLCache of app/core/cache.py) in front of a single flight  *)
(* per query, shared by every search, crawl, answer and research of the    *)
(* process.                                                                *)
(*                                                                         *)
(* The lock of the cache is never held across an await, so it never        *)
(* suspends anybody: a look at the cache, the look at the flights and the  *)
(* start of a new one are one action, and so are the end of a fetch, the   *)
(* cache write and the end of its flight.  A call leads at most one        *)
(* flight, so a flight is named by the call that leads it; an answer is    *)
(* the time at which it was fetched.                                       *)
(***************************************************************************)
EXTENDS Naturals, Sequences, SequencesExt, FiniteSets

CONSTANTS
    Calls,    \* calls of search
    Queries,  \* cache keys
    None,     \* no call
    Ttl,      \* SEARCH_CACHE_TTL, in ticks; 0 is no cache
    MaxSize,  \* SEARCH_CACHE_MAX_SIZE
    MaxClock  \* bound: ticks in a behaviour

ASSUME SearchAssumption ==
    /\ None \notin Calls
    /\ Ttl \in Nat
    /\ MaxSize \in Nat \ {0}
    /\ MaxClock \in Nat

VARIABLES
    now,      \* time.monotonic()
    pc,       \* of each call: where it stands
    query,    \* of each call: its cache key
    asked,    \* of each call: when it was made
    flight,   \* of each call: the flight it waits for
    future,   \* of each call: the future of the flight it leads
    answer,   \* of each call: what it returned, and so what its flight did
    inflight, \* SearxngClient._inflight
    stored,   \* the keys of the cache, least recently used first
    fetched,  \* the answers of the cache
    evicted   \* history: queries the cap of the cache threw out

vars == <<now, pc, query, asked, flight, future, answer, inflight, stored, fetched, evicted>>

Clock == 0..MaxClock
Ended == {"answered", "failed", "cancelled"}

TypeOK ==
    /\ now \in Clock
    /\ pc \in [Calls -> {"idle", "waiting", "fetching"} \cup Ended]
    /\ query \in [Calls -> Queries]
    /\ asked \in [Calls -> Clock]
    /\ flight \in [Calls -> Calls \cup {None}]
    /\ future \in [Calls -> {"none", "pending", "result", "exception", "cancelled"}]
    /\ answer \in [Calls -> Clock]
    /\ inflight \in [Queries -> Calls \cup {None}]
    /\ stored \in Seq(Queries) /\ IsInjective(stored) /\ Len(stored) <= MaxSize
    /\ fetched \in [Queries -> Clock]
    /\ evicted \subseteq Queries

Init ==
    /\ now = 0
    /\ pc = [c \in Calls |-> "idle"]
    /\ query \in [Calls -> Queries]
    /\ asked = [c \in Calls |-> 0]
    /\ flight = [c \in Calls |-> None]
    /\ future = [c \in Calls |-> "none"]
    /\ answer = [c \in Calls |-> 0]
    /\ inflight = [q \in Queries |-> None]
    /\ stored = <<>>
    /\ fetched = [q \in Queries |-> 0]
    /\ evicted = {}

-----------------------------------------------------------------------------
(* The cache.  Definitions named ...Bug are no part of the specification:  *)
(* each is a mistake this code could have made.                            *)

ExpiredBug(q) == fetched[q] + Ttl + 1 <= now

Expired(q) == fetched[q] + Ttl <= now

Hit(q) == q \in ToSet(stored) /\ ~Expired(q)

\* The cache without an entry.
Without(q) ==
    IF q \in ToSet(stored)
    THEN RemoveAt(stored, CHOOSE i \in DOMAIN stored : stored[i] = q)
    ELSE stored

\* get: an expired entry is deleted, another one becomes the most recent.
AfterGet(q) ==
    IF Hit(q) THEN Append(Without(q), q) ELSE Without(q)

AfterSetBug(q) ==
    LET all == IF q \in ToSet(stored) THEN stored ELSE Append(stored, q)
    IN  IF Len(all) > MaxSize + 1 THEN Tail(all) ELSE all

\* set: the entry becomes the most recent, the least recent makes room.
AfterSet(q) ==
    LET all == Append(Without(q), q)
    IN  IF Len(all) > MaxSize THEN Tail(all) ELSE all

-----------------------------------------------------------------------------
(* search.                                                                 *)

\* One turn of its loop: the cache, the flight of the query, or one of its own.
LookBug(c) ==
    LET q == query[c]
    IN  /\ stored' = AfterGet(q)
        /\ IF Hit(q)
           THEN /\ pc' = [pc EXCEPT ![c] = "answered"]
                /\ answer' = [answer EXCEPT ![c] = fetched[q]]
                /\ UNCHANGED <<flight, future, inflight>>
           ELSE /\ pc' = [pc EXCEPT ![c] = "fetching"]
                /\ future' = [future EXCEPT ![c] = "pending"]
                /\ inflight' = [inflight EXCEPT ![q] = c]
                /\ UNCHANGED <<flight, answer>>

Look(c) ==
    LET q == query[c]
    IN  /\ stored' = AfterGet(q)
        /\ \/ /\ Hit(q)
              /\ pc' = [pc EXCEPT ![c] = "answered"]
              /\ answer' = [answer EXCEPT ![c] = fetched[q]]
              /\ UNCHANGED <<flight, future, inflight>>
           \/ /\ ~Hit(q) /\ inflight[q] # None
              /\ pc' = [pc EXCEPT ![c] = "waiting"]
              /\ flight' = [flight EXCEPT ![c] = inflight[q]]
              /\ UNCHANGED <<answer, future, inflight>>
           \/ /\ ~Hit(q) /\ inflight[q] = None
              /\ pc' = [pc EXCEPT ![c] = "fetching"]
              /\ future' = [future EXCEPT ![c] = "pending"]
              /\ inflight' = [inflight EXCEPT ![q] = c]
              /\ UNCHANGED <<flight, answer>>

Search(c) ==
    /\ pc[c] = "idle"
    /\ asked' = [asked EXCEPT ![c] = now]
    /\ Look(c)
    /\ UNCHANGED <<now, query, fetched, evicted>>

\* A waiter wakes up after its flight is over: it has the answer,
Joined(c) ==
    /\ pc[c] = "waiting"
    /\ future[flight[c]] \in {"result", "exception"}
    /\ pc' = [pc EXCEPT ![c] = IF future[flight[c]] = "result" THEN "answered" ELSE "failed"]
    /\ answer' = [answer EXCEPT ![c] = answer[flight[c]]]
    /\ UNCHANGED <<now, query, asked, flight, future, inflight, stored, fetched, evicted>>

\* ... or, when the leader was cancelled, starts again.
Retry(c) ==
    /\ pc[c] = "waiting"
    /\ future[flight[c]] = "cancelled"
    /\ Look(c)
    /\ UNCHANGED <<now, query, asked, fetched, evicted>>

\* The end of a flight, whichever way: the finally of search.
Land(c, how) ==
    /\ future' = [future EXCEPT ![c] = how]
    /\ inflight' = IF inflight[query[c]] = c
                   THEN [inflight EXCEPT ![query[c]] = None] ELSE inflight
    /\ UNCHANGED <<now, query, asked, flight>>

FetchedBug(c) ==
    /\ pc[c] = "fetching"
    /\ pc' = [pc EXCEPT ![c] = "answered"]
    /\ answer' = [answer EXCEPT ![c] = now]
    /\ UNCHANGED <<stored, fetched, evicted>>
    /\ Land(c, "result")

\* SearXNG answers.
Fetched(c) ==
    /\ pc[c] = "fetching"
    /\ pc' = [pc EXCEPT ![c] = "answered"]
    /\ answer' = [answer EXCEPT ![c] = now]
    /\ IF Ttl > 0
       THEN /\ stored' = AfterSet(query[c])
            /\ fetched' = [fetched EXCEPT ![query[c]] = now]
            /\ evicted' = (evicted \cup ToSet(stored)) \ ToSet(stored')
       ELSE UNCHANGED <<stored, fetched, evicted>>
    /\ Land(c, "result")

\* It cannot be reached, times out or answers with an error.
FetchFails(c) ==
    /\ pc[c] = "fetching"
    /\ pc' = [pc EXCEPT ![c] = "failed"]
    /\ Land(c, "exception")
    /\ UNCHANGED <<answer, stored, fetched, evicted>>

CancelLeaderBug(c) ==
    /\ pc[c] = "fetching"
    /\ pc' = [pc EXCEPT ![c] = "cancelled"]
    /\ Land(c, "pending")
    /\ UNCHANGED <<answer, stored, fetched, evicted>>

\* The task that leads a flight is cancelled.
CancelLeader(c) ==
    /\ pc[c] = "fetching"
    /\ pc' = [pc EXCEPT ![c] = "cancelled"]
    /\ Land(c, "cancelled")
    /\ UNCHANGED <<answer, stored, fetched, evicted>>

\* A task that waits for one is: the flight goes on.
CancelWaiter(c) ==
    /\ pc[c] = "waiting"
    /\ pc' = [pc EXCEPT ![c] = "cancelled"]
    /\ UNCHANGED <<now, query, asked, flight, future, answer, inflight, stored, fetched, evicted>>

Tick ==
    /\ now < MaxClock
    /\ now' = now + 1
    /\ UNCHANGED <<pc, query, asked, flight, future, answer, inflight, stored, fetched, evicted>>

-----------------------------------------------------------------------------
CallStep(c) == Joined(c) \/ Retry(c) \/ Fetched(c) \/ FetchFails(c)

Next ==
    \/ \E c \in Calls :
         Search(c) \/ CallStep(c) \/ CancelLeader(c) \/ CancelWaiter(c)
    \/ Tick

Spec == Init /\ [][Next]_vars

\* The loop resumes every task that is due; SearXNG answers or the client times out.
Fairness == \A c \in Calls : WF_vars(CallStep(c))

FairSpec == Spec /\ Fairness

-----------------------------------------------------------------------------
(* Properties.                                                             *)

(***************************************************************************)
(* Identical searches share one round trip: never are two fetches of one   *)
(* query out at once, not even while the waiters of a cancelled leader     *)
(* start again.                                                            *)
(***************************************************************************)
OneFetchPerQuery ==
    \A c, d \in Calls :
        pc[c] = "fetching" /\ pc[d] = "fetching" /\ query[c] = query[d] => c = d

(***************************************************************************)
(* No answer is older than the cache allows: it was fetched after the call *)
(* was made or less than the TTL before, though it may come from another   *)
(* call's flight or from the cache.                                        *)
(***************************************************************************)
AnswersAreFresh ==
    \A c \in Calls : pc[c] = "answered" =>
        answer[c] >= asked[c] \/ answer[c] + Ttl > asked[c]

(***************************************************************************)
(* "a task arriving right behind us finds either the cached value or a     *)
(* live flight - never a gap": no fetch of a query starts within the TTL   *)
(* of an answer to it, unless other queries pushed that out of the cache.  *)
(***************************************************************************)
NoGap ==
    [][\A c, d \in Calls :
           /\ pc[c] # "fetching" /\ pc'[c] = "fetching"
           /\ pc[d] = "answered" /\ query[d] = query[c]
           => answer[d] + Ttl <= now \/ query[c] \in evicted]_vars

(***************************************************************************)
(* Every search ends: cancelling a leader, at any time, strands none of    *)
(* those that wait for it.                                                 *)
(***************************************************************************)
SearchesEnd == \A c \in Calls : pc[c] = "waiting" ~> pc[c] \in Ended
=============================================================================
