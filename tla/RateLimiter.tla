----------------------------- MODULE RateLimiter -----------------------------
(***************************************************************************)
(* The weighted sliding-window limiter of app/api/middleware.py: the table *)
(* _HITS of windows in least-recently-used order, _purge, the debit of     *)
(* RateLimitMiddleware and the second debit, charge, that the MCP layer    *)
(* makes against the same window once it knows the tool (mcp/guards.py).   *)
(* The first debit is under the limit of the key that the request presents,*)
(* which names the window; the second under that of the bearer, which is   *)
(* what /mcp verifies.  A request may carry both, and differ.              *)
(*                                                                         *)
(* Neither debit awaits, so each is one action; between the two of an MCP  *)
(* call anything may happen.  Time is counted in ticks, Second of them to  *)
(* the second, so that the rounding of Retry-After shows.  A path or a     *)
(* tool is its weight; exempt paths do not reach the limiter.              *)
(***************************************************************************)
EXTENDS Orders, SequencesExt

CONSTANTS
    Labels,        \* labels of the API keys
    Addresses,     \* addresses that requests come from
    None,          \* no label, no header
    Anonymous,     \* ANONYMOUS_LABEL
    AuthEnabled,   \* AUTH_ENABLED
    TrustedProxy,  \* TRUSTED_PROXY
    Limit,         \* points per window: of each label, and of None
    Weights,       \* what requests and tool calls cost
    Window,        \* _WINDOW, in ticks
    PurgeInterval, \* _PURGE_INTERVAL, in ticks
    Second,        \* ticks per second
    MaxClients,    \* RATE_LIMIT_MAX_CLIENTS
    MaxClock,      \* bound: ticks in a behaviour
    MaxCalls       \* bound: MCP calls of a label on a window between their debits

\* The keys of the table.
Clients == Labels \cup Addresses

\* What may select an override of the limit.
Callers == Labels \cup {Anonymous, None}

ASSUME RateLimiterAssumption ==
    /\ Labels \cap Addresses = {} /\ None \notin Clients
    /\ {AuthEnabled, TrustedProxy} \subseteq BOOLEAN
    /\ Limit \in [Callers -> Nat]
    /\ Weights \subseteq Nat \ {0}
    /\ Window \in Nat
    /\ {PurgeInterval, Second} \subseteq Nat \ {0}
    /\ MaxClients \in Nat
    /\ MaxClock \in Nat /\ MaxCalls \in Nat

VARIABLES
    now,       \* time.monotonic()
    order,     \* the keys of _HITS, coldest first
    hits,      \* the windows of _HITS, empty for a key not in the table
    lastPurge, \* _last_purge
    calls,     \* of each client and label: MCP calls charged one point so far
    granted,   \* history: points each client was granted since each tick of the
               \* last window, if the cap of the table did not throw its window
               \* away meanwhile
    under,     \* history: under whose limit each client was last granted points
    used       \* history: when each client in the table last used the limiter

limiterVars == <<now, order, hits, lastPurge, calls, granted, under, used>>

Clock == 0..MaxClock
Hit   == [at : Clock, weight : Nat \ {0}]

LimiterTypeOK ==
    /\ now \in Clock
    /\ order \in Seq(Clients) /\ IsInjective(order)
    \* The table is capped before the caller's window is put into it.
    /\ Len(order) <= MaxClients + 1
    /\ hits \in [Clients -> Seq(Hit)]
    /\ \A c \in Clients : hits[c] # <<>> => c \in ToSet(order)
    /\ lastPurge \in Clock
    /\ calls \in [Clients -> [Callers -> 0..MaxCalls]]
    /\ granted \in [Clients -> [Clock -> Nat]]
    /\ under \in [Clients -> Callers]
    /\ used \in [Clients -> Clock]
    \* "so the coldest client is evicted first": the cap takes from the head.
    /\ \A i, k \in DOMAIN order : i < k => used[order[i]] <= used[order[k]]

LimiterInit ==
    /\ now = 0
    /\ order = <<>>
    /\ hits = [c \in Clients |-> <<>>]
    /\ lastPurge = 0
    /\ calls = [c \in Clients |-> [l \in Callers |-> 0]]
    /\ granted = [c \in Clients |-> [t \in Clock |-> 0]]
    /\ under = [c \in Clients |-> None]
    /\ used = [c \in Clients |-> 0]

-----------------------------------------------------------------------------
(* Who is asking.                                                          *)

\* A request: the label of the key it presents (X-API-Key, else the bearer) and
\* that of its bearer, if they are keys, the peer it comes from, and whom
\* X-Forwarded-For says it comes from.
Requests == [presented : Labels \cup {None}, bearer : Labels \cup {None},
             peer : Addresses, forwarded : Addresses \cup {None}]

_client_ip(r) == IF TrustedProxy /\ r.forwarded # None THEN r.forwarded ELSE r.peer

\* Whose limit _bucket finds, and the window it names.
Label(r) == IF AuthEnabled THEN r.presented ELSE None

_bucket(r) == IF Label(r) # None THEN Label(r) ELSE _client_ip(r)

\* What /mcp lets through to its tools, and who that is to them.
Verified(r) == AuthEnabled => r.bearer # None

caller_label(r) == IF AuthEnabled THEN r.bearer ELSE Anonymous

\* What the limiter and /mcp read off the requests there may be.
Askers == {[bucket |-> _bucket(r), label |-> Label(r),
            caller |-> caller_label(r), verified |-> Verified(r)] : r \in Requests}

-----------------------------------------------------------------------------
(* Definitions named ...Bug are no part of the specification: each is a    *)
(* mistake this code could have made, kept to show which property finds it.*)

ExpiredBug(hit) == now - hit.at >= Window

Expired(hit) == now - hit.at > Window

\* What is left of a window once the expired hits at its head are dropped.
Fresh(window) ==
    LET expired == CHOOSE d \in 0..Len(window) :
                      /\ \A i \in 1..d : Expired(window[i])
                      /\ d < Len(window) => ~Expired(window[d + 1])
    IN  SubSeq(window, expired + 1, Len(window))

\* The sum of the weights in a window.
Spent(window) == Total([i \in DOMAIN window |-> window[i].weight])

SweptBug == Removed(order, {c \in Clients : hits[c] = <<>>})

\* _purge, first part: the keys whose newest hit, if any, is out of the window.
Swept ==
    IF now - lastPurge >= PurgeInterval
    THEN Removed(order, {c \in Clients : hits[c] = <<>> \/ Expired(Last(hits[c]))})
    ELSE order

\* _purge, second part: the coldest go while there are more than MaxClients.
Capped(keys) ==
    IF Len(keys) <= MaxClients THEN keys
    ELSE SubSeq(keys, Len(keys) - MaxClients + 1, Len(keys))

TouchedBug(keys, c) == IF c \in ToSet(keys) THEN keys ELSE Append(keys, c)

\* The caller's key at the warm end.
Touched(keys, c) == Append(Removed(keys, {c}), c)

ResetBug(window) ==
    IF window = <<>> THEN Window \div Second
    ELSE (Window - (now - Head(window).at)) \div Second

\* Seconds until the oldest counted hit expires.
Reset(window) ==
    IF window = <<>> THEN Window \div Second
    ELSE (Window - (now - Head(window).at)) \div Second + 1

\* A tick of the last window.
Recent(t) == t <= now /\ now <= t + Window

\* One debit: purge, find or make the window c, drop its expired hits, then take
\* the points if there are enough left under the limit of label.
Debit(c, label, weight, enough) ==
    LET kept   == Capped(Swept)
        window == IF c \in ToSet(kept) THEN Fresh(hits[c]) ELSE <<>>
    IN  /\ enough = (Spent(window) + weight <= Limit[label])
        /\ lastPurge' = IF now - lastPurge >= PurgeInterval THEN now ELSE lastPurge
        /\ order' = Touched(kept, c)
        /\ hits' = [k \in Clients |->
                      IF k = c
                      THEN IF enough THEN Append(window, [at |-> now, weight |-> weight])
                           ELSE window
                      ELSE IF k \in ToSet(kept) THEN hits[k] ELSE <<>>]
        /\ granted' = [k \in Clients |->
                         LET old == IF k \in ToSet(Swept) \ ToSet(kept)
                                    THEN [t \in Clock |-> 0] ELSE granted[k]
                         IN  IF k = c /\ enough
                             THEN [t \in Clock |-> IF Recent(t) THEN old[t] + weight ELSE old[t]]
                             ELSE old]
        /\ under' = IF enough THEN [under EXCEPT ![c] = label] ELSE under
        /\ used' = [k \in Clients |-> IF k = c THEN now
                                      ELSE IF k \in ToSet(kept) THEN used[k] ELSE 0]
        /\ UNCHANGED now

\* RateLimitMiddleware, for a path priced weight; a refusal is a 429.
Request(a, weight) ==
    /\ \E enough \in BOOLEAN : Debit(a.bucket, a.label, weight, enough)
    /\ UNCHANGED calls

\* The same for /mcp, which is priced one point ...
McpRequest(a) ==
    /\ calls[a.bucket][a.caller] < MaxCalls
    /\ \E enough \in BOOLEAN :
         /\ Debit(a.bucket, a.label, 1, enough)
         /\ calls' = IF enough /\ a.verified
                     THEN [calls EXCEPT ![a.bucket][a.caller] = @ + 1] ELSE calls

\* ... and topped up by charge_tool to what the tool costs: bucket_key finds the
\* key that the middleware left on the request, and the limit is that of the
\* caller's own label.
ChargeTool(c, label, weight) ==
    /\ calls[c][label] > 0
    /\ calls' = [calls EXCEPT ![c][label] = @ - 1]
    /\ IF weight > 1
       THEN \E enough \in BOOLEAN : Debit(c, label, weight - 1, enough)
       ELSE UNCHANGED <<now, order, hits, lastPurge, granted, under, used>>

Tick ==
    /\ now < MaxClock
    /\ now' = now + 1
    /\ granted' = [c \in Clients |-> [t \in Clock |->
                      IF now + 1 > t + Window THEN 0 ELSE granted[c][t]]]
    /\ UNCHANGED <<order, hits, lastPurge, calls, under, used>>

LimiterNext ==
    \/ \E a \in Askers : McpRequest(a) \/ \E w \in Weights : Request(a, w)
    \/ \E c \in Clients, l \in Callers, w \in Weights : ChargeTool(c, l, w)
    \/ Tick

LimiterSpec == LimiterInit /\ [][LimiterNext]_limiterVars

-----------------------------------------------------------------------------
(* Properties.                                                             *)

(***************************************************************************)
(* In no stretch of time as long as the window is a client granted more    *)
(* than the limit under which it was granted points last, over HTTP and MCP*)
(* together, whatever the sweeps and the trims of its window removed in    *)
(* between.  That limit is the client's own, except after the top-up of an *)
(* MCP call whose bearer is another one's: then it is the bearer's.  (When *)
(* the cap of the table throws its window away, the client starts afresh:  *)
(* the price of RATE_LIMIT_MAX_CLIENTS.)                                   *)
(***************************************************************************)
BudgetHolds ==
    \A c \in Clients, t \in Clock : granted[c][t] <= Limit[under[c]]

(***************************************************************************)
(* The seconds a client is told to wait are enough for its oldest points   *)
(* to come free, rounding included, and at most one second too many.       *)
(***************************************************************************)
RetryAfterFrees ==
    \A c \in Clients : hits[c] # <<>> /\ ~Expired(Head(hits[c])) =>
        LET until == now + Second * Reset(hits[c])
            free  == Head(hits[c]).at + Window
        IN  free < until /\ until <= free + Second

(***************************************************************************)
(* The table does not keep windows for ever: after any use of the limiter, *)
(* no window is older than its expiry plus one sweep's interval.  Growth   *)
(* without a sweep was "a slow leak".                                      *)
(***************************************************************************)
StaleWindowsGo ==
    \A c \in ToSet(order), d \in Clients :
        hits[c] # <<>> => used[d] < Last(hits[c]).at + Window + PurgeInterval
=============================================================================
