------------------------------- MODULE Crawler -------------------------------
(***************************************************************************)
(* CrawlerService (app/core/crawl/crawler.py): the one browser of the      *)
(* process, the semaphore that bounds its sessions, the gate that spaces   *)
(* the fetches of a host, and the two ways to read a page, the browser and *)
(* the document path.                                                      *)
(*                                                                         *)
(* A page of a call is a task.  One action is what a task does between two *)
(* awaits that others can tell apart: the guard's look at the URL a fetch  *)
(* landed on and the conversion of a document, which wait but touch no     *)
(* shared state, belong to the action that ends the fetch.                 *)
(***************************************************************************)
EXTENDS UrlGuard, Semaphore

CONSTANTS
    Crawls,       \* calls of crawl and crawl_extracted
    Sites,        \* calls of crawl_site
    Requests,     \* sets of URLs a caller may ask for
    None,         \* no call
    MaxSessions,  \* CRAWL_MAX_CONCURRENCY
    Delay,        \* CRAWL_PER_HOST_DELAY, in ticks; 0 is no spacing
    HighWater,    \* _HOST_GATE_HIGH_WATER
    Documents,    \* DOCUMENTS_ENABLED
    PdfFallback,  \* CRAWL_PDF_FALLBACK
    MaxRedirects, \* _DOCUMENT_MAX_REDIRECTS
    MaxPages,     \* max_pages of a site crawl
    MaxClock      \* bound: ticks nobody sleeps through

Calls == Crawls \cup Sites

ASSUME CrawlerAssumption ==
    /\ Crawls \cap Sites = {} /\ None \notin Calls
    /\ Requests \subseteq SUBSET Urls
    /\ MaxSessions \in Nat \ {0}
    /\ {Delay, HighWater, MaxRedirects, MaxPages, MaxClock} \subseteq Nat
    /\ Documents \in BOOLEAN /\ PdfFallback \in BOOLEAN

VARIABLES
    now,       \* loop.time()
    call,      \* of each call: where it stands
    asked,     \* of each call: the URLs of its request
    markdown,  \* of each call: whether its formats name markdown
    started,   \* CrawlerService._started
    launcher,  \* the call that holds _start_lock in AsyncWebCrawler.start
    browsers,  \* browsers that run
    http,      \* CrawlerService._http is a client
    closed,    \* the end of the lifespan has closed the service
    pc,        \* of each task: where it stands
    via,       \* of each task: how it fetches
    due,       \* of each task: when the host slot it took last begins
    at,        \* of each task: the URL its request is at
    hops,      \* of each task: the redirects its document request followed
    page,      \* of each task: the page it has so far
    source,    \* of each task: the URL that page was read from
    sessions,  \* the semaphore: tasks that hold a permit, tasks that wait for one
    gate,      \* _host_gate: per host, when the next slot begins; 0 when absent
    count,     \* of each site crawl: the pages it collected
    found      \* of each site crawl: the URLs whose content is among them

vars == <<now, call, asked, markdown, started, launcher, browsers, http, closed,
          pc, via, due, at, hops, page, source, sessions, gate, count, found>>

service == <<started, launcher, browsers, http, closed>>

Tasks == Calls \X Urls
Success == {"text", "empty"}
Unfinished == {"vetted", "launching", "crawling"}
CallOver == {"refused", "failed", "cancelled", "answered"}

\* The children of a call: nothing is fetched for a URL the guard refuses.
TasksOf(c) == {c} \X partition(asked[c])

TypeOK ==
    /\ now \in Nat
    /\ call \in [Calls -> {"idle"} \cup Unfinished \cup CallOver]
    /\ asked \in [Calls -> Requests]
    /\ markdown \in [Calls -> BOOLEAN]
    /\ started \in BOOLEAN /\ http \in BOOLEAN /\ closed \in BOOLEAN
    /\ launcher \in Calls \cup {None}
    /\ browsers \in Nat
    /\ pc \in [Tasks -> {"none", "waiting", "session", "ended", "cancelled"}]
    /\ via \in [Tasks -> {"none", "document", "browser", "retry", "site"}]
    /\ due \in [Tasks -> Nat]
    /\ at \in [Tasks -> Urls] /\ source \in [Tasks -> Urls]
    /\ hops \in [Tasks -> 0..MaxRedirects]
    /\ page \in [Tasks -> {"none", "failed", "blocked"} \cup Success]
    /\ gate \in [Hosts -> Nat]
    /\ count \in [Sites -> 0..MaxPages]
    /\ found \in [Sites -> SUBSET Urls]

Init ==
    /\ now = 0
    /\ call = [c \in Calls |-> "idle"]
    /\ asked \in [Calls -> Requests]
    /\ \A s \in Sites : Cardinality(asked[s]) = 1
    /\ markdown \in {f \in [Calls -> BOOLEAN] : \A s \in Sites : f[s]}
    /\ started = FALSE /\ launcher = None /\ browsers = 0
    /\ http = FALSE /\ closed = FALSE
    /\ pc = [t \in Tasks |-> "none"]
    /\ via = [t \in Tasks |-> "none"]
    /\ due = [t \in Tasks |-> 0]
    /\ at = [t \in Tasks |-> t[2]]
    /\ hops = [t \in Tasks |-> 0]
    /\ page = [t \in Tasks |-> "none"]
    /\ source = [t \in Tasks |-> t[2]]
    /\ sessions = [open |-> {}, queue |-> <<>>]
    /\ gate = [h \in Hosts |-> 0]
    /\ count = [s \in Sites |-> 0]
    /\ found = [s \in Sites |-> {}]

-----------------------------------------------------------------------------
(* The gate.  Definitions named ...Bug are no part of the specification:   *)
(* each is a mistake this code could have made.                            *)

\* Too many hosts: those whose slots have all begun are forgotten.
Swept(g) == IF Cardinality({h \in Hosts : g[h] > 0}) > HighWater
            THEN [h \in Hosts |-> IF g[h] > now THEN g[h] ELSE 0] ELSE g

Later(a, b) == IF a > b THEN a ELSE b

\* _await_host_slot: the slot is taken before the wait for it begins; a task
\* that need not wait goes on to the semaphore s.
TakeSlotBug(s, t) ==
    LET host == t[2].host
    IN  /\ due' = [due EXCEPT ![t] = Later(now, gate[host])]
        /\ gate' = Swept([gate EXCEPT ![host] = now + Delay])
        /\ pc' = [pc EXCEPT ![t] = IF due'[t] > now THEN "waiting" ELSE "session"]
        /\ sessions' = IF due'[t] > now THEN s ELSE Acquire(s, MaxSessions, <<t>>)

TakeSlot(s, t) ==
    LET host == t[2].host
    IN  /\ due' = [due EXCEPT ![t] = IF Delay = 0 THEN now ELSE Later(now, gate[host])]
        /\ gate' = IF Delay = 0 THEN gate
                   ELSE Swept([gate EXCEPT ![host] = Later(now, @) + Delay])
        /\ pc' = [pc EXCEPT ![t] = IF due'[t] > now THEN "waiting" ELSE "session"]
        /\ sessions' = IF due'[t] > now THEN s ELSE Acquire(s, MaxSessions, <<t>>)

-----------------------------------------------------------------------------
(* A call: the guard, the browser, the tasks.                              *)

\* crawl and crawl_site begin: a request with no URL left is an error.
Begin(c) ==
    /\ call[c] = "idle"
    /\ call' = [call EXCEPT ![c] = IF partition(asked[c]) = {} THEN "refused" ELSE "vetted"]
    /\ UNCHANGED <<now, asked, markdown, service, pc, via, due, at, hops, page, source,
                   sessions, gate, count, found>>

\* start: the browser is up, before or after the wait for the lock,
Ready(c) ==
    /\ call[c] = "vetted" /\ started
    /\ call' = [call EXCEPT ![c] = "crawling"]
    /\ UNCHANGED <<now, asked, markdown, service, pc, via, due, at, hops, page, source,
                   sessions, gate, count, found>>

LaunchBug(c) ==
    /\ call[c] = "vetted" /\ launcher = None
    /\ call' = [call EXCEPT ![c] = "launching"]
    /\ launcher' = c
    /\ UNCHANGED <<now, asked, markdown, started, browsers, http, closed, pc, via, due, at,
                   hops, page, source, sessions, gate, count, found>>

\* ... or this call launches it, under the lock,
Launch(c) ==
    /\ call[c] = "vetted" /\ ~started /\ launcher = None
    /\ call' = [call EXCEPT ![c] = "launching"]
    /\ launcher' = c
    /\ UNCHANGED <<now, asked, markdown, started, browsers, http, closed, pc, via, due, at,
                   hops, page, source, sessions, gate, count, found>>

\* ... and it comes up or the call fails, leaving the lock to the next.
Launched(c) ==
    /\ call[c] = "launching"
    /\ \/ /\ call' = [call EXCEPT ![c] = "crawling"]
          /\ started' = TRUE /\ browsers' = browsers + 1
       \/ /\ call' = [call EXCEPT ![c] = "failed"]
          /\ UNCHANGED <<started, browsers>>
    /\ launcher' = None
    /\ UNCHANGED <<now, asked, markdown, http, closed, pc, via, due, at, hops, page, source,
                   sessions, gate, count, found>>

\* A call is cancelled, and so is everything it waits for: places and permits
\* are given back, host slots are not.
Cancel(c) ==
    /\ call[c] \in Unfinished
    /\ call' = [call EXCEPT ![c] = "cancelled"]
    /\ pc' = [t \in Tasks |-> IF t[1] = c /\ pc[t] \in {"waiting", "session"}
                              THEN "cancelled" ELSE pc[t]]
    /\ sessions' = Release(sessions, MaxSessions, TasksOf(c))
    /\ launcher' = IF launcher = c THEN None ELSE launcher
    /\ UNCHANGED <<now, asked, markdown, started, browsers, http, closed, via, due, at, hops,
                   page, source, gate, count, found>>

\* close, once, at the end of the lifespan, under the lock.  Branches that a failed
\* run left behind may be crawling, or only come to start: nothing stops them.
close ==
    /\ ~closed /\ launcher = None
    /\ closed' = TRUE
    /\ browsers' = IF started THEN browsers - 1 ELSE browsers
    /\ started' = FALSE /\ http' = FALSE
    /\ UNCHANGED <<now, call, asked, markdown, launcher, pc, via, due, at, hops, page, source,
                   sessions, gate, count, found>>

-----------------------------------------------------------------------------
(* A page of crawl.                                                        *)

\* The path of a URL has the extension of a document, or a /pdf/ in it.
looks_like_document_url(u) == u.path \in {"extension", "segment"}

TriesDocument(u) == Documents /\ looks_like_document_url(u)

Runs(t, how) == via[t] = how /\ t \in sessions.open

\* _crawl_one begins: a URL that looks like a document is tried as one first.
StartPage(t) ==
    /\ t[1] \in Crawls /\ call[t[1]] = "crawling" /\ t \in TasksOf(t[1])
    /\ pc[t] = "none"
    /\ via' = [via EXCEPT ![t] = IF TriesDocument(t[2]) THEN "document" ELSE "browser"]
    /\ TakeSlot(sessions, t)
    /\ UNCHANGED <<now, call, asked, markdown, service, at, hops, page, source, count, found>>

\* The slot of the host has come: on to the semaphore.
Wake(t) ==
    /\ pc[t] = "waiting" /\ due[t] <= now
    /\ pc' = [pc EXCEPT ![t] = "session"]
    /\ sessions' = Acquire(sessions, MaxSessions, <<t>>)
    /\ UNCHANGED <<now, call, asked, markdown, service, via, due, at, hops, page, source,
                   gate, count, found>>

TookSlot(t) == via[t] \in {"document", "browser", "retry"}

\* A task ends and gives its permit back.
EndPage(t) ==
    /\ pc' = [pc EXCEPT ![t] = "ended"]
    /\ sessions' = Release(sessions, MaxSessions, {t})
    /\ UNCHANGED <<due, gate>>

\* _guard_landing: the URL a fetch landed on is checked unless it was before.
Landing(asking, landed, checked, kind) ==
    IF (checked /\ landed = asking) \/ check(landed) THEN kind ELSE "blocked"

\* A page has words only for a call that asked for them.
Worded(c, kind) == IF kind = "text" /\ ~markdown[c] THEN "empty" ELSE kind

\* What _to_page makes of the browser's result.
_to_page(c) == {Worded(c, kind) : kind \in Success} \cup {"failed"}

\* The browser answers, and an answer without a word is tried as a document.
Browsed(t) ==
    /\ Runs(t, "browser")
    /\ \E landed \in Urls, kind \in _to_page(t[1]) :
         /\ page' = [page EXCEPT ![t] = Landing(t[2], landed, TRUE, kind)]
         /\ source' = [source EXCEPT ![t] = IF page'[t] \in Success THEN landed ELSE @]
    /\ IF ~TriesDocument(t[2]) /\ Documents /\ markdown[t[1]] /\ page'[t] = "empty"
       THEN /\ via' = [via EXCEPT ![t] = "retry"]
            /\ TakeSlot(Release(sessions, MaxSessions, {t}), t)
       ELSE EndPage(t) /\ UNCHANGED via
    /\ UNCHANGED <<now, call, asked, markdown, service, at, hops, count, found>>

\* Responses to a document request: what the type says, whether the size is
\* allowed or else where that shows, what the bytes are, and what the converter
\* (and pypdf, behind it) makes of them.
Responses ==
    [type : {"format", "generic", "other"}, size : {"allowed", "declared", "streamed"},
     bytes : {"pdf", "format", "unknown"},
     anydoc : {"text", "empty", "error"}, pypdf : {"text", "empty", "error"}]

\* document_to_markdown: pypdf reads a PDF the converter cannot.
document_to_markdown(r) ==
    CASE r.anydoc # "error"                -> r.anydoc
      [] r.bytes = "pdf" /\ PdfFallback
         /\ r.pypdf # "error"              -> r.pypdf
      [] OTHER                             -> "failed"

\* _fetch_document: what a response amounts to.  The bytes have the last word,
\* the type and the name of the URL break a tie.
Fetched(r, u) ==
    CASE r.type = "other"                          -> "not a document"
      [] r.size # "allowed"                        -> "failed"
      [] r.bytes = "unknown" /\ r.type = "generic"
         /\ u.path # "extension"                   -> "not a document"
      [] OTHER                                     -> document_to_markdown(r)

\* What a URL can answer with.
Answers == [u \in Urls |-> {Fetched(r, u) : r \in Responses}]

\* _retry_as_document: only a document that could be read replaces the page.
Kept(t, kind) == IF via[t] = "retry" /\ kind \notin Success THEN page[t] ELSE kind

\* A document request is over, and with it the task unless the browser is next.
DocumentEnds(t, kind) ==
    /\ at' = [at EXCEPT ![t] = t[2]]
    /\ hops' = [hops EXCEPT ![t] = 0]
    /\ IF kind = "not a document" /\ via[t] = "document"
       THEN /\ via' = [via EXCEPT ![t] = "browser"]
            /\ TakeSlot(Release(sessions, MaxSessions, {t}), t)
            /\ UNCHANGED <<page, source>>
       ELSE /\ page' = [page EXCEPT ![t] = Kept(t, Worded(t[1], kind))]
            /\ source' = [source EXCEPT ![t] = IF kind \in Success THEN at[t] ELSE @]
            /\ EndPage(t)
            /\ UNCHANGED via

ReadsDocument(t) == Runs(t, "document") \/ Runs(t, "retry")

\* The request is answered, or it fails.
Answered(t) ==
    /\ ReadsDocument(t)
    /\ http' = TRUE
    /\ \E kind \in Answers[at[t]] : DocumentEnds(t, kind)
    /\ UNCHANGED <<now, call, asked, markdown, started, launcher, browsers, closed, count, found>>

RequestFails(t) ==
    /\ ReadsDocument(t)
    /\ http' = TRUE
    /\ DocumentEnds(t, "failed")
    /\ UNCHANGED <<now, call, asked, markdown, started, launcher, browsers, closed, count, found>>

\* It is redirected: each hop is checked before it is requested.
Redirected(t) ==
    /\ ReadsDocument(t)
    /\ http' = TRUE
    /\ \E u \in Urls :
         \/ ~check(u) /\ DocumentEnds(t, "blocked")
         \/ check(u) /\ hops[t] = MaxRedirects /\ DocumentEnds(t, "not a document")
         \/ /\ check(u) /\ hops[t] < MaxRedirects
            /\ at' = [at EXCEPT ![t] = u]
            /\ hops' = [hops EXCEPT ![t] = @ + 1]
            /\ UNCHANGED <<pc, via, due, page, source, sessions, gate>>
    /\ UNCHANGED <<now, call, asked, markdown, started, launcher, browsers, closed, count, found>>

\* The call has a page for every URL it asked for.
Gathered(c) ==
    /\ c \in Crawls /\ call[c] = "crawling"
    /\ \A t \in TasksOf(c) : pc[t] = "ended"
    /\ call' = [call EXCEPT ![c] = "answered"]
    /\ UNCHANGED <<now, asked, markdown, service, pc, via, due, at, hops, page, source,
                   sessions, gate, count, found>>

-----------------------------------------------------------------------------
(* A site crawl: one session for all of its pages.                         *)

StartSite(t) ==
    /\ t[1] \in Sites /\ call[t[1]] = "crawling" /\ t \in TasksOf(t[1])
    /\ pc[t] = "none"
    /\ via' = [via EXCEPT ![t] = "site"]
    /\ pc' = [pc EXCEPT ![t] = "session"]
    /\ sessions' = Acquire(sessions, MaxSessions, <<t>>)
    /\ UNCHANGED <<now, call, asked, markdown, service, due, at, hops, page, source, gate,
                   count, found>>

CollectBug(t) ==
    /\ Runs(t, "site") /\ count[t[1]] < MaxPages
    /\ count' = [count EXCEPT ![t[1]] = @ + 1]
    /\ \E landed \in Urls, kind \in {"text", "failed"} :
         found' = [found EXCEPT ![t[1]] =
             IF Landing(landed, landed, TRUE, kind) \in Success THEN @ \cup {landed} ELSE @]
    /\ UNCHANGED <<now, call, asked, markdown, service, pc, via, due, at, hops, page, source,
                   sessions, gate>>

\* _collect: nobody has checked a URL the crawl discovered.
Collect(t) ==
    /\ Runs(t, "site") /\ count[t[1]] < MaxPages
    /\ count' = [count EXCEPT ![t[1]] = @ + 1]
    /\ \E landed \in Urls, kind \in {"text", "failed"} :
         found' = [found EXCEPT ![t[1]] =
             IF Landing(landed, landed, FALSE, kind) \in Success THEN @ \cup {landed} ELSE @]
    /\ UNCHANGED <<now, call, asked, markdown, service, pc, via, due, at, hops, page, source,
                   sessions, gate>>

\* The crawl runs out of pages, or fails and loses those it has.
SiteEnds(t) ==
    /\ Runs(t, "site")
    /\ \E how \in {"answered", "failed"} : call' = [call EXCEPT ![t[1]] = how]
    /\ EndPage(t)
    /\ UNCHANGED <<now, asked, markdown, service, via, at, hops, page, source, count, found>>

Tick ==
    /\ now < MaxClock \/ \E t \in Tasks : pc[t] = "waiting" /\ due[t] > now
    /\ now' = now + 1
    /\ UNCHANGED <<call, asked, markdown, service, pc, via, due, at, hops, page, source,
                   sessions, gate, count, found>>

-----------------------------------------------------------------------------
CallStep(c) == Ready(c) \/ Launch(c) \/ Launched(c) \/ Gathered(c)

TaskStep(t) ==
    \/ StartPage(t) \/ Wake(t) \/ Browsed(t) \/ Answered(t) \/ RequestFails(t) \/ Redirected(t)
    \/ StartSite(t) \/ Collect(t) \/ SiteEnds(t)

Work == (\E c \in Calls : CallStep(c) \/ \E t \in TasksOf(c) : TaskStep(t)) \/ Tick

Next == Work \/ (\E c \in Calls : Begin(c) \/ Cancel(c)) \/ close

Spec == Init /\ [][Next]_vars

\* The loop resumes every task that is due, a permit goes to those that waited
\* longest, and every fetch is answered or times out.
FairSpec == Spec /\ WF_vars(Work)

-----------------------------------------------------------------------------
(* Properties.                                                             *)

(***************************************************************************)
(* "Re-check the URL the crawl actually landed on": no page with content   *)
(* comes from a URL the guard refuses, whether a browser or a document     *)
(* request was redirected there or a site crawl discovered it, and no      *)
(* document request goes to one.                                           *)
(***************************************************************************)
OnlyVettedContent ==
    /\ \A t \in Tasks : page[t] \in Success => check(source[t])
    /\ \A t \in Tasks : ReadsDocument(t) => check(at[t])
    /\ \A s \in Sites : found[s] \subseteq partition(Urls)

(***************************************************************************)
(* "Reserve the slot before awaiting so concurrent callers queue behind    *)
(* us": two slots of one host begin at least the delay apart, whichever    *)
(* calls took them, waited for them or were cancelled, and though the gate *)
(* forgets hosts.                                                          *)
(***************************************************************************)
SlotsAreSpaced ==
    [][\A t, u \in Tasks :
           /\ TookSlot(u) /\ TookSlot(t)' /\ (due'[t] # due[t] \/ via'[t] # via[t])
           /\ t[2].host = u[2].host
           => due'[t] >= due[u] + Delay]_vars

(***************************************************************************)
(* "Two concurrent first requests would otherwise each start a browser     *)
(* pool, and the first would leak": there is never a second browser, not   *)
(* when a launch fails or is cancelled, nor when close comes in between,   *)
(* and one that runs is one that close would find.                         *)
(***************************************************************************)
OneBrowser == browsers <= 1 /\ (browsers = 1 => started)

(***************************************************************************)
(* Every call ends, and so there is a time when none is unfinished: a      *)
(* cancelled, failed or refused one strands none of those that wait for a  *)
(* session, for a slot or for the browser.                                 *)
(***************************************************************************)
CrawlsEnd ==
    (\E c \in Calls : call[c] \in Unfinished) ~> (\A c \in Calls : call[c] \notin Unfinished)
=============================================================================
