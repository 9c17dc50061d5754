----------------------------- MODULE ToolResults -----------------------------
(***************************************************************************)
(* What an agent gets for a tool call (app/mcp): the result a tool makes   *)
(* of the pages of a service (tools.py), its cut to the token ceiling      *)
(* (budget.py), the store that keeps what was cut (artifacts.py), and the  *)
(* resources that serve it (resources.py).                                 *)
(*                                                                         *)
(* A page is the length of its text in tokens, 0 when it has none.  What a *)
(* result says besides, the header, the heading of each page, the markers  *)
(* and a line for each page that failed, comes on top, of whatever length, *)
(* since nothing limits it, and has no size here.  An id is a call and a   *)
(* number, 0 for the text of its result, i for the capture of its page i.  *)
(* One action is the code between two awaits: the store's lock is never    *)
(* held across one.  The services themselves are Crawler, SearchClient and *)
(* Answers, the debit is RateLimiter's, and deep_research is ResearchRuns. *)
(***************************************************************************)
EXTENDS Orders, Integers, FiniteSets, SequencesExt, FiniteSetsExt

CONSTANTS
    Calls,          \* tool calls
    Tools,          \* the tools they call
    NoTool,         \* no tool
    Lengths,        \* of the text of a page
    MaxPages,       \* bound: pages of a result
    MaxUrls,        \* MCP_MAX_URLS_PER_CALL
    PageCaps,       \* values of max_chars_per_page, in tokens
    MaxTokens,      \* MCP_MAX_RESULT_TOKENS
    MinPageTokens,  \* _MIN_PAGE_TOKENS
    Reserve,        \* _OVERHEAD_RESERVE, in percent
    ImageMode,      \* MCP_IMAGE_MODE
    MaxItems,       \* MCP_ARTIFACT_MAX_ITEMS
    Ttl,            \* MCP_ARTIFACT_TTL, in ticks; 0 keeps artifacts for good
    LastTick        \* bound: the time of the last tick

ASSUME ToolResultsAssumption ==
    /\ Tools \subseteq {"web_search", "map_site", "fetch_url", "crawl_site", "answer",
                        "extract_structured", "deep_research_estimate", "job_status"}
    /\ Lengths \subseteq Nat
    /\ PageCaps \subseteq Nat \ {0}
    /\ {MaxPages, MaxUrls, MaxTokens, MaxItems, MinPageTokens} \subseteq Nat \ {0}
    /\ MaxUrls <= MaxPages
    /\ {Ttl, LastTick} \subseteq Nat
    /\ Reserve \in 0..100
    /\ ImageMode \in {"off", "resource", "inline"}

VARIABLES
    clock,    \* time.monotonic()
    tool,     \* of each call: the tool it is in
    stage,    \* of each call: where it stands
    pages,    \* of each call: the pages of its result
    shown,    \* of each call: how much of each page its result shows
    marks,    \* of each call: the pages that were cut, whose markers name them
    captured, \* of each call: the pages whose capture it was asked for and has
    job,      \* of each call of crawl_site: its job, and the pages of that
    store,    \* ArtifactStore._store: ids, the least recently used first
    created,  \* of each id: created_at
    since     \* history: of the text of each call, the ids used after its last use

resultsVars ==
    <<clock, tool, stage, pages, shown, marks, captured, job, store, created, since>>

Ids == Calls \X (0..MaxPages)
Pages == BoundedSeq(Lengths, MaxPages)
NoJob == [status |-> "none", pages |-> <<>>]
Over == {"done", "refused", "gone"}

ResultsTypeOK ==
    /\ clock \in 0..LastTick
    /\ tool \in [Calls -> Tools \cup {NoTool}]
    /\ stage \in [Calls -> {"idle", "serving", "parking", "counting"} \cup Over]
    /\ pages \in [Calls -> Pages]
    /\ shown \in [Calls -> Seq(Nat)] /\ \A c \in Calls : Len(shown[c]) = Len(pages[c])
    /\ marks \in [Calls -> SUBSET (1..MaxPages)]
    /\ captured \in [Calls -> SUBSET (1..MaxPages)]
    /\ job \in [Calls -> [status : {"none", "running", "completed", "failed"}, pages : Pages]]
    /\ store \in Seq(Ids) /\ IsInjective(store) /\ Len(store) <= MaxItems
    /\ created \in [Ids -> 0..LastTick]
    /\ since \in [Calls -> SUBSET Ids]

ResultsInit ==
    /\ clock = 0
    /\ tool = [c \in Calls |-> NoTool]
    /\ stage = [c \in Calls |-> "idle"]
    /\ pages = [c \in Calls |-> <<>>] /\ shown = [c \in Calls |-> <<>>]
    /\ marks = [c \in Calls |-> {}]
    /\ captured = [c \in Calls |-> {}]
    /\ job = [c \in Calls |-> NoJob]
    /\ store = <<>>
    /\ created = [id \in Ids |-> 0]
    /\ since = [c \in Calls |-> {}]

-----------------------------------------------------------------------------
(* The store.  Definitions named ...Bug are no part of the specification:  *)
(* each is a mistake this code could have made.                            *)

Larger(a, b) == IF a > b THEN a ELSE b

_expired(id) == Ttl > 0 /\ clock - created[id] > Ttl

_prune(s) == Removed(s, {id \in Ids : _expired(id)})

Without(s, id) == Removed(s, {id})

PutBug(s, ids) == _prune(s) \o ids

\* put, of one fresh id after the other: the expired ones are dropped, and the
\* coldest while they are too many.
put(s, ids) ==
    LET all == _prune(s) \o ids
    IN  SubSeq(all, Larger(0, Len(all) - MaxItems) + 1, Len(all))

\* Ids are used: they are younger than every other.  Those that were used
\* after a text count from its last use.
Used(ids) ==
    [c \in Calls |-> IF <<c, 0>> \in ids THEN {} ELSE since[c] \cup ids]

\* A call puts these ids, in this order: its text, or its captures.
Park(ids) ==
    /\ store' = put(store, ids)
    /\ created' = [id \in Ids |-> IF id \in ToSet(ids) THEN clock ELSE created[id]]
    /\ since' = Used(ToSet(ids))

GetBug(id) ==
    /\ Contains(store, id)
    /\ IF _expired(id)
       THEN store' = Without(store, id) /\ UNCHANGED since
       ELSE UNCHANGED store /\ since' = Used({id})

\* get: an expired artifact is dropped, another is the last to be evicted.
get(id) ==
    /\ Contains(store, id)
    /\ IF _expired(id)
       THEN store' = Without(store, id) /\ UNCHANGED since
       ELSE store' = Append(Without(store, id), id) /\ since' = Used({id})

-----------------------------------------------------------------------------
(* The budget.                                                             *)

\* The pages of a result that have text.
WithText(ps) == {p \in DOMAIN ps : ps[p] > 0}

usable == Larger((MaxTokens * (100 - Reserve)) \div 100, MinPageTokens)

ShareBug(ps) == Larger(usable, MinPageTokens)

\* per_page_tokens: what failed holds no share.
Share(ps) == Larger(usable \div Cardinality(WithText(ps)), MinPageTokens)

\* budget_pages, up to its put: every page is cut to its share, and to the
\* caller's own cap if there is one and it is less.  A marker counts the pages
\* without text too, as the artifact does.  Header, headings, markers and the
\* lines of pages without text are added uncounted: only texts are budgeted.
Budget(c, ps, caps) ==
    /\ pages' = [pages EXCEPT ![c] = ps]
    /\ shown' = [shown EXCEPT ![c] =
                    [p \in DOMAIN ps |-> IF ps[p] = 0 THEN 0
                                         ELSE Min({ps[p], Share(ps)} \cup caps)]]
    /\ marks' = [marks EXCEPT ![c] = {p \in DOMAIN ps : shown'[c][p] < ps[p]}]

-----------------------------------------------------------------------------
(* The tools.                                                              *)

\* A call reaches its tool, which goes on to this stage.
Enter(c, name, where) ==
    /\ stage[c] = "idle" /\ name \in Tools
    /\ tool' = [tool EXCEPT ![c] = IF where \in Over THEN NoTool ELSE name]
    /\ stage' = [stage EXCEPT ![c] = where]

MoveTo(c, where) ==
    /\ tool' = [tool EXCEPT ![c] = IF where \in Over THEN NoTool ELSE @]
    /\ stage' = [stage EXCEPT ![c] = where]

\* tool_call: the debit is refused, or _clean_urls finds no URL, too many of
\* them or a bad one.
RefuseCall(c) ==
    /\ \E name \in Tools : Enter(c, name, "refused")
    /\ UNCHANGED <<clock, pages, shown, marks, captured, job, store, created, since>>

\* web_search, map_site, answer and extract_structured ask their service,
AskService(c) ==
    /\ \E name \in {"web_search", "map_site", "answer", "extract_structured"} :
         Enter(c, name, "serving")
    /\ UNCHANGED <<clock, pages, shown, marks, captured, job, store, created, since>>

\* Captures that become resources: a screenshot may also be inline.
Linked(capture) ==
    \/ capture = "pdf" /\ ImageMode # "off"
    \/ capture = "screenshot" /\ ImageMode = "resource"

\* ... and so does fetch_url, unless it is asked for a capture that is disabled.
fetch_url(c) ==
    /\ \E capture \in {"none", "screenshot", "pdf"} :
         /\ Enter(c, "fetch_url",
                  IF capture # "none" /\ ImageMode = "off" THEN "refused" ELSE "serving")
         \* A capture may be missing.
         /\ \E some \in IF Linked(capture) THEN SUBSET (1..MaxUrls) ELSE {{}} :
              captured' = [captured EXCEPT ![c] = some]
    /\ UNCHANGED <<clock, pages, shown, marks, job, store, created, since>>

\* deep_research_estimate answers at once.
deep_research_estimate(c) ==
    /\ Enter(c, "deep_research_estimate", "done")
    /\ UNCHANGED <<clock, pages, shown, marks, captured, job, store, created, since>>

\* A search, a map and an answer are one page, never an empty one.
Single(ps) == Len(ps) = 1 /\ ps[1] > 0

web_search(c, ps) == tool[c] = "web_search" /\ Single(ps) /\ Budget(c, ps, {})
map_site(c, ps) == tool[c] = "map_site" /\ Single(ps) /\ Budget(c, ps, {})
answer(c, ps) == tool[c] = "answer" /\ Single(ps) /\ Budget(c, ps, {})

\* An extraction is a page for every URL, without text if it found nothing.
extract_structured(c, ps) ==
    tool[c] = "extract_structured" /\ ps # <<>> /\ Budget(c, ps, {})

\* A fetch is too, and its caller may want less of each.
Fetched(c, ps) ==
    /\ tool[c] = "fetch_url" /\ Len(ps) \in 1..MaxUrls
    /\ captured[c] \subseteq DOMAIN ps
    /\ \E cap \in PageCaps : Budget(c, ps, {cap})

\* The service answers.
Served(c) ==
    /\ stage[c] = "serving"
    /\ \E ps \in Pages :
         \/ web_search(c, ps) \/ map_site(c, ps) \/ answer(c, ps)
         \/ extract_structured(c, ps) \/ Fetched(c, ps)
    /\ MoveTo(c, "parking")
    /\ UNCHANGED <<clock, captured, job, store, created, since>>

\* The service fails, or refuses the URL.
ServiceFails(c) ==
    /\ stage[c] = "serving"
    /\ MoveTo(c, "refused")
    /\ UNCHANGED <<clock, pages, shown, marks, captured, job, store, created, since>>

\* crawl_site: the guard refuses the entry, or a job is launched.
crawl_site(c) ==
    /\ \/ Enter(c, "crawl_site", "refused") /\ UNCHANGED job
       \/ Enter(c, "crawl_site", "done")
          /\ job' = [job EXCEPT ![c] = [status |-> "running", pages |-> <<>>]]
    /\ UNCHANGED <<clock, pages, shown, marks, captured, store, created, since>>

\* _job_result_pages: a site crawl is its pages, however many and if any.
JobEnds(c) ==
    /\ job[c].status = "running"
    /\ \/ \E ps \in Pages : job' = [job EXCEPT ![c] = [status |-> "completed", pages |-> ps]]
       \/ job' = [job EXCEPT ![c].status = "failed"]
    /\ UNCHANGED <<clock, tool, stage, pages, shown, marks, captured, store, created, since>>

\* JobManager._evict
JobEvicted(c) ==
    /\ job[c].status \in {"completed", "failed"}
    /\ job' = [job EXCEPT ![c] = NoJob]
    /\ UNCHANGED <<clock, tool, stage, pages, shown, marks, captured, store, created, since>>

\* job_status: a completed job has pages, to whom they are asked of; of another
\* there is only a line to say, or no job at all.
job_status(c) ==
    /\ \E d \in Calls :
         \/ /\ job[d].status = "none"
            /\ Enter(c, "job_status", "refused")
            /\ UNCHANGED <<pages, shown, marks>>
         \/ /\ job[d].status # "none"
            /\ Enter(c, "job_status", "done")
            /\ UNCHANGED <<pages, shown, marks>>
         \/ /\ job[d].status = "completed"
            /\ Enter(c, "job_status", "parking")
            /\ Budget(c, job[d].pages, {})
    /\ UNCHANGED <<clock, captured, job, store, created, since>>

\* The text is trimmed: the artifact is stored if any of it was cut,
Parked(c) ==
    /\ stage[c] = "parking"
    /\ IF marks[c] = {} THEN UNCHANGED <<store, created, since>> ELSE Park(<<<<c, 0>>>>)
    /\ MoveTo(c, "counting")
    /\ UNCHANGED <<clock, pages, shown, marks, captured, job>>

\* The captures of a call, in the order of its pages.
Captures(c) ==
    Removed([p \in 1..MaxPages |-> <<c, p>>], {<<c, p>> : p \in (1..MaxPages) \ captured[c]})

\* ... and the tokens are counted; _capture_blocks stores every capture.
CountTokens(c) ==
    /\ stage[c] = "counting"
    /\ IF captured[c] = {} THEN UNCHANGED <<store, created, since>> ELSE Park(Captures(c))
    /\ MoveTo(c, "done")
    /\ UNCHANGED <<clock, pages, shown, marks, captured, job>>

\* The client is gone: what its call stored stays until it expires.
Cancel(c) ==
    /\ stage[c] \in {"serving", "parking", "counting"}
    /\ MoveTo(c, "gone")
    /\ UNCHANGED <<clock, pages, shown, marks, captured, job, store, created, since>>

-----------------------------------------------------------------------------
(* The resources.                                                          *)

\* What search-api://artifact/{id}/page/{n} reads, of the text of a result.
artifact_page(c, n) ==
    IF Contains(store, <<c, 0>>) /\ ~_expired(<<c, 0>>) /\ n \in DOMAIN pages[c]
    THEN pages[c][n] ELSE 0

\* Either resource of an artifact is read.
Read(id) ==
    /\ get(id)
    /\ UNCHANGED <<clock, tool, stage, pages, shown, marks, captured, job, created>>

Elapse ==
    /\ clock < LastTick
    /\ clock' = clock + 1
    /\ UNCHANGED <<tool, stage, pages, shown, marks, captured, job, store, created, since>>

-----------------------------------------------------------------------------
ResultsNext ==
    \/ \E c \in Calls :
         \/ RefuseCall(c) \/ AskService(c) \/ fetch_url(c) \/ deep_research_estimate(c)
         \/ crawl_site(c) \/ job_status(c) \/ Served(c) \/ ServiceFails(c)
         \/ Parked(c) \/ CountTokens(c) \/ Cancel(c) \/ JobEnds(c) \/ JobEvicted(c)
    \/ \E id \in Ids : Read(id)
    \/ Elapse

ResultsSpec == ResultsInit /\ [][ResultsNext]_resultsVars

-----------------------------------------------------------------------------
(* Properties.                                                             *)

(***************************************************************************)
(* "The part that was cut still has to be reachable": the marker of every  *)
(* cut in a delivered result names a page that reads in full, until the    *)
(* artifact is too old or as many others as the store holds were stored or *)
(* read after it, whatever failed among the pages and whatever other calls *)
(* and readers did meanwhile.                                              *)
(***************************************************************************)
CutTextIsReadable ==
    \A c \in Calls : stage[c] = "done" =>
        \A p \in marks[c] :
            \/ artifact_page(c, p) = pages[c][p]
            \/ Ttl > 0 /\ clock - created[<<c, 0>>] > Ttl
            \/ Cardinality(since[c]) >= MaxItems

(***************************************************************************)
(* What "no tool result exceeds MCP_MAX_RESULT_TOKENS" (budget.py:3) comes *)
(* to, of the texts of its pages alone: they share the usable part of the  *)
(* ceiling, but none gets less than the minimum, so those of a result of   *)
(* many pages, a site crawl's, exceed it.  It says nothing of a whole      *)
(* result: headings, markers and the lines of failed pages come on top,    *)
(* unlimited.  And what failed takes no text from the others: a page the   *)
(* ceiling cut shows its full share.                                       *)
(***************************************************************************)
TextsFit ==
    \A c \in Calls :
        LET n == Cardinality(WithText(pages[c]))
        IN  /\ Total(shown[c]) <= Larger(usable, n * MinPageTokens)
            /\ \A p \in marks[c] : shown[c][p] >= Min({usable \div n} \cup PageCaps)
=============================================================================
