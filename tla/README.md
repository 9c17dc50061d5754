# Verification of the Unified Search API

TLA+ specifications of the concurrent parts of this repository, TLC
configurations that model-check them on small instances, and proofs that TLAPS
checks for every value of the constants. Source paths are relative to the
repository.

## 1. The system

One process, one asyncio loop, one SQLite file. A FastAPI application
(`app/main.py`) and an MCP server in it share their components through
`app.state`. Code between two awaits runs alone, so everything that can go
wrong goes wrong across an await: what was read before it is used after it, a
cancellation is thrown at it, the process dies at it. The SQLite connections
have a thread each, which carries out statements in order, also those whose
caller was cancelled meanwhile.

| Component | State it keeps | Operations | Talks to |
|---|---|---|---|
| Job manager, `app/jobs/manager.py` | `_jobs`, `_tasks`, `_finished_at`, `_subscribers`; per job a status and a bounded ring of events | `create`, `submit`, `cancel`, `stream`, `start`, `shutdown`, the sweeper | the store (awaits), the task bodies (callbacks `emit`), readers (queues) |
| Job store, `app/jobs/store.py` | tables `jobs`, `job_events`; `_written` | `start` (reconciles), `load_all`, `create`, `update`, `append_event`, `delete`, `maintain` | the connection's thread |
| Rate limiter, `app/api/middleware.py`, `app/mcp/guards.py` | `_HITS`, `_last_purge` | who is asking, the debit of a request, the second debit of an MCP tool call, the purge | none; never awaits |
| Paying for research, `app/api/routes/research.py`, `app/mcp/tools.py`, `app/mcp/guards.py`, `app/core/cost.py`, `app/api/deps.py`, `app/core/net/webhook.py` | a usage tracker per run, the slots of a key, `cost_ledger` | cap check, clarification, slot, bill, callback | engine, job manager, ledger, webhook |
| Research engine, `app/core/research/` | per run: semaphore, visited URLs, usage, `stopped_early` | levels of queries, branches, report | model, search client, reranker, crawler |
| Search client, `app/core/search/searxng.py`, `app/core/cache.py` | `_inflight`, the cache | `search` | SearXNG |
| Crawler, `app/core/crawl/crawler.py`, `app/core/net/guard.py` | `_started` and its lock, the browser, `_sessions`, `_host_gate`, `_http` | `start`, `close`, `crawl`, `crawl_extracted`, `crawl_site` | the web, the guard |
| LLM client, `app/core/llm/` | a semaphore | `complete`, `stream_complete`, `structured` | a provider |
| Answers, extraction, arbitration: `app/services/answer.py`, `app/services/extract.py`, `app/core/research/rerank.py` | the answer cache, the cache of arbitrations; per call a usage tracker | `answer`, `stream_answer`, `extract`, `rank` | search client, crawler, model, ledger |
| Map service, `app/services/mapper.py` | none that outlives a request | `map_site` | the web, the guard, the crawler |
| MCP server, `app/mcp/` | the artifact store | the tools, the budget of their results, the artifact resources | all of the above |
| Other routes, models, configuration, metrics, tooling | none of their own | | |

How a background research run goes through them: the limiter debits the request;
the route reads the ledger against the daily cap, may ask the model for
clarifying questions, creates a job and submits a task; the task runs the
engine, whose branches emit progress through the job manager to the ring, to the
event log and to the queue of every SSE reader; when it ends it bills the ledger,
calls the webhook, and the manager publishes the outcome and the end of the
stream. A DELETE can be thrown into any of its awaits. After a crash the store
settles what was running.

### What is hard, and what correctness means

* **Jobs.** A publish awaits two writes, so the task can be cancelled while it
  settles. Outcomes are final, in memory and on disk; disk and memory agree; no
  job is evicted under its task; nothing is live after a restart; an accepted
  DELETE is followed by the end of the task; outcomes age out.
* **Streams.** A reader takes a snapshot and then a queue, both bounded, and
  yields at every event. It sees everything in order and once, except what it
  was too slow for, and always the outcome and the end.
* **Event log.** Publishers of one job overlap, statements fail, publishers are
  cancelled between a statement and its commit. The history is ordered, bounded,
  keeps the newest, and has the outcome that the row has, or what came after it.
* **Rate limiter.** A table with a cap and a purge, in LRU order, debited twice
  by an MCP call, under limits that depend on what the caller showed. Budgets hold
  in every window, the advised wait is enough, dead windows go.
* **Paying.** A check before and a bill after, slots taken by a request and
  returned by a task, cancellations in between. Every slot is returned once,
  nothing is billed twice, whatever settles by itself is billed, callbacks are
  true.
* **Engine.** A tree of branches over one semaphore, one visited set and one
  budget. No page twice, no deadlock, no new work past the cap, a report written
  from all findings that fit its prompt.
* **Search client.** Waiters depend on a leader that may be cancelled. One fetch
  per query, nothing stale, nobody stranded.
* **Crawler.** One browser that first requests race for, sessions and host slots
  that cancelled calls hold, a page that is not where it was asked for. Never two
  browsers, no content from a URL that the guard refuses, slots a delay apart, nobody
  stranded.
* **Calls of the model.** A cache before a bill, a stream whose client leaves, a cap
  read long before it is charged. A cached answer is free and its first caller was billed what was learned, the cap is
  overshot by what was in flight at most, every slot of the model comes back.
* **Map.** Documents of a site that name and redirect to each other. A bounded number
  of GETs, each to a URL the guard allows, and the first source that yields wins.
* **Tool results.** Texts cut to a shared ceiling, and a store of the uncut ones that
  forgets. What was cut can be read until then, what failed takes no share.

`PROJECT.json` lists these dangers one by one, at their lines, with the
properties that watch them.

## 2. The modules

Conventions: one action is the code between two awaits, named for the function or
the part of it; the values of a `pc`, `task` or `at` variable are the awaits of a
coroutine. What a model, a web page, a client or a failing disk does is a
nondeterministic choice. History variables are marked as such and guard nothing.
A definition named `...Bug` is not part of the specification: it is the mutated
form of the definition after it, and shows which property catches that mistake.

**JobLifecycle** models `JobManager` and the rows of the store. `task[j]` is the
position of the coroutine `_run`: `ready`, `starting` (its first publish), `working`
(the body), `unwinding`, then `completing`, `cancelling` or `failing` (the publish of
the outcome), `over`; before it `creating` and `abandoned` are those of the caller of
`create`. `cancelReq` is a CancelledError on its way, `saved` the write a publish
waits for. `Create`, `Submit`, `Cancel`, `Sweep`, `Shutdown`, `Close`, `Crash`, `Start`
are the operations; `Begin`, `EnterBody`, `Body...`, `Finally`, `Published` the
steps of `_run`; `Throw...` the delivery of a cancellation at each of its awaits.
With no open store nothing in a publish yields, and the steps join accordingly.

**JobContract** is the abstract specification of the jobs API: statuses move forward
one edge at a time, only finished jobs vanish, a restart shows finished jobs only.
`JobLifecycle` implements it: `Contract` maps `serving`, `known` and `view` to what
GET shows.

**JobStream** models one job's ring, its `_fanout` and `_offer`, and any number of
`stream` calls in their three parts, `replay`, `drain` and `live`. Events are numbers.
`late` becomes true when something the body left running publishes after the
outcome, which the engine and the site crawl can do.

**JobEventLog** models `append_event` statement by statement: `at[e]` is the statement
that the publisher of event `e` waits for, `inbox` the queue of the connection's
thread, `table` what the connection sees and `disk` what is committed. An UPDATE carries the
status of the moment it was asked for (`update` or `settle`). A body ends by `Finish`, `Raise`
or `CancelTask`; after `Raise` its other branches may be `stray`: their emits in flight
go on and more may come, with the outcome published already. Its
definitions that share a name with those of JobLifecycle are prefixed (`LogInit`,
`CancelTask`, `LogCrash`), so that one module can prove about both.

**RateLimiter** models `_HITS` as an order of keys and a window for each, `_client_ip` and
`_bucket` as the choice of the key, `Request`, `McpRequest` and `ChargeTool` as the three
debits, `_purge` as the first part of each. A request is who it comes from, what its
proxy header says, which key it presents and which bearer it has; `Askers` is what the code
reads off one. The key presented, X-API-Key before the bearer, names the window and the
limit of the first debit; `/mcp` verifies the bearer, and the top-up for the tool goes to
the same window under the bearer's limit. `under[c]` is a history of whose limit that was.
Time is counted in ticks, several to the second, for the rounding of Retry-After.
`granted[c][t]` is a history, the points that `c` was granted since tick `t`: its
values for the tick one window back are what `BudgetHolds` bounds. The interval
of the purge is positive, as `_PURGE_INTERVAL` is.

**ResearchRuns** models a run's path through the cap, the clarification, the slot, the
engine, the bill and the callback, on its three surfaces: the answered request, the
job, the MCP tool. The engine is a source of spend that returns, raises or is
cancelled.

**ResearchEngine** models `DeepResearchEngine.run`. A path of indices names a branch and
the level it opens. `level[p]` is where `_deep_research` stands (`asking` for queries,
`gathering`), `pc[p]` where `handle` stands: `queued` for a permit, `searching`,
`ranking`, `reading` (crawl and extraction, between which nothing shared is
touched), `reporting`, `recursing` (which holds no permit). What a branch learnt and
from which pages travels together and is one finding, named by its path. For the report,
`_fit_learnings` takes the learnings of the findings in the order in which `gather` returns
them (`Before`), as long as their `Tokens` fit the `Room` of the prompt.

**SearchClient** models `search`: `Look` is one turn of its loop (cache, flight of the
query, or an own flight), `Fetched`, `FetchFails` and `CancelLeader` end a flight,
`Joined` and `Retry` are a waiter's ways on.

**UrlGuard** is the verdict of `guard.py` on a URL, as operators (`check_syntax`, `check`,
`partition`): what a host resolves to is a constant. **Semaphore** is `asyncio.Semaphore`
as an `async with` uses it, those inside and those in line.

**Crawler** models `CrawlerService` on both. A call is `vetted`, `launching`, `crawling`; each
of its pages is a task that waits for its host slot (`waiting`), then for a session, and
fetches by `via`: the browser, or as a document before (`document`) or after it
(`retry`). `Browsed` and the four ends of a document request include the guard's look at
the URL they landed on. A site crawl holds one session; `Collect` decides of each page it
yields whether the guard lets it be kept. `Cancel` gives back what the call waits for or
holds; host slots stay taken. `close` waits for the start lock and for nothing else, and a
call may begin after it: what a failed research run left behind still crawls.

**Answers** models the other calls of a language model: answers whole or streamed,
extraction over HTTP (which nothing caps) and as a tool, the arbitration of search
results. `Hit`, `Prepare`, `Arbitrate` are the ways in, `model` is the semaphore of
`_concurrency_guard`, `charged` what the provider charges, `usage` what the tracker
learned of it, which may be nothing even of a complete answer (`Record`), `billed` what the
ledger took. A stream holds its slot from `Token` to
`StreamEnds`; `Depart` is a client that leaves or a task that is cancelled.

**SiteMap** models one request of `MapService`: `todo` is the documents of the current
source left to read, `Skip`, `Unparsable`, `Unusable`, `Redirected`, `Read` what may come of
each.

**ToolResults** models the MCP tools but `deep_research`, from `AskService` to
`CountTokens`: `Budget` is `budget_pages`, `put` and `get` the artifact store, `Read` the
resources. A page is its length in tokens. What a call puts, one artifact or all its
captures, it puts with no other task in between, and `put` is stated in one piece: the
live artifacts and the new ones, of which the last `MaxItems` stay.

**Orders** has what RateLimiter and ToolResults need of sequences, in a form that can be
proved about: `Removed`, a sequence without some of its elements, and `Totals`, its sums
from the first element on, both recursive functions over positions.

The **MC...** modules instantiate these for TLC; the **...Proofs** modules hold the
proofs.

How they fit: JobLifecycle gives the moments at which a task can be cancelled and
an outcome is published; JobStream and JobEventLog refine what happens at a
publish, in memory and on disk; ResearchRuns is one body of such a task;
ResearchEngine is the engine of ResearchRuns; SearchClient, Crawler and the arbitrations
of Answers are its calls. Crawler and SiteMap share UrlGuard, Crawler and Answers
Semaphore. A tool of ToolResults is debited by RateLimiter and served by the others.
They are checked one by one: what one assumes of another is stated in its head
comment and is a nondeterministic choice, never a promise that the other does not
keep.

## 3. The runs

| Run | Module | Bounds | Shows |
|---|---|---|---|
| `jobs` | JobLifecycle | 2 jobs, SQLite configured | outcomes final on disk, JobContract, memory jobs settle; liveness of DELETE and eviction |
| `streams` | JobStream | 2 readers, ring 2, queue 2, 4 events | order, completeness, outcome delivered, streams end |
| `log` | JobEventLog | cap 2, 2 publishers at a time, 6 events, INSERT, commit, DELETE, settling UPDATE may fail | order, outcome kept or followed by newer ones, newest kept, bound |
| `rate_limiter` | RateLimiter | a key and 2 addresses over a table of 2, limit 2 for the key and 1 for others, two windows | budget, Retry-After, cap and purge of the table |
| `runs` | ResearchRuns | 3 runs, 1 slot, cap 1, cost up to 2, faults | slots, bills, callbacks |
| `engine` | ResearchEngine | 3 branches and 2 under each, 2 permits, 2 pages, cap 4 | pages, findings, budget, termination |
| `search` | SearchClient | 3 calls, 2 queries, cache of 1, TTL 2 | one fetch, freshness, no gap, no stranded waiter |
| `crawler` | Crawler | a crawl and a site crawl, 2 pages of a host and a private one, 1 session, 1 redirect | guard, one browser, host slots, nobody stranded |
| `answers` | Answers | 3 calls of any kind, 1 key, 1 slot, cap 1, 2 pages | billed once at what was learned, overshoot, every call ends |
| `results` | ToolResults | 2 calls, pages of 0, 1 or 5 tokens, ceiling 4, 2 artifacts, TTL 1 | cut text readable, ceiling and shares |
| `sitemap` | SiteMap | a site, a private and a remote host, 2 nested, 2 redirects | guard, number of GETs |
| `jobs_cancel_strands` | JobLifecycle | 1 job | a disagreement, below |

Why these bounds are enough for the interesting cases. `jobs`: two jobs are what it
takes to have a sweep or the creation of one run into the life of the other; the
process starts and dies any number of times. A store that fails to open is one of
the choices of `Start`, so the memory backend is in the same run. `streams`: with
four events a ring and a queue of two both overflow, and the second reader joins at
any time. `log`: six events pass the slack of twice the cap and two publishers
overlap in every statement; of the statements that may fail (`Faults`), the other commits
would do no more than the first, leave rows to a later one, and of a failed running UPDATE
nothing depends. `rate_limiter`: three keys over a table of two force
evictions, a key that shows two addresses shares its window, a request with a bad X-API-Key
and a good bearer draws from its address, which the bearer's limit lets have a second
point, two windows let points expire and be spent again. `runs`: three runs for one
slot, so one is refused and one overlaps; the cap is reached by the first. `engine`:
three branches for two permits leave one queued; the cap of four calls is the
smallest at which a branch of the second level still reads and others are stopped,
and the tracker may already hold the price of a clarification; the prompt has room for
the learnings of two branches and part of a third's. `search`: three calls
are a leader, a waiter and a successor; a cache of one for two queries evicts.
`crawler`: two pages of one host and a site crawl contend for one session and for the
slots of the host, the table of slots has a high water of zero, so that it forgets
whenever it may, and a page may land on the private host or be a document wherever it
is; requests for one, two or only refused URLs all occur. Time passes only while
somebody sleeps for a slot. `answers`: three calls for one slot are one that asks,
one in line and one that comes later, to the cache or to the cap; two pages make an
extraction a fan-out. `results`: a page of 5 tokens is cut alone and more in company, the
minimum of two pages exceeds the usable part of the ceiling, a page may have no text, and two artifacts with
captures push each other out. `sitemap`: a sitemap can name itself, its own host's
robots.txt names more documents than are read, redirects can go on for ever.

Deadlock is not checked where a finite number of jobs, runs or calls comes to its
end; it is in `rate_limiter`, where a request can always be made, and in `jobs` and its
disagreement, where the process can always die.

### Fairness

Safety is checked without any. For liveness: in `jobs`, the loop resumes tasks that are
ready and the connection's thread works off its queue (weak fairness of each task
and each write) and time passes for the sweeper; clients, crashes and the end of a
body are not fair. In `streams`, the client reads on and the job's last publish ends,
which is `jobs`' business. In `engine`, the loop does not idle while a task can go on,
and calls are answered or time out (`LLM_TIMEOUT`, `SEARXNG_TIMEOUT`,
`CRAWL_TIMEOUT`): weak fairness of all work together, not of each task, since nothing in
a run repeats. In `search`, each call is resumed, and SearXNG answers or the HTTP
client times out. In `crawler`, the loop resumes what is due, time passes for those who
sleep, every fetch is answered or times out (`CRAWL_TIMEOUT`), and a permit goes to
who waited longest, as asyncio's does; in `answers`, providers answer or time out
(`LLM_TIMEOUT`) and the client of a stream reads on or leaves. A client that does
neither holds a slot of the model for as long as its connection stays up: the code
has no limit of its own there. Both are weak fairness of all work together, since no
call works for ever.

### Disagreements with the documentation

One run checks what a document says and finds an execution of the code that
contradicts it: `jobs_cancel_strands`. `_run` publishes `running` before its `try`. A
DELETE that lands in that await ends the coroutine with neither `except` nor
`finally`: the job stays `running`, unstamped, its streams open. API_REFERENCE.md:1120
promises that it settles as failed.

More that the models contain. Each shows when the named condition is taken out of a
property, or in the definition itself:

* "The end-of-stream sentinel is never dropped" (manager.py:68): it is, when tasks that a
  failed body left behind publish after it and a slow reader's queue overflows; the
  reader then waits for ever (`late` in JobStream, `SentinelNeverDropped`).
* "an over-long history trims to its newest events exactly as it would have in memory"
  (store.py:184): the trim keeps one event fewer than the ring (`Prune` in JobEventLog).
  With branches of a failed body that emit on, the row of the outcome itself is trimmed once
  Cap - 1 later events are there (`stray` in `OutcomeLogged`); memory has it a little longer.
* "The single call every spending path makes when a run ends" (deps.py:194): a background
  research run cancelled in the engine is not billed, the MCP tool does bill it
  (`SettledRunsAreBilled` speaks of runs that were not cancelled). A clarification that the
  tool paid for is not billed either when the slot is refused after it.
* "writes its report from what it already gathered" (API_REFERENCE.md:193): a level for
  which the model proposes no query returns nothing, not even what its branch had
  found (`barren` in ResearchEngine); refused by the budget instead, it returns them. And
  the tail of the learnings beyond RESEARCH_REPORT_TOKEN_BUDGET is dropped before the report
  is written (`_fit_learnings`), stopped early or not, without the response saying so.
* "a key can overshoot by at most one run" (deps.py:163, likewise guards.py:125): the cap
  is overshot by as many calls as overlap, which is what `OvershootIsInFlight` says.
* "a disconnected client still gets billed" (routes/answer.py:79): usage arrives with the
  last chunk of a stream, so a client that leaves before it is billed nothing (`Token`
  and `Depart` in Answers). A stream that ends may cost nothing either, as client.py:163
  says: the provider need not send its usage, and a model that litellm cannot price costs 0
  (usage.py:12, 45). An answer is then complete, charged and billed nothing, and the
  cap does not see it (`Record` in Answers; `PaidOnce` speaks of what was learned).
* "Minimum seconds between two hits on the same host" (config.py:190): it is the slots that
  are spaced. A slot is taken before the wait for a session, so two hits may follow
  each other at once, and site crawls and redirects take no slot (`SlotsAreSpaced`).
* "Cancel in-flight jobs before tearing down the clients they depend on" (main.py:164): the
  branches that a failed body left behind (engine.py:403) are no job's task any more. One
  that crawls after `close` starts the browser again, and nobody closes that one
  (`Begin` and `close` in Crawler; `OneBrowser` says only that there are never two).
* "Points per 60s window per caller" (config.py:67): a request whose X-API-Key names one
  window, or none and so that of its address, and whose bearer is another key is topped up in that
  window under the bearer's limit (guards.py:110, middleware.py:280); with overrides, the
  window is granted more than its own (`under` in RateLimiter).
* "no tool result exceeds MCP_MAX_RESULT_TOKENS" (budget.py:3): two ways it does. The texts of
  many pages do, since each is left its 64 tokens (`TextsFit`). And only texts are cut:
  header, headings, markers and a line for each failed page are added uncounted
  (budget.py:106-129), with titles and errors of any length against a reserve of 15
  percent; one page under a long title is enough. `TextsFit` speaks of texts alone.
* "`None` on anything unusable" (mapper.py:153): a name in a sitemap, a robots.txt or a redirect
  that is no URL raises instead, and the whole request fails (`Unparsable` in SiteMap).
* A capture of fetch_url is stored as an artifact of its own, but the resource that its
  link names serves only text, "(no content)" for a capture (resources.py:72).
* The arbitration cache promises to "pay the arbitration once" (rerank.py:272): branches that ask at the
  same time pay once each (`Arbitrate` in Answers looks at the cache and nothing more).
* With SQLite, a request cancelled inside `create` leaves a pending job that no task
  will run (`ActiveJobsHaveTasks` in JobLifecycle is violated in three steps).

## 4. The proofs

Each theorem holds for every value of the constants that the module's named
assumption allows.

**JobLifecycleProofs** (any set of jobs, either backend). The properties are not inductive
by themselves: whether an outcome may still change depends on where the task stands,
what is on its way to it and what the row says. The invariant adds that relation: which
statuses each position allows, that a settling task's outcome is set, that a row with
an outcome agrees with memory or belongs to a process that is gone, that stamps are
exactly those of settled jobs whose task is over, that without a store nobody stands at a
write. From it: `TypeCorrect`, `StampsAreExact`, `MirrorIsFaithful`, `NothingInheritedIsLive`,
`OutcomesAreFinal`, `DurableOutcomesAreFinal`, `MemoryTasksSettle`, and
`LifecycleImplementsContract`, every step mapped to a step of JobContract or to a stutter.

Its second part is about **JobEventLog** (any cap, publishers and events, whatever statements
may fail), which it extends too. The invariant: the rows
rise and every INSERT that waits is of a later event, so the order of the thread's queue is
the order of the history; an event whose INSERT was carried out and that is not in the
table has Cap - 1 later rows there, which a trim restores whoever inserted meanwhile; the
status becomes settled after the outcome's INSERT, because an UPDATE with that status waits
behind it, whoever asked for it, and a trimmed outcome has its later rows. For the bound, the rows that were
counted before the first DELETE that waits are at most `_written`, or the slack while one
waits, and any other row belongs to a publisher that is in flight or was cancelled; a
DELETE that fails breaks it, and the theorem says so. Theorems: `LogInvariance`,
`LogIsBounded`, `HistoryIsOrdered`, `OutcomesAreLogged`, `TrimsKeepTheNewest`. The third
needs Cap > 1, a hypothesis: a cap of one is allowed, and with it every trim empties the log.

**JobStreamProofs** (any readers, sizes and number of events). The invariant says what the
ring is, the last min(n, MaxProgress) events in order, and that what a reader got, the
rest of its snapshot and its queue are rising and follow on one another, that together with
what was dropped they are everything since it joined, and where the sentinel can be.
Theorems: `TypeCorrect`, `ReadersSeeOrder`, `NothingSlipsBetween`, `SentinelIsKept`,
`OutcomesAreDelivered`; the last needs QueueSize >= 2, which is a hypothesis: in a
queue of one the sentinel drops the outcome, and the configuration allows one.

**CallerProofs** is about what a caller may take, is charged and gets, in three parts.

*ResearchRuns* (any finite set of runs, any slots, cap and spend). The invariant says
for each position of a coroutine which outcome, statement, bill and callback are possible,
and that the slot count is the number of holders; the count needs the lemmas on
cardinalities of a set that gains or loses one run. Theorems: `TypeCorrect`,
`SlotsAreCounted`, `EngineRunsAreBounded`, `NothingBilledTwice`, `SettledRunsPay`,
`CallbacksAreTrue`.

*RateLimiter* (any clients, limits, weights, window, cap and clock). Between the two parts
stand the lemmas on sequences that it shares with the third: `RecursionExists`, that a
recursive function over positions has values, by way of least elements (below);
`TotalsFacts`, `TotalsAppend` and `TotalsShift` on sums, `RemovedFacts` and `RemovedLeaves`
on filters (what is left, in which order), `SuffixFacts`. `BudgetHolds` is not inductive:
a window forgets the points that expire while what was granted since a tick does not.
The invariant (`LimiterInv`) relates the two: hits stand in the order of their age, and
what a client was granted since any tick that still matters is at most the sum of its
window from the first hit of that tick on (`Owes`). A trim takes a prefix of hits that
are too old to matter, a debit adds to both sides, and is refused when the sum would
exceed the limit it is made under, whatever its weight. For `StaleWindowsGo` it says that the last purge
is less than an interval before the last use and left nothing that had expired by then.
Theorems: `LimiterInvariance`, `LimiterTypeCorrect`, `LimitsHold`, `RetriesSucceed`,
`TableIsSwept`.

*ToolResults* (any calls, pages, ceiling, store and time to live). The invariant
(`ResultsInv`) says that the store's order is the order of the last uses: whatever stands
after the text of a call is among the ids used since (`YoungerIn`). So when `put` evicts a
text, what stays is `MaxItems` different ids, all of them younger, and the text of a call
that has cut pages is in the store, too old, or evicted by as many (`TextReads`). An id
is in the store only from the moment its call put it there (`Minted`), which is why
what is put is new. Of the pages it says that each shows no more than its share, those
without text nothing, and a cut one its share or the caller's cap (`Budgeted`); the sum of
the shares then keeps to the ceiling, or to the minimum of all pages (`TotalsBounded`,
`ShareFacts`). Theorems: `ResultsInvariance`, `ResultsTypeCorrect`, `CutsStayReadable`,
`TextsKeepToCeiling`, which is about the texts of a result and not about its headings,
markers and lines of failed pages.

**ResearchEngineProofs** (any pages, tree, permits, cap). The holders of the semaphore are a
finite set within its permits, kept because only `Acquire` adds one and needs a free
permit; a page was crawled exactly once if claimed and never otherwise, which is
inductive because the claim is one step with the second look at `visited`, after
the await. Theorems: `EngineInvariant`, `TypesHold`, `PagesCrawledOnce`.

`ReportsAreComplete` (`AllFindingsReported`) is about a tree of any depth. The widths of the
levels are defined by recursion, halved at each level; that the recursive function exists,
and its values, follow from `LeastNumber`: a set of numbers that is not empty has a least
element, because finite sets are well founded under inclusion, which the library states of
sets and not of an operator. `ReportsInvariant` says of every level what it was asked, what it
read, what it handed down and what its branches gave back, so that a finding that was read
is with the branch that read it, in a level above it that has gathered, or lost with none.
`FittedInvariant` adds that the report is fitted from what the run came back with; that what
is missing is a tail needs the order of the learnings to be transitive
(`EarlierIsTransitive`, `UpToIsTransitive`), whatever they cost.
`OverspendIsBounded` (`SpendingWindsDown`) counts what is already out when the cap is reached:
the searches, each of which may charge twice, for ranking and for reading, the readings, the
levels that ask and the report. A step that charges lowers the count by one, and no step
raises it.

**CrawlerProofs** (any calls, URLs, guard, sizes). The invariant ties `started` and the
browsers to each other and to who holds the lock, and says of every task that it is
one of a URL the guard allows, and that its page, its document request and what a site
crawl found come from such URLs; it is inductive because each of them is set in the
step that checks where the fetch landed. Theorems: `TypeCorrect`, `OnlyOneBrowser`,
`ContentIsVetted`, and `SlotsKeepTheDelay` (`SlotsAreSpaced`), from an invariant of its own:
every slot that was taken is over, by the delay, before the next one of its host begins,
which is the later of now and the gate. So a gate may forget a host, but only one whose next
slot is due already.

**SiteMapProofs** (any site, guard and limits). The invariant adds to the properties that
sources later than the current one have yielded nothing and earlier ones neither.
Theorems: `TypeCorrect`, `RequestsAreVetted`, `FirstSourceWins`.
`RequestsEnd` (`RequestsAreBounded`) rests on a measure: the requests made so far, with all
that the documents left to read and the sources not tried yet may come to, each with its
redirects, never exceed the bound by more than the redirects of the document in hand.

**AnswersProofs** (any finite set of calls, any kinds, keys, cap, slots and pages). The
invariant says for each stage what a call was charged, learned and was billed, each at most
the one before, that what
a cache holds was made by a call of that kind, and that the ledger together with the
calls that have yet to pay stays below the cap and the most that were ever in flight:
only the sum is inductive, since a bill moves a call from one to the other. Theorems:
`TypeCorrect`, `AnswersPaidOnce`, `CapIsExceededByFlights`, `ArbitrationsKeepSome`.

**SearchClientProofs** (any calls, queries, TTL, cache size). The registry names exactly the
call that fetches, futures exist exactly for calls that led, and a flight that was
joined answers after it was joined; freshness is inductive only with the last.
Theorems: `FetchesAreShared`, `NothingStale`. The second invariant, `Served`, says that the
cache is a sequence of different keys within its size, none of them counted as thrown
out, that nothing happened later than now, and that an answer that was given out is older
than the TTL, lost its place to other queries, or is in the cache still, it or a later
one. Theorems: `ServedInvariant`, `TypesHold`, `NoGapIsLeft` (`NoGap`). The model takes a
query out of the order by its position (`Without`), so that lemmas on sequences apply.

Some theorems state properties that no run lists, because they are proved for all
values: types, `StampedExactlyWhenSettled`, `MirrorAgrees`, `OutcomeIsFinal`, `SentinelKept`,
`RunsAreBounded`, `BilledOnce`, `RankKeepsSome`, `FirstSourceAnswers`.

Checked by TLC only: liveness (`NothingLingers`, `StreamsEnd`, `RunEnds`, `SearchesEnd`,
`CrawlsEnd`, `CallsEnd`), which is beyond the prover under fairness. Every other property
of a passing run is a theorem.

What the proofs corrected in the models. A tool is debited its weight less the point that
its request paid, which need not be the weight of anything: the type of a hit admitted only
listed weights, and the bounds of the run did not show it. With an interval of zero between
purges, `StaleWindowsGo` would fail at the moment of a use; the code's is 60 seconds, and the
assumption now says positive. And an earlier form of `put`, which stored one artifact after
the other, judged a new capture by the age of what had last been under its id and could drop
it at once; in the code an id is new and so is its artifact.

## 5. What is left out

* In the modelled parts: a failing UPDATE inside the store's `start`; VACUUM; in JobEventLog the
  cancellation, at a shutdown, of the publish of an outcome (JobLifecycle has it); the two
  commits of the store's `delete` (one step); the INSERT and the commit of the ledger (one
  step, since every read goes through the same connection); SSE framing; the scores of
  the rerankers; merging of learnings with the same text; estimates; the parsing and filtering
  of search results, of sitemaps and of what the browser renders; a host whose addresses
  change between the guard's look and the fetch; retries and fallbacks of the model, which
  are the library's; the close of HTTP pools other than the crawler's.
* Of the MCP server: registration, progress notifications, prompts, the wording of results,
  and the lookup of a key, which is one comparison. The middlewares that limit the size of
  a body and number requests keep no state.
* Not modelled: data classes, settings, metrics, logging, tracing, the conversion of an
  uploaded document, health, scripts and evaluations. They keep no state that two parties
  share, or share only counters that nothing reads back.

## 6. Plan

Done, in this order: JobLifecycle with JobContract, JobStream, JobEventLog, RateLimiter,
ResearchRuns, ResearchEngine, SearchClient, Crawler with UrlGuard and Semaphore, Answers,
SiteMap, ToolResults, and eight proof modules. Next:

1. A composition of JobStream and ResearchEngine in place of the choice `late`: which
   branches outlive a failed run and what they still publish.
2. A failing UPDATE in the store's `start`, with the restart properties conditional on it.

## 7. Running it

    tlc -workers 2 -config jobs.cfg MCJobLifecycle.tla
    tlapm JobLifecycleProofs.tla

and likewise for the others; each configuration belongs to the MC module of its
table row. Longest: `engine`, `rate_limiter`, `crawler` and `answers`, two to three minutes
each. CallerProofs, the longest of the proofs, takes about four.
