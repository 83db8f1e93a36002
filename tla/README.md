# TLA+ models of TITAN-APEX

TITAN-APEX is a Scrapy crawler that is configured per target. One spider
(`GenericSpider`) reads a configuration and yields requests; five downloader
middlewares decide whether a request goes out, who fetches it (Scrapy's
downloader, a Playwright render, or an antibot solver), and what happens with
the answer. This directory holds models of the parts of it whose correctness
depends on the order of events: TLA+ modules, the TLC configurations that
check them, and proofs for TLAPS. Paths in this file are relative to
`src/` in this checkout, and the Python package is `src/src/`.

## 1. Inventory

| Component | State | Operations | Talks to |
|---|---|---|---|
| Circuit breaker, `middlewares/circuit_breaker.py` | per domain: state, consecutive failures, `opened_at`, `cooldown_override` | `process_request`, `process_response`, `process_exception` | classifier and engine (calls), retry and Byparr (through `request.meta` of the request it returns) |
| Response classifier, `response_classifier.py` | none | `classify_response`, `strategy_for` | called by the breaker |
| Strategy engine, `strategy/` | per domain: streak of challenges on a provider | `decide_switch_provider`, `decide_adjust_backoff` | called by the breaker |
| Rate limiter, `middlewares/rate_limiter.py` | per scope (domain, target, session, account): request times, violations, `blocked_until` | `process_request` | raises `IgnoreRequest` into the exception chain |
| Retry, `middlewares/retry_backoff.py` | attempt number in `request.meta`; reactor timers | `process_response`, `process_exception` | returns a request after a delay |
| Byparr, `middlewares/byparr_middleware.py` | none; writes items into `request.meta` | `process_request` (a thread per solve) | browser providers; falls through to the next handler |
| Playwright, `middlewares/playwright_middleware.py` | a browser per render | `process_request` (a thread per render) | scroll module |
| Browser providers, `providers/antibot/{camoufox,patchright,byparr}_provider.py` | a browser per solve | `solve` with crash retries, warm-up, login | cookie jar, scroll, live DOM |
| Cookie jar, `providers/antibot/cookie_jar_manager.py` | a JSON file, a lock file, temporary files | `load_accumulated_state`, `record_new_session` | shared by all solves of all processes |
| Scrolling and collection, `_scroll.py`, `_live_dom.py` | collected rows or snapshots, stalls in a row | `scroll_and_collect` with the drivers' callbacks, lazy scroll, idle detection (unused) | a page that loads and evicts by itself |
| HTML extraction, `parsed_html.py` | none | grouping by position | spider |
| Spider, `spiders/generic_spider.py`, `spider_config.py` | configuration; warm-up index in `meta` | validation, start, warm-up walk, parse, pagination | all of the above; Scrapy's scheduler with its duplicate filter |
| Queue, `queue/` | RQ jobs in Redis | `enqueue_crawl`, `run_spider_job` (a subprocess) | runs a crawl as a process of its own |
| Storage, `providers/storage/`, `spiders/pipelines.py` | a connection per crawl, its locks and open transaction, the rows | open, save, query, close | spider's items; other crawls' and readers' connections to the same file |
| Alerting, diagnostics, logging, AI analysis | none that the crawl reads | fire and forget | webhook, log, Ollama |

**How a request goes.** `GenericSpider.from_crawler` sets the order: rate
limiter 100, Byparr 520, Playwright 543, retry 550, breaker 900. A request
goes through the `process_request` handlers in this order, the result through
the others in the opposite one. So the breaker is the last to be asked on the
way out and the first to see a result. A handler that raises sends its
exception through *all* `process_exception` handlers, also when the request
never got as far as theirs; a handler that returns a request makes the engine
schedule it anew, from the limiter on.

**What is hard here.**

* Many requests to one domain are under way at once, and share its circuit,
  its streak and its limiter scopes. A solve or render pauses a request for
  up to minutes while all of these change.
* The middlewares are written to be independent, but they meet in the
  exception chain and in `request.meta`, which copies of a request inherit.
* Two mechanisms re-issue a request (retry and escalation to a solver). Each
  is bounded by a mark in `meta` that the other has to carry along.
* Cooldowns of two kinds, with lengths decided at the moment of a failure.
* The cookie jar is shared by threads and processes that may be killed.
* A page that shows a long feed evicts what it showed before, at moments the
  driver learns of only through responses it has to listen for in advance.
* Callbacks yield requests that a filter may drop unseen, and a request may
  end without a callback; the crawl goes on only through callbacks.
* Crawls are processes that share a database file, time out under two clocks,
  and report through an exit status that says little of what they did.

**What makes each component correct.**

* Breaker: a circuit's fields never contradict each other; failures are
  forgiven together or not at all; a domain that has recovered is not blocked
  for ever; half-open always has a trial under way; an open circuit keeps
  work away from its domain.
* Engine: a streak is used up by the proposal it leads to.
* Limiter: bounded traffic per window, cooldowns served as set, requests that
  were dropped leave no trace, no lock-out.
* Retry and escalation together: bounded passes, every request ends, every
  failure reaches the breaker.
* Browser providers and renderer: no browser stays behind, an engine that crashed leads to
  another attempt and is not put down to the target, a session is recorded once and only
  when the solve succeeds, every failure is an `AntibotError`.
* Collection: no post that was in the page's DOM with its batch is evicted before
  it was read, so of a feed that said it ends every such post is collected; a
  lost wheel event does not end the collection.
* Cookie jar: recordings are atomic, readers find a whole file, sessions
  disappear only by the retention rules, the jar fits its cap and keeps the newest
  session if that fits, the newest value of a cookie wins.
* Spider and configuration: a plain target is reached only by its warm-up path,
  a page is read in the way its configuration means and by a provider that
  can, no page is parsed twice and none is left out, a crawl ends.
* Queue: a job that is reported is over, and every job is reported.
* Storage: an item whose save returned is stored, at once and for good.

## 2. Modules

| Module | Models | State |
|---|---|---|
| `ResponseClassifier` | `response_classifier.py` | none |
| `StrategyEngine` | `strategy_engine.py`, `strategy_capability.py` | `streak` |
| `CircuitBreaker` | `circuit_breaker.py`; EXTENDS the two above | `circuit` |
| `RateLimiter` | `rate_limiter.py` | `scope` |
| `RetryBackoff` | the decisions of `retry_backoff.py` | none |
| `RequestLifecycle` | what the five middlewares together promise of a request (abstract) | `phase`, `reissues` |
| `DownloaderChain` | the chain: `GenericSpider.from_crawler`, Byparr, Playwright, the requests; EXTENDS breaker, limiter and retry, implements `RequestLifecycle` | `req` |
| `CookieRetention` | retention, cap and merge of `cookie_jar_manager.py` | none |
| `SessionStore` | what the jar promises (abstract) | `stored` |
| `CookieJar` | files, lock and solves; implements `SessionStore` | `clock`, `version`, `jar`, `lock`, `solve` |
| `BrowserSolve` | one `solve` of `camoufox_provider.py`, `patchright_provider.py`, `byparr_provider.py`, with `_login.py` and the lazy scroll of `_scroll.py`; one render of `playwright_middleware.py` | `task`, `call`, `engine`, `page`, `result` |
| `FeedCollection` | the progressive collection inside a solve: `_scroll.py`, `_live_dom.py`, the feed callbacks of both drivers | `driver`, `page`, `read` |
| `SpiderConfig` | the fields and validators of `spider_config.py` | none |
| `Crawl` | `generic_spider.py`, from the configuration to the last request, with `parsed_html.py`'s ways to read a page; EXTENDS `SpiderConfig` | `config`, `phase`, `seen`, `pending`, `visited`, `read`, `wanted`, `lost` |
| `StorageBackend` | what a storage backend promises (abstract) | `stored`, `result` |
| `SQLiteStorage` | `sqlite_backend.py` with `pipelines.py`, and SQLite's locks; implements `StorageBackend` | `conn`, `lock`, `saving`, `inserted`, `reading`, `stored`, `result` |
| `CrawlJobs` | `queue/`, the processes of the crawls; EXTENDS `SQLiteStorage` | `job`, `proc`, `code`, `orphan` |
| `CircuitBreakerProofs`, `RateLimiterProofs`, `DownloaderChainProofs`, `CookieJarProofs`, `BrowserSolveProofs`, `FeedCollectionProofs`, `CrawlProofs`, `CrawlJobsProofs` | theorems | |
| `MC*` | instances for TLC | |

**Breaker.** Each handler of the code is one function of a domain's circuit
(`Admitted`, `Answered`, `Failed`, `Rejected`, `Opened`) and one action that
applies it. `CircuitBreaker` alone calls the actions in any order with any
response, exception and `meta`, which includes late answers;
`DownloaderChain` calls the same functions from requests that really go
through the chain. Time is `elapsed`, that is `clock() - opened_at`, the only
form in which the code uses either. It advances while a circuit blocks and
stops at the cooldown, after which the comparison does not change; the count of
failures stops at the threshold for the same reason. So the model has no
artificial bound on time. Responses are an `ok`, a 5xx, a 429 or another
rejection, the last two with one of the shapes the classifier tells apart.

**Limiter.** A scope is the list of ages of its requests, its violations,
the time since the last one (`quiet`) and the rest of its cooldown. `trim`
drops from the front up to the first request inside the window
(`FirstInside`, `Trimmed`); since ages are in order, which `LimiterTypeOK`
says, nothing behind that one is too old. The
four phases of `process_request` are the three actions `BlockedRequest`,
`DroppedRequest`, `PassedRequest`. The test for regular timing is exact, in
integers. Which scopes a request belongs to (the key functions) is the
constant `Presentable`.

**Chain.** A request has a `stage` (queued, solving, rendering, downloading,
waiting, or one of its ends), the part of `meta` that handlers read, and the
number of `passes` it has made, which is counted up to `PassLimit + 1` only. From
the queue to the next pause is one step of the reactor thread, so one action;
solves, renders, downloads and timers are pauses. `HandleResponse` and
`HandleException` run the chain of handlers backwards on a result.

`RequestLifecycle` is what all this amounts to for a request: it is yielded,
handed out, perhaps put back at the cost of one of `Reissues`, and ends once, by an
answer or by being dropped. The chain implements it with `Reissues <- MaxAttempts + 1`:
`PhaseOf` takes queued and waiting requests for `ready` and the three pauses
for `working`, and `ReissuesLeft` is the retries that are left plus one while the
request was not escalated. `EveryRequestEnds` adds that the end comes.

**Cookie jar.** A recording is `Succeed` (takes the time), `Acquire`,
`LoadAndWrite`, `FinishWriting`, `Rename`; `RecordFails` and `Crash` may
strike between any two. A file is its sessions and whether it is complete.
Loading may fail for a moment, and then counts as an empty jar, as in
`load_jar`. One cookie with a version stands for the storage state. What else
a session holds shows in its size, in bytes, which the constant `Sizes` gives;
`Evicted` compares sums of sizes with `MaxBytes`, as `enforce_max_total_size`
compares the length of the JSON text. Any sizes and any cap are allowed, also a
cap that no session fits.

**Browser providers.** `call` is the thread: the stage it has reached, the
number of the attempt, and the exception on its way. Each stage is one or a
few calls on the browser, so `EngineDies` and the page's own steps
(`LoginAnswered`, `ChallengePassed`, `AnswerShown`) come between any two. A
response and its document are two of them: the listener of the responses sees
the answer to a login (`LoginAnswered`) before the page shows it
(`AnswerShown`), and the verdict, the reading of the status and the reading of
the HTML may fall in between. The same holds for the target behind a challenge that
is passed.
`BrowserCallFails` is a call that raises; where its error is caught depends on
the provider, and that is the whole difference between the two drivers:
Patchright's `except` lies inside the `finally` that closes the browser and
around the login and the target only, Camoufox's lies outside and around everything.
`CloseBrowser` is that `finally` with, for Camoufox, the classification that
follows. The constant `Tasks` holds the arguments of `solve`. What a page
shows is one of nine kinds of documents, which is what the login verdict, the
status and the HTML depend on.

The renderer is a fourth "provider" of the same module: it has the steps
of a visit without warm-up, login and recording, errors of its own
(`RenderError`), and one attempt. After the target is shown come the steps
that a target asks for: the click and the wait, the lazy scroll
(`Scroll`, at most `MaxScrolls` turns, which the page may end earlier), the
progressive collection (`Collect`, one step here and all of
`FeedCollection` there), the extraction from the live page (`Extract`, which
an unsupported field refuses). That the engine's events are handled before
the failure of the call they interrupt is an assumption about Playwright, the
one the code makes too.

**Collection.** `driver` is `scroll_and_collect` with its callbacks: a reading
(`StartReading`, `FinishReading`), the hover that may be blocked
(`HoverBlocked`), the wheel turned under a listener that is already attached
(`TurnWheel`), the response or the end of the wait for it (`ResponseCaught`,
`TimedOut`), the pause before the next reading. What came of an attempt is
`outcome`, which the page's `Answered` sets while the driver waits: the
listener takes the first matching response, whoever asked for it. A reading
is not atomic (rows are read one by one), so posts that come or go
meanwhile may be read or not. What is in the DOM is the `Window`: the newest
posts, as many as the page keeps, of the batches that have come. Appending a batch
and evicting what exceeds the window is one step, as it is one tick of
`appendEdges`. So when the window is smaller than a batch, only the end of
each batch is ever in the DOM for anything to read (`Survivors`). The page is
not part of the program; its model is what the drivers and `templates/feed.html` say of it: it
loads on scroll events, one fetch at a time, drops events that find it
busy, and takes an error for the end of the feed. Three parts of what it does
are chosen at the start and kept: `window`, how many posts it keeps; `prompt`, that an answer comes within the
time the driver waits for it and is shown within the pause, and `burst`, how
many scroll events one turn of the wheel may set off. `Smooth` is a
prompt page with at most one; the properties about what is read assume it, the
others do not. A feed response whose body is not JSON, which keeps the
loop going, is left out.

**Crawl.** A request is a URL with what the spider reads of it later: whether
it is a step of the warm-up and which, its referer, the solver it was last
given to, and what solves left in `meta` (`found`). Between scheduler and
callback a request is answered or dropped, which is what `EveryRequestEnds`
shows of `DownloaderChain`; on the way it may be given to a provider, and to
the next one if the engine enacts a switch. `Scheduled` is Scrapy's
scheduler with its duplicate filter, which the spider never bypasses.
`ParseWarmSessionStep` and `Parse` are the callbacks; `HtmlSource` is the
order in which `_parse_html` looks for items. The target is outside: any
answer may come to any request, and pages may link to each other in circles.

**Jobs and storage.** Each crawl has a job, a process and a connection.
`SQLiteStorage` has the steps of `save` (INSERT, COMMIT) apart, because other
connections come between them: INSERT takes the one RESERVED lock, COMMIT
needs every reader gone. A COMMIT that fails because a reader is there keeps
the transaction, which `save` does not roll back; one that fails with
the file is rolled back by SQLite. `CrawlJobs` adds the job's states as RQ
keeps them, both timeouts (`Timeout`; each kills the process), the death of a
work horse, which leaves the process behind (`HorseDies`), and the exit status
that a Scrapy process has. `Disconnect` is the end of a
connection, by `close` or by the death of its process.

Definitions introduced by "a wrong variant" are not part of the models: each
is a plausible mistake in the code, used to see that a property notices it.

## 3. Runs

All runs are small enough for a laptop; the longest take about two minutes.

| Run | Instance | Shows |
|---|---|---|
| `breaker` | one domain, threshold 3, cooldowns 2 and 4, multipliers none and 2, engine enacting | `BreakerTypeOK`, `CircuitsConsistent`, `StreakBelowThreshold`, `ForgivenOnlyWhole`, `RecoversWhenQuiet` |
| `limiter` | a target (3 requests in 4 units) and an account (1 in 2), threshold 2, reset 5, maximum 16 | `WindowCeiling`, `EscalationCeiling`, `CooldownServedInFull`, `DroppedNotRecorded`, `NeverLockedOut` |
| `chain_limited` | two plain requests to a domain, limiter on, threshold 2, one retry | `HalfOpenHasTrial`, `FailureSeenBeforeRetry`, `EveryRequestEnds` |
| `chain_browsers` | a plain request and one that is solved and rendered, limiter off | `PassesBounded`, `ImplementsLifecycle` |
| `cookie_jar` | two solves, times 0 to 5, cookie versions to 2, one sampled bucket, a cap of 4 bytes, sessions of 1 to 3 bytes and, when recorded at time 2, of 5 | `JarInv`, `ReadersSeeWholeJar`, `RecordingsAreAtomic`, `DropsJustified`, `CapRespected`, `RecordingsEnd` |
| `browser_solve` | Camoufox and Patchright with warm-up, login, probe, profile, progressive collection, live extraction, a refused field and tracing in all combinations but a few that meet nowhere in the code (`MCDriving`); Byparr and the renderer, which have none of them; three attempts, three turns of the scroll loop | `NoBrowserLeft`, `RecordedOnlyOnSuccess`, `GivesUpExhausted`, `RefusedLoginStaysOut`, `CrashNotBlamedOnTarget`, `EverySolveEnds` |
| `feed` | a feed of 3 batches of 2 posts, a window of 1, 3 or 6 of them, 6 attempts, 3 stalls, pages that are prompt or not, 1 or 2 scroll events for a wheel | `EvictedOnlyAfterRead`, `CompleteWhenConfirmed`, `PatientWithStalls`, `CollectionEnds` |
| `crawl` | every accepted configuration with no warm-up, a path of two pages or one that comes back, two start pages of which one may be a warm-up page; four URLs, switching enacted | `WarmPathFirst`, `FitForConfig`, `EveryPageReadOnce`, `CrawlEnds` |
| `jobs` | three crawls with two, one and no item, two workers, one reader | `OverWhenReported`, `BackendContract`, `JobsEnd` |

A solve, a collection, a crawl and a set of jobs stop when they have ended, so
their runs do not check for deadlock; `EverySolveEnds`, `CollectionEnds`,
`CrawlEnds` and `JobsEnd` say that they stop nowhere else.

**Why these bounds.** Domains do not interact in the breaker or the engine
(every handler reads and writes one domain's entry), so one domain is
enough. A threshold of 3 has a count strictly between nothing and
open; 2 is enough in the chain, where the interleavings matter. The two cooldowns
differ and the multiplier applies to both. The limiter has two levels with
requests in one and in both, windows that hold several requests, and a
maximum (16) above `EscalationCeiling`, so that the ceiling and not the
maximum is what holds. Two requests are what it takes for a trial and
a bystander, or a late answer and an open circuit. One retry and the one
escalation give every order of the two. In the jar, the cap is reached, by
several sessions and by one alone, a slot holds several sessions, sessions
expire, and a recording that waited for the lock sees younger sessions than its
own.

In a solve, three attempts, the default, have a first, a middle
and a last. A second warm-up page or a second solve would add nothing: the
hops are alike, and solves share only the cookie jar. Three batches have one
that is neither the first nor the last; the three windows cut each batch
down, keep posts of the batch before, and keep everything; six attempts allow two stalls, an
answer and three stalls, which is what tells stalls in a row from stalls in all.
Three turns of the scroll loop have one that is neither the first nor the last.

In a crawl, two warm-up pages are a hop from nothing, a hop from a page and the
step to the start pages; two start pages are requests that overtake each
other; a start page that is a warm-up page and a path that comes back
are what the duplicate filter drops. Pages are parsed once each, so four
URLs give paginations of up to two further pages, forks that meet, and circles.
Two crawls with items contend for the lock, one of them with a second
item that finds the transaction of the first still open; the crawl without
items and the second worker let jobs wait, run side by side and end in
any order. One reader is enough for a COMMIT to fail.

**Fairness.** Time passes (`WF` of the ticks). `RecoversWhenQuiet` assumes that
the crawl goes on asking for the domain: nothing but a request makes the
breaker look at its clock. `NeverLockedOut` assumes requests of every kind
keep coming, which is the hard case for a limiter. `EveryRequestEnds` assumes
that Scrapy's scheduler gets to every queued request, that
every solve, render and download ends, as each has a timeout, and that
reactor timers fire. `RecordingsEnd` assumes a running solve goes on, and
that Linux serves the waiters of a flock in turn (`SF` of `Acquire`); nothing
is assumed of failures and kills. `EverySolveEnds` assumes that each call on
the browser returns, with a result or an error: navigations and clicks have
timeouts, waits have lengths. It assumes nothing of the engine or the pages. `CollectionEnds` assumes that
the driver's calls return, as waits and hovers have timeouts and pauses have
lengths, and that the page takes its events and ends its fetches. `CrawlEnds` assumes what
`EveryRequestEnds` shows, that every request ends one way or the other, and
nothing of the providers. `JobsEnd` assumes that workers take jobs, that the
two clocks run out, and that a crawl's process goes on, for which each save
waits at most 5 s for a lock; nothing is assumed of kills, failures or
readers.

### Where the code differs from what is said of it

Each of these runs checks one statement of the documentation, a comment or a
test, and TLC finds a behaviour of the code against it.

| Run | Statement | What happens |
|---|---|---|
| `blocked_reopens` | rejected "for cooldown_seconds. Once the cooldown elapses ...", `circuit_breaker.py:3` | the breaker's own `IgnoreRequest` comes back through its `process_exception`, counts as a failure and restarts the cooldown |
| `stale_items` | the items were extracted from the page of the answer, `byparr_middleware.py:203` | they stay in `meta` over a retry or an escalation and are delivered with the answer of a download |
| `stale_cookie` | the later session has "the real, most-recent value", `cookie_jar_manager.py:273` | a solve that began earlier and records later puts back an older value |

Seen while modelling, and not given a run of their own:

* The breaker "blocks before Byparr/Playwright waste a solve/render"
  (`ARCHITECTURE.md:51`), but it is asked after both, so a request to a
  blocked domain is solved or rendered first.
* "one trial request is let through (half-open)" (`circuit_breaker.py:6`), but
  only OPEN blocks: while the trial is out every request passes.
* A success that was under way when a circuit opened closes it at once.
* A plain failure recorded while a silent block's "deliberately longer"
  cooldown runs (`circuit_breaker.py:73`) replaces it by the plain one.
* The limiter's `IgnoreRequest` is counted as a failure of the domain by the
  breaker, although the limiter is "independent" of it (`rate_limiter.py:4`).
* A retryable *response* with no attempts left is returned and not dropped by
  `IgnoreRequest` as `retry_backoff.py:5` says.
* `login_ok` is "`True` if the login POST itself succeeded" (`_login.py:101`),
  but when the answer to the form takes longer than `post_load_wait_ms`, the last
  status is still that of the form: the login is judged good, and the
  navigation to the target aborts it. `JudgeLogin` has this step.
* After a refused login "the login page's own failure response is left as the
  final state for the caller to read" (`_login.py:98`). That is so for the
  status. When the response is there but its document is not shown yet, the
  verdict and the reading of the HTML find the form; `RefusedLoginStaysOut` says
  what may be found.
* The size cap evicts the oldest sessions "until it fits, or nothing is left to
  evict" (`cookie_jar_manager.py:248`), so one session that is larger than the cap
  takes all older ones with it and is then evicted itself, and the jar is empty. A
  unit test expects this
  (`test_enforce_max_total_size_evicts_everything_when_the_cap_is_impossibly_small`).
* Sampling comes before the cap, so the session that a slot has kept may be
  evicted for its size although another of the slot would have fitted: the
  slot is then without a session. `DropsJustified` names this case (`MadeRoom`).
* Status and HTML may be of different documents, when a challenge is passed
  between the two reads (`ReadResponse`, `ReadPage`).
* With tracing on, `tracing.stop` on a browser that died raises an error that
  takes the place of the one on its way. So Patchright's crash is then not
  retried, and Camoufox may record a session in two attempts;
  `RecordedOnlyOnSuccess` is about solves without tracing.
* A provider "must raise `AntibotError` (never a bare `Exception`)"
  (`antibot_provider.py:291`), but when Camoufox does not start, the handler of
  the failure reads `browser_crashed` before it is assigned
  (`camoufox_provider.py:1575`), and Patchright's errors of the context, the
  page and the warm-up lie outside its `except` clause.
* A timeout "must not be retried the same way" (`camoufox_provider.py:1610`),
  but the `finally` that closes the browser comes before the `except`
  clause, and `browser.close()` fires `disconnected` too: by the time the
  clause reads the flag, every failure looks like a crash and is retried.
* In the Playwright middleware an error of `new_page` lies outside the `except`
  clause: it becomes no `RenderError` and no failure record. The status
  of a render is that of the first response, the HTML may be a later document's.
* With progressive collection the HTML is as old as the last snapshot, and
  the status is read after it.
* An exception of `http.client` or of decoding leaves Byparr's `solve`
  untranslated, and the `ValueError` of an unsupported field that of the others.
* "a post evicted from the DOM by a later step is still captured"
  (`_live_dom.py:67`) holds for smooth pages only. When a wheel sets off two
  loads, or an answer comes after its wait was given up and is caught by the
  next attempt, posts may be evicted unread. Drop `Smooth` from
  `EvictedOnlyAfterRead` to see both. The comment at
  `camoufox_provider.py:766` knows of the first.
* Posts that the window cuts off a batch as it arrives are lost to any
  collection. With the test environment's batches of 10 and window of 5 that is half
  of the feed: the comment at `camoufox_provider.py:1183` says so, and
  `_expected_post_ids` in
  `test_mock_target_dom_virtualization_progressive_live.py` expects the other
  half, 25 posts of 50, as `CompleteWhenConfirmed` does.
* A feed request that is rejected (429) makes the page believe that the feed
  ends, and the collection ends by stalls as if it did.
* "the real target is reached" by the warm-up's path
  (`_parse_warm_session_step`), but the path's requests and the start URLs pass
  the same duplicate filter: a start URL that is also a warm-up page is never
  parsed, and a path that visits a page twice ends the crawl there. A warm-up
  request that is dropped or not answered by 2xx ends the crawl with nothing
  read; it has no errback.
* `_build_next_json_url` gives the "same URL with its `after` query param set"
  (`generic_spider.py:48`), except that blank parameters are dropped, and all
  but the last of repeated ones.
* A JSON configuration's `next_page` selector is ignored.
* The field offsets of a positional configuration are not compared with
  `item_group_size` when it is loaded, so one that does not fit is found out on
  each page, where `parse` raises.
* With `parsed_html` extraction, a progressive configuration that has no `post_id` field
  collects nothing, since snapshots are told apart by it.
* When the engine enacts a switch, a target that needs a browser (live extraction,
  progressive collection, login) is rotated from Patchright to Byparr,
  which has none; `FitForConfig` excepts it.
* `enqueue_crawl` leaves RQ's timeout at its default of 180 s, below the
  600 s of `subprocess.run`, so the `QueueError` for a crawl that timed out is
  never raised: the job fails by RQ's own exception.
* A non-zero exit is there so that RQ does not go on "silently reporting
  success" (`tasks.py:39`), but a crawl whose requests all fail, whose saves
  all fail, or whose pipeline cannot open the database exits with 0 and its job is
  `finished`.
* A work horse that is killed leaves its crawl running: the job is `failed`, and
  the process goes on to save.
* An item whose `save` raised because COMMIT found a reader stays in the open
  transaction: the next save of that crawl stores it after all, and until
  then its lock makes the saves of other crawls fail. `StorageBackend` has
  this exception in its contract (`late`).

* `base_seconds * (2.0 ** (escalation_step - 1))` (`rate_limiter.py:182`) is
  computed before the minimum with `backoff_max_seconds` is taken. With a
  maximum below `violation_reset_seconds` the violations of a scope that is pressed
  are never forgotten, and after 1024 cooldowns the power raises
  `OverflowError`. The default settings are the other way round and forget; the model
  takes the minimum of the exact power.

From `EscalationCeiling`: with the default settings (base 30 s, maximum
1800 s, reset 300 s) the cooldown is at most 480 s. The maximum is never
reached, because a scope that has been blocked for longer than the reset time
starts from nothing.

## 4. Proofs

`CircuitBreakerProofs`, for any domains, thresholds, cooldowns, overrides and
multipliers (`BreakerAssumption`, `EngineAssumption`):

* `BreakerTypeCorrect`, `CircuitsStayConsistent`, `StreaksStayBelow`:
  `BreakerSpec => []` of `BreakerTypeOK`, `CircuitsConsistent`,
  `StreakBelowThreshold`. The inductive invariant is their conjunction:
  consistency needs the types, and a circuit's bounds on its cooldown need
  `AdjustedCooldown` to stay between a cooldown and `MaxMultiplier` times
  it, which is a lemma. Each handler has a lemma that says its function
  keeps a circuit consistent; the step lemma applies them.
* `NoPartialForgiveness`: `BreakerSpec => ForgivenOnlyWhole`, from the same
  lemmas: every handler but a success leaves the count or raises it.

`CookieJarProofs`, for any number of solves and any buckets, sizes and cap
(`RetentionAssumption`, `SizesAssumption`, `JarAssumption`):

* `JarInvariant`: `JarSpec => []JarInv`. `JarInv` says who holds the lock
  (`LockHeld`) and that a temporary file is still what a recording makes of
  the present jar (`TempIsCurrent`). The second needs the first: it survives
  another solve's `Rename` because two solves cannot both be in the
  critical section.
* `ReadersAlwaysSeeWholeJar` follows; so does `RecordingsAtomic`: `CookieJar`
  implements `SessionStore` under the mapping `stored <- jar.sessions`. Only
  `Rename` changes the sessions, and `TempIsCurrent` says it is a `Record`.
  These proofs do not depend on what retention and cap keep.
* `EveryDropJustified`, `YoungestStaysIfItFits`: `JarSpec` implies
  `DropsJustified` and `CapRespected`, and here it matters. `TimesInv` says that
  the sessions in the jar and the ones under way have distinct times, which is
  what the model's clock gives. So each session stands at the head of the ones
  younger than itself, and the cap keeps it if these fit with it; sizes only grow
  from one such suffix to the next (`SizeGrows`), so what is kept is itself a
  suffix, fits, and has no room for the next older session. A session that neither
  expired nor shares its slot with a kept one is dropped only for that reason.
  The youngest is a suffix alone, so only its own size can evict it.

`BrowserSolveProofs`, for any limit of attempts and any set of arguments
(`SolveAssumption`):

* `SolveInvariant`: `SolveSpec => []SolveInv`. Besides the types, `SolveInv`
  says in which stages a browser runs (`BrowserInv`), that an exception is
  on its way only from the failing call to the end of its attempt
  (`ErrorInv`), what has been recorded when (`CountInv`, `RecordInv`), and
  what the page shows while a login is judged and after it was refused
  (`LoginInv`). The second is what rules out a recording in an attempt that
  fails; the last needs the form's state: after the response the form may still
  be shown, and then only the refusal's document takes its place. All the ways an attempt can fail share a
  lemma, `FailurePreserves`.
* `SolveTypeCorrect`, `NoBrowserStays`, `OnlySuccessesRecorded`,
  `CrashesUseUpAttempts` and `RefusalIsTheAnswer` follow: `SolveSpec => []` of
  `SolveTypeOK`, `NoBrowserLeft`, `RecordedOnlyOnSuccess`,
  `GivesUpExhausted` and `RefusedLoginStaysOut`.
* `CrashesAreNotBlamed`: `SolveSpec => CrashNotBlamedOnTarget`, with one more
  invariant, `DiedInv`: the flag the classification reads is set when the engine
  has died, and an attempt that has not launched a browser has none that did.
* `SolveApproachesItsEnd`: each step of a solve begins the next attempt or
  brings the present one closer to its end (`StepsLeft`, from the rank of the
  stage and the turns of the scroll loop left), and engine and page do not change
  that. So a solve makes at most `MaxCrashAttempts * (20 + MaxScrolls)` steps.

`FeedCollectionProofs`, for any length of the feed, any size of batches, any
windows, limits and bursts (`FeedAssumption`):

* `FeedInvariant`: `FeedSpec => []FeedInv`. Besides the types, `FeedInv` says
  that the page asks only for batches there are (`PageInv`), what keeps
  the loop going (`LoopInv`), that stalls are the attempts since the last
  response (`StallInv`), that an announced end is there or arriving
  (`LastInv`), and for smooth pages when the page is at rest (`RestInv`)
  and what has been read (`ReadInv`), and that nothing is read that the page
  never had (`KnownInv`). `ReadInv` speaks of the whole window after each batch
  (`Collected`) and needs `RestInv`: posts are evicted only by a fetch, and on
  a smooth page every fetch after the first is one that the driver caused and waits
  for. A post survives the arrival of its own batch just if it is in the window
  of some number of batches, which ties windows to `Survivors`.
* `FeedTypeCorrect`, `NothingEvictedUnread`, `ConfirmedEndIsComplete` and
  `StallsArePatient` follow: `FeedSpec => []` of `FeedTypeOK`,
  `EvictedOnlyAfterRead`, `CompleteWhenConfirmed` and `PatientWithStalls`.
* `CollectionApproachesItsEnd`: each step of the driver lowers
  `DriverDistance`, which is at most `4 * MaxAttempts + 2`; each step of the page
  leaves that and lowers `PageDistance`, its scroll events and its fetch.

`RateLimiterProofs`, for any levels, keys, windows and limits
(`LimiterAssumption`):

* `LimiterInv` adds to the types that in each scope the requests in excess
  of `max_requests` are matched by violations still on record (`Matched`):
  there are no more of them than violations, and the last violation is no
  older than the youngest request. So forgiving the violations, which takes the
  reset time, finds a window with nothing in excess, if the window is
  shorter than that. What a window does when it is trimmed, when a request
  is appended and when time passes is said by lemmas about sequences.
* `LimiterTypeCorrect`, `TrafficIsBounded`, `CooldownsAreServed`,
  `DropsAreNotRecorded`: `LimiterSpec` implies `[]LimiterTypeOK`,
  `[]WindowCeiling`, `CooldownServedInFull`, `DroppedNotRecorded`.
* `CooldownsStayBounded`: `LimiterSpec => []EscalationCeiling`. The ceiling is
  not inductive; `Served` is what it lacks: while a scope remembers violations at or
  above the threshold, the time since the last one and the rest of the
  cooldown together are at least the cooldown of that many. So the next cooldown can double only one
  that fits into the reset time. `Doubled` is a recursive function, and that it
  is never below its base is shown by a least counterexample.

`DownloaderChainProofs`, for any requests, domains, scopes and limits:

* `OneRequest` says what a step of the chain may do to its request and to
  the circuit of its domain; a lemma for each kind of step shows it. The invariant
  `ChainInv` needs of a request that its passes are among those granted to
  it, by retries and by the one escalation, and of a half-open circuit
  that a request of its domain is under way: a request that ends closes or opens
  the circuit, and a step of another domain does not touch it.
* `ChainDrivesBreaker`, `ChainDrivesLimiter`: `ChainSpec` implies `BreakerSpec`
  and `LimiterSpec`, so what is proved of these modules holds in the chain.
* `TrialUnderWay`, `PassesStayBounded`, `FailureIsSeenFirst`:
  `HalfOpenHasTrial`, `PassesBounded`, `FailureSeenBeforeRetry`.
* `ChainImplementsLifecycle`: `ChainSpec => ImplementsLifecycle`. `Turn`, a
  part of `OneRequest`, says where a step may take its request and what it
  costs; each of its cases is an action of `RequestLifecycle` or, inside a
  phase, a stutter.
* `RequestsApproachTheirEnd`: a request's `Distance`, six times its reissues left and
  the rank of its stage, never grows until it ends and falls with each step of
  its own, so there are at most `6 * (MaxAttempts + 1) + 5` of these.

`CrawlProofs`, for any URLs, any warm-up paths and lists of start pages
(`CrawlAssumption`):

* `CrawlInv` has five parts besides the types and the properties: before a crawl begins nothing was
  seen, and after that its configuration is accepted (`Begun`); the filter
  keeps pending and parsed pages apart (`Unique`); a crawl on its path has one
  request and has seen the path up to there (`Walking`); a page that was seen is
  pending, visited, parsed or lost, and the start pages are reached if the path
  is (`Accounted`); what solves left in `meta` is what the configuration asks
  for (`Given`).
* `PathComesFirst`, `ValidatedMeansFit`, `NoPageTwiceNoneMissed`:
  `WarmPathFirst`, `FitForConfig`, `EveryPageReadOnce`.
* `EndedUrlsStayClosed`: `OpenUrls`, the URLs not seen yet and those of
  pending requests, never grows, and each request that ends takes its own out. So a
  crawl makes at most as many requests as there are URLs.

`CrawlJobsProofs`, for any crawls, workers, items and readers
(`StorageAssumption`):

* `JobsInv` says what a job, its process and its connection know of each other
  (`Tied`) and what an open transaction holds: the item being saved and
  items whose save failed (`Transaction`). The second is why a commit stores
  nothing that the contract forbids.
* `ReportedJobsAreOver`: `OverWhenReported`. `StorageKeepsContract`:
  `SQLiteStorage` inside `CrawlJobs` implements `StorageBackend`, with its
  variables `stored` and `result` under their own names.
* `JobsOnlyGoForward`: jobs and processes have ranks (`JobRank`, `ProcRank`)
  that never rise and fall with each step of a job, or of its crawl unless it
  is a step of `save`; that one settles an item or moves the save on.

Every safety and action property of a passing run is proved, and so is each
refinement. Only model-checked are the liveness properties: `RecoversWhenQuiet`,
`NeverLockedOut`, `EveryRequestEnds`, `RecordingsEnd`, `EverySolveEnds`,
`CollectionEnds`, `CrawlEnds`, `JobsEnd`. The prover has no rule for fairness or
`ENABLED`. For requests, solves, collections, crawls and jobs the other half of
the argument is proved, that each step is one towards the end and nothing undoes it; that
the steps are taken is what fairness says and TLC checks. For a crawl and its
jobs that half also leaves the finite sets of URLs and items to be counted,
which would be an induction over data.

## 5. Not modelled, and why

* Scrapy's own middlewares. They keep their defaults; its `RetryMiddleware`
  also re-issues 5xx answers, which adds passes that `PassesBounded` does not
  count. Its scheduler, duplicate filter and downloader are the
  nondeterminism of the chain's pauses.
* The size of the thread pool: a solve that waits for a thread is a solve
  that takes longer.
* Log lines, failure records and alerts: nothing reads them. The alert's
  webhook is called on the reactor thread and delays everything by up to its
  timeout; the models have no notion of how long a handler runs.
* `decide_target_new_urls` has no caller.
* Power failures: `save_jar` does not sync, so the argument of
  `ReadersSeeWholeJar` is about killed processes, not about a machine that
  goes down.
* Temporary files that killed processes leave behind. Nothing removes them.
* Inside a solve: mouse paths, the random distances and pauses of the scroll
  loop, what a trace or a log of events contains. The solve's use of the cookie jar is
  the business of `CookieJar`: here a recording succeeds or fails.
* `RequestCounter` and `poll_until_idle` of `_scroll.py` have no caller.
* What a selector finds in a page, and the fields of an item.
* Fields of a configuration that only tune a component are constants of that
  component's module. Numeric ranges are its assumptions.
* SQLite's journal, RQ's registries and retries (the code asks for none), Redis
  going down while a job runs.
* AI analysis, logging, settings, interfaces: no behaviour of their own in a
  crawl. Of the test environment the feed page is modelled, in `FeedCollection`;
  the rest is fixtures.

## 6. Plan

1. The composition of `FeedCollection` with `BrowserSolve`'s `Collect`, so that
   an engine may die in the middle of a collection.
2. Proofs: measures, as for requests and solves, for recordings, for a circuit's
   recovery and for a scope that is pressed; that a collection embedded in a
   solve keeps both modules' invariants.
3. `RequestCounter`, when it gets a caller.
