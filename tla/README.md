# DukaScraper in TLA+

This directory holds a formal model of DukaScraper, checked with TLC and, in part, proved with
TLAPS. DukaScraper crawls web sites for intelligence analysts: an API accepts a crawl job, workers
fetch its pages and the pages they link to, and a pipeline parses, deduplicates, analyses, stores
and exports what they found. Paths below are relative to the repository.

Tools: `tlasany M.tla` parses a module, `tlc -config X.cfg M` checks one run, `tlapm M.tla` checks
the proofs of a module. `PROJECT.json` lists every run with its properties, every definition with
the lines it models, and the mutants that show that a property can fail.

## 1. The system

| Component | State | Operations |
|---|---|---|
| API and pipeline (`src/app/api/routes/jobs.py`, `src/app/pipeline/main.py`) | none of its own; writes `jobs`, publishes to Kafka | submit a crawl, a batch, a discovery; pause, resume, retry |
| Job rows (`src/app/storage/postgres/client.py:621-1072`) | `jobs.status`, `active_tasks`, `resume_status`; `crawl_log` | one SQL statement or transaction per operation |
| Surface, deep, dark worker (`src/workers/*-worker/main.py`) | in-memory tasks, a semaphore, a consumer position | fetch a page, validate, escalate to the deep worker, queue children, publish |
| Browsers and site accounts of the deep worker (`auto_signup_handler.py`, `portal_handler.py`, ...) | Camoufox slots, environment variables of the process, `credential_usage` | solve a challenge, log in, sign up, verify |
| Transcribe worker | as a crawl worker, topic of audio requests | transcribe, publish, settle |
| Recursive crawl, links and URL dedup (`link_extraction_service.py`, `recursive_crawl_service.py`, `dedup_service.py`) | one Redis set per job | extract, normalize and filter links, reserve slots, check and mark, publish child requests |
| Watchdog (`job_watchdog.py`) | none | fail jobs that log nothing for too long |
| Parser worker, content fingerprints, raw objects | `content_fingerprints`, `parsed_items`, MinIO | drop duplicates, create the item, archive, publish to `crawl.parsed` |
| LLM worker and queue (`llm_analysis_queue.py`, `workers/llm-worker/main.py`), alerts | `llm_analysis_queue`, `intelligence_processed`, ClickHouse, `alerts` | enqueue, claim, analyse, settle, reclaim; raise an alert, mail its owner |
| Exporter (`workers/exporter-worker/main.py`, `routes/exports.py`) | a buffer, `exports`, MinIO | write to three stores, batch, upload, download, delete |
| Discovery worker | none | turn a search into crawl requests |
| Job events and live page (`job_events.py`, `websocket/job_status.py`, `ui/src/useRealtime.ts`, `ui/src/pages/JobDetail.tsx`) | Redis channel and history, sockets, the view of a browser | publish, replay, broadcast, poll |
| Accounts (`routes/auth.py`, `security/`) | `users`, `verification_tokens`, `auth_sessions`, Redis counters | register, verify, log in, reset, limit |

They interact through Kafka topics (`crawl.requests`, the audio topic, `crawl.raw`, `crawl.parsed`),
through PostgreSQL rows and through Redis. Each worker is one asyncio process, so a task is atomic
between two awaits; every process runs concurrently with the others. Every one of the three crawl
workers is a consumer group of its own on `crawl.requests` and so receives every message, and skips
the ones it does not own.

What is hard here:

- **Completion of a recursive job.** Nobody knows the number of pages. A counter, `active_tasks`,
  is raised before a message is published and lowered when its processing ends; the job finishes
  when it reaches zero. Every early return, exception, failed publish, escalation, audio hand-off
  and duplicate link must raise and lower it exactly once.
- **Several writers of one status**: workers, the submit route, pause, resume, retry, watchdog.
- **Kafka with automatic commits**: a worker that dies either loses pages or processes them again.
- **Leases**: a slow analysis is indistinguishable from a dead worker.
- **Check-then-act across statements**: URL dedup, content dedup, the duplicate-job guard, codes
  that are checked by one statement and marked by another, accounts that change in between.
- **Two coroutines on one buffer**, two pages on one set of browser slots and one environment.
- **Four sources for one page of the browser**: replay, live events, REST answers, a timer.
- **Errors that are logged and swallowed**, after which the code goes on as if all were well.

The full list, with the line where each bites, is under `hazards` in `PROJECT.json`.

What makes each component correct: the counter covers what is outstanding and is exact without
failures; a finished status is final; a job turns green only with content and fails when a page
crashes it; every job ends; an item is held by one LLM worker at a time, is not lost between the
queue and the model, and is given up after a bounded number of attempts; a severe finding has its
alert and its mail; the parser drops only what is stored elsewhere, and does drop a copy; what was
stored is exported once, and whole; a slot of the browser pool comes back; a challenge is not
taken for content; a stored account exists; a code serves once, and nobody is signed in without
having proved the address; the browser shows what the crawl log says. All of this holds, within the bounds or
under the assumptions named below, except that an account exists for a stored password (run `wizard`).

## 2. The modules

```
JobRow        the statements on a jobs row, as functions of the row
  TaskLedger      the abstract specification: what the counter promises
    TaskLedgerProofs    theorems about it (TLAPS)
  CrawlJob        API, workers, Kafka, Redis and watchdog, for one job; implements TaskLedger
    CrawlJobProofs      the implementation proof and theorems about it and LinkExtraction (TLAPS)
    MCCrawlJob          small sites for TLC
  JobSubmission   the routes that create jobs, for several calls and jobs
    DiscoveryWorker     adds searches, pages and the watchdog; each job implements TaskLedger
      DiscoveryProofs     the implementation proof and theorems about both (TLAPS)
      MCDiscoveryWorker   two calls for TLC
LinkExtraction    which links of a page become requests, under which URL; used by CrawlJob
WorkerAssignment  the rules that pick a worker, as functions
LiveUpdates       events of a job on their way to a browser
  PageScripts       (with WorkerAssignment) what a crawl worker does to a page, call by call
    CrawlPage         the page between crawl.requests and the parser, seen live
      PageProofs        theorems about it (TLAPS)
      MCCrawlPage       situations for TLC
SiteAccounts      the accounts of the deep worker at a site: credentials, forms, signup
  DeepPage          the browsers that reach the page: challenges, slots, logins
    DeepPageProofs      theorems about both (TLAPS)
    MCDeepPage          two pages of one site for TLC
ContentDedup      fingerprints, from the crawlers through the parser to crawl.parsed
  ContentPipeline   composed with Exporter, the way of a page to the stores and the exports
    ContentPipelineProofs  theorems about it and its two parts (TLAPS)
    MCContentPipeline   a page and its mirror for TLC
LLMQueue          the durable queue of the llm-worker
  Alerts            the alerts its analyses raise
    AlertsProofs        theorems about both (TLAPS)
Accounts          users, codes, sessions, rate limits of the API
  AccountsProofs      theorems about it (TLAPS)
  MCAccounts          three requests for TLC
```

**JobRow** turns each SQL statement into a function from row to row. `complete_job_task` keeps the
order of its CASE: it lowers the counter with GREATEST(..., 0), and finishes the job when the
counter *was* at most 1 and the status is pending, running or needs_review.

**TaskLedger** knows no worker and no message: a job has `outstanding` units of work; whoever holds
one may register more, settle it, or lose it. It says in one page what the rest of the system must
respect.

**CrawlJob** is the life of one job. Jobs share no row, key or partition, so one job is enough.
`task[o].pc` is the control point of message `o`: `queued`, `gate` (waiting out a pause), `start`,
`fetch`, then `escalating`, `handoff` or `children` / `mark` / `send` (the loop over links),
`publish`, `log`, `raised`, `settle`. Each action is what runs between two awaits that touch shared
state. The worker a request is assigned to is a constant; the links of a page come from
`LinkExtraction`; page validation is a free
choice among its verdicts. `position` and `committed` model automatic commits: a crash (`CrashWorker`)
puts the group back to `committed`, and what was delivered before it is lost.

**LinkExtraction** is the pipeline from the markup of a page to child URLs: base, resolution,
normalization, the filters in the order of the code, the scope of the job. Of a page that does not parse the
regex fallback takes every `href`, anchors and other elements included, and keeps the URL as it is spelled. A host or a segment of a
path is a value with the signals that the tables and regular expressions find in it; what quoting
and unquoting do to a segment is the function `canonical`, of which only idempotence is assumed.

**JobSubmission** has several requests at work at the same time: trigger, discover, batch and retry
each run `_require_kafka`, the duplicate guard (not for a topic), the INSERT, `register_job_tasks`,
the publish and the final status write as separate steps, because any other call, the user, a
worker or a kill may come between two of them. `fail_job` never raises: a failed UPDATE in it is
swallowed, and the caller goes on. `checked` remembers what the guard of a job had seen.

**DiscoveryWorker** extends it with the reader of `search.requests`: status guard, pause gate, one
registration for all the seeds, one publish per seed with its own compensation, the root settled
last. Crawl workers are reduced to starting, logging and settling a page, since CrawlJob has them
in full. The same abstract ledger is used, once per job (`Ledger(j)`): a job that is not yet
registered maps to the ledger's initial state, a submission that dies loses its unit.

**PageScripts** and **CrawlPage** take one page of the surface or the dark worker apart: robots,
classification by URL and by answer, agent rotation, validation, documents, escalation. A branch of
the code is a *script*, the awaits it still has to make (tell the timeline, log, archive, send,
re-route, dead letter); the head of the script runs, fails, or dies with the process. What a server
answers is a record of a small set, the *situation*. `WorkerAssignment` decides escalations.

**LiveUpdates** is what becomes of the events: `publish` to a Redis channel and then the capped
history, the one listener of the API process, `broadcast_job_update` iterating a set that sockets
join and leave during its awaits, the replay for who joins, the reconnecting hook of the
front end, and the REST requests of the page with its polling timer.

**SiteAccounts** has the rows of `credential_usage` for one site, its registration form as a
sequence of pages that each require some inputs, and the visits of `AutoSignupHandler.handle`, one
step per statement or answer of the site. Whether the site has an account (`site`) and what its page says and shows
after a submit are two things: `Answers` is any set of combinations, block and error pages, false markers and
accounts made in silence among them, and `Judged` is what the code makes of the page, in the order of its tests.
`EndsAt(k)` says how the wizard may end at page `k`; a page without an e-mail, password or text input ends it with success. **DeepPage** puts the browsers before it: navigation,
the solver, Camoufox attempts under the semaphore with `MOZ_DISABLE_CONTENT_SANDBOX` in the
environment of the process, gates, the retry of thin pages, the page budget that cancels anywhere.
A page's HTML is the kind of page that was captured; `Signals` says what the code finds in each.

**ContentDedup** models items, not messages: an item is one crawl of a page. The surface and the deep worker look for
an equal or close fingerprint, store their own and publish in three steps; pages of the dark worker, documents and
transcripts are published without (`Extracted`). The parser repeats the
look-up and drops the page, or creates the `parsed_items` row. The deep worker parses itself. Texts are model values with a
distance; the normalization that produces them is not modelled. What the surface worker reads (`crawled`) may differ
from what the parser extracts (`extracted`): it passes the URL as the `language` argument of
`clean_and_extract_text` (`surface-worker/main.py:467`). Any number of parsers may run: the
compose file starts one, and the consumer group allows more.

**Exporter** has the two coroutines of the exporter-worker, the consumer loop and the flush timer,
its buffer, the three stores, and the routes that ask for, download and delete an export.
**ContentPipeline** composes it with `ContentDedup`: a page that is done is a message of
`crawl.parsed` under the `item_id` of its row.

**LLMQueue** models any number of llm-worker processes, each with its consumer loop and its batch
loop, and any number of items. `expired` and `due` stand for the two clocks (lease, back-off).
**Alerts** refines the step between ClickHouse and the flag: each analysis has a verdict, the
upsert of the alert and the mail are steps of their own, and whatever dies in between is repeated,
perhaps with another verdict.

**Accounts** serves several requests of `routes/auth.py` at the same time, one step per statement,
with the rows of users, codes and sessions, the two Redis commands of a rate limit, and mails that
fail. `mailed` says which codes a person may enter, `proved` who has entered one of his own.

## 3. The runs

| Run | Question | Bounds |
|---|---|---|
| `ledger` | Does the abstract counter keep its promises? | up to 4 tasks |
| `crawl` | Without failures: is the counter exact, is every link followed, does the job end by itself? | 3 pages in two levels, one link found by two pages at once, an audio page |
| `faults` | Do surface and deep worker implement the ledger, whatever fails? Does an exception in the deep worker fail the job? | 2 pages, escalation, 10 kinds of events, any 2 of them |
| `redelivery` | What survives redelivery, ambiguous publishes, lost time? Does the watchdog end whatever leaks? | a dark crawl of 2 pages whose escalations nobody answers, any 1 of 8 kinds of events |
| `llmleases` | One holder per item, parked items stay parked, nothing dropped, attempts bounded, flag after result, alert and mail as ClickHouse has it, all settled? | 2 processes, 1 item, severities 3 to 5, any 2 events of 8 kinds, expired leases included |
| `submission` | Concurrent submissions, retries and searches: is a running job one that was published, are refused and retried jobs out of the way, does the guard suppress what it saw, does every job keep to the ledger? | 2 calls of any kind, 2 jobs, searches with at most one seed, any 2 of 7 kinds of events |
| `resume` | see *Runs that refute something* | 2 calls, 1 job, a pause |
| `accounts` | Does a code serve once, is nobody signed in without having proved the address, does a limit end? | 3 requests of any kind, 2 at a time, 1 failed mail or expired code, a limit of 1 on logins |
| `deeppages` | Do slots come back, is no challenge stored, are forms with known fields sent? | 2 pages of one site with one inbox, 2 Camoufox slots, 11 forms of up to 6 pages, a site that may answer anything, 1 attempt, 1 operator's request or failed statement |
| `wizard` | see *Runs that refute something* | 2 pages, the wizard of the docstring, a site that tells the truth |
| `pipeline` | Are drops accounted for, copies dropped, batches disjoint and complete, exports whole, and everything exported? | a page and its mirror, of which the page's crawler may read another text, batches of 2, 1 event of 8 kinds or request of a user, 1 stale row |
| `pages` | Does the browser only show what is logged, does a late viewer see all, do originals survive, does the page converge? | 1 page in 11 situations, 1 or 2 connections, up to 2 REST requests, the failures of the situation |

Two pages suffice for the counter because a violation needs one settlement that meets another
unit of work; three are used where two pages must race for the same link. `MAX_QUERY_PARAMS` is 3
instead of 12 in these runs, so that a link with too many parameters has four of them. Two processes suffice
for the queue because a violation of `OneHolder` names two holders, and one item because rows do not interact. Batches
of several items are covered by the proofs only. Each property leaves out an item which the fault in question hit (`hit[i]`),
not the behaviours in which it happens. Three attempts and two events let an item
be analysed, interrupted and analysed again with a higher and a lower severity. Two calls are the least
that can race, and a retry needs a call before it; with one seed the search itself is what the seed's
settlement could complete the job under (the proofs cover any number of seeds). Calls are interchangeable, hence the symmetry. Three requests let one race with
another over what the third has left. Two Camoufox slots are the default of
`DEEP_MAX_CONCURRENT_CAMOUFOX`; pages are interchangeable. A batch of two with two items makes
both the full buffer and the timer flush. The history of a job is capped at 5 lines
(`JOB_HISTORY_MAX_LINES` is 500), the number of events of one run of a page that is not escalated,
so that a redelivery overflows it. Kinds of events not listed for a run are covered by another; the branches of
the transcribe and the dark worker that raise are in `crawl` and `redelivery` only.

Bounds on what is unbounded in the code: `MaxTasks` (tasks registered at once, in the ledger; 12
slots are never reached by a crawl of three pages),
`MaxFaults`, `MaxEvents`, `MaxStale`, `MaxOutside` (events of the environment in one behaviour), `MaxRequests`,
`MaxCalls` (requests of users), `MaxConns` and `MaxLag` (connections of a browser, messages the
listener is behind), `MaxJobs`, `MaxSeeds`, `Retries`; `max_depth` and `MAX_RETRY_COUNT` are the
code's own. `CHECK_DEADLOCK FALSE` is set where the system comes to rest: a job ends, a queue runs
empty.

The type invariants (`TypeOK`, `TypesOK`) of the modules hold in every run when they are added as
invariants. The runs leave them out; those of `TaskLedger`,
`LLMQueue`, `CrawlJob`, `DiscoveryWorker`, `ContentDedup` and `Exporter` are proved.

**Fairness.** In `CrawlJob` the tasks, the API's coroutines and the brokers progress weakly fairly
as one (event loops and brokers keep serving), and so does the watchdog, whose loop catches its
errors and scans every `JOB_WATCHDOG_INTERVAL_SECONDS`. Users and failures are never obliged to
act. In `LLMQueue` and `Alerts` some process keeps working (containers have a restart policy, and failures are
finite in number) and time passes. In `ContentPipeline` the consumer loop and the timer of the exporter are
coroutines of one event loop, each of which goes on while the process runs; crawlers and parsers are not obliged to
act. In `CrawlPage` the poll timer of an open, visible tab fires and each of the two REST requests of a
load is answered, or fails; sockets, listener and worker are not obliged to act, since the timer is what the page relies on. In `Accounts` a request that is
served is served to its end and a window with an expiry ends. No strong fairness is used.

**Runs that refute something.** `resume` checks a sentence of the repository the code does not
keep: a search that is delivered while its job is paused is dropped by the status guard of
the discovery worker, which stands before its pause gate; and when the last page finishes while
the job is paused, `complete_job_task` leaves the status alone. Either way the resumed job has
nothing left to do (`jobs.py:659`), and only the watchdog ends it.

`wizard` checks that a stored password belongs to an account (`StoredExists`). The docstring of
`_handle_multi_step_registration` (1330-1334) lists steps with selects and check boxes only; the code takes the first page
without an e-mail, password or text input for the end of the registration (1469, 1517), and `handle` stores the
credential (264), although no account was made. The run lets the site tell the truth, so no misleading page is
needed. With a site that may say anything there are more ways: a block or error page without one of the markers, a
"welcome" beside a form that is still there, a page of the wizard that says "dashboard".

### Further disagreements

Met while reading and modelling; the models follow the code in each of them.

*Jobs.* A message settled before a
crash and delivered again after it is settled twice, so a job may complete while another page is
queued (`client.py:853`), and a search delivered again while its seeds are crawled fans out again,
although `discovery-worker/main.py:158` calls replays safe (`redelivery` shows what survives of
this). A retry of a discovery job is submitted as a
crawl of its `search://` URL (`jobs.py:705`), although the failed publish told the user to click
Retry (`pipeline/main.py:134`). Nothing writes `discovered_external_links`
(`record_discovered_external_links` has no caller), so the review
route never finds a link. A page that fails while its job is paused is neither counted down nor
does it fail the job, because the UPDATE excludes paused rows (`client.py:868`). The finalizer looks for `completed`
in `crawl_log`, but homepages and thin pages are logged `skipped` and `needs_review`, so a crawl of
them is failed as empty (`client.py:883`). A job paused for longer than `JOB_STALE_JOB_SECONDS` is
stale the moment it is resumed.

*Surface and dark worker.* `process_request` swallows the exception that
`_process_request_inner` re-raises to fail the job (`surface-worker/main.py:544` against 234), so the failing path of
`process_message_safely` is dead. What a re-routed document raises after it was sent is told and
logged as a failed fetch (308, 316). Columns of raw objects are not NULL when the archive failed
(`raw_object_store.py:143`). A document URL that serves HTML, delivered twice with a failed second
archive, may have its original overwritten by the parser's markup (`OriginalKept` speaks of documents that are
ingested as such; their names differ from those of markup).
A crawl that stores its fingerprint and fails before it publishes makes the parser
drop later copies as duplicates of an item that never exists (`surface-worker/main.py:501`, `parser-worker/main.py:625`;
`DropsAccounted` counts lost pages for this reason).
The docstring of `worker_assignment.py` (13-15) puts the path and query rules before the Ethiopian
domains, the code after them (391-400). The dark worker writes no `failed` row when it has
escalated too often (519-526), tells a failed fetch as "fetching passed" (470-473, 599), tells a crash before it logs it, and
writes the result of each page under one name per job (361).

*Links.* The path of the seed is compared as it was submitted (`recursive_crawl_service.py:88`) with links that were normalized: a seed
in another spelling - an unquoted Amharic name from a search, a lower-case escape - has no
children on a page that parses (theorem `RawSeedHasNoChildren`), and a seed that is a file has only itself as prefix.
The regex fallback for a page that does not parse returns the URL before normalization
(`link_extraction_service.py:412`), and the child request carries it so (`recursive_crawl_service.py:128`), though it is
deduplicated under its key.
The exemption of feeds in `filter_links` (`link_extraction_service.py:815`) never applies. A quoted
";" in the last segment is decoded by the first normalization and cut off by a second one (excluded
by `CanonicalAssumption`). The docstring says that `is_safe_fetch_url` is called; it is not.

*Deduplication.* A fingerprint row is never refreshed, so a URL crawled again after
`DEDUP_STALE_HOURS` is never again recognised as fresh. The surface worker passes the URL where
`clean_and_extract_text` takes a language (`surface-worker/main.py:467`), so it may fingerprint another text than the
parser extracts. Pages of the dark worker, documents and transcripts get their first fingerprint in the parser. The second
crawl of a URL in one job goes on under the item_id of the first (`client.py:1739`); redelivered, it may be
dropped for its own fingerprint. `normalize_content` keeps a-z and 0-9 only,
so texts in Ethiopic script without digits share one fingerprint
(`content_fingerprint_service.py:158`).

*LLM queue and alerts.* `is_intelligence_processed` expects a dict and gets an asyncpg Record, so the check
against a second call of the model never answers yes (`llm-worker/main.py:1334`,
`test_llm_batch_runner.py:128`). `enqueue` swallows a failed statement and the offset is committed;
`ingest_intelligence_to_clickhouse` swallows a failed
insert and the item is flagged all the same (1305 against 1484). System alerts are never stored: the key
`job-failed:{job}:{event}` (`client.py:1032`) does not fit `alerts.item_id VARCHAR(20)`
(`01_duka_system.sql:528`), and `fail_job` only logs the error, although `Alerts.tsx:272`
promises them. `record_alert` speaks of not raising a duplicate
notification (`alert_service.py:217`), but every repeated analysis is mailed again; one that comes
out below severity 4 leaves the old alert, and an alert that was read stays read when its severity
rises. An analysis that dies between ClickHouse and the alert and fails in all later attempts is
parked without an alert.

*Exporter.* The docstring of `trigger_export` says that the worker picks the pending row up; nothing
reads it. Failures of the stores are only logged, and `is_exported` is set even when Elasticsearch
failed; a failed batch is dropped, not retried. The row of a batch carries the job of its first
item and one folder, although `exports.py:51` says a batch has one site. The first start reads from
`latest` and skips what was published before. A graceful stop that cancels the timer in
the middle of a batch skips the final flush: rows stay pending and buffered items with committed
offsets are lost (all of these end with `wrong > 0` or a kill in `Exporter`).

*Live updates.* `broadcast_job_update` iterates the live set, so a socket that joins or leaves during an
await kills the listener of all jobs until the next connect (`job_status.py:65`). An event between
publish and history, or between replay and registration, is missed or repeated. A lost
`site_finished(failed)` is shown as passed when the job completes. The history keeps the last 500
lines, so the first sites are gone for late joiners, although `job_status.py:155` promises the full picture. A
failed first request for the items of a finished job stops the polling (`JobDetail.tsx:910`; the case
`PageConverges` leaves out).

*Deep worker.* `DEEP_MAX_CONCURRENT_CAMOUFOX` is 2, although the comments at 1201 and 2037 rely on
one launch at a time: the `finally` of one page takes back the environment another has just set. A page whose first navigation failed and
whose retry succeeded is failed all the same. A gate that was not passed has no response and
counts as 200. `rendered_text` is emptied after a login (2451). An exception of the signup handler
is swallowed and a generic login tried, although the comment at 3034 says it fails; a failed signup fails the
whole job, although another says one page must not. A `TimeoutError` inside a page is
taken for the page budget, and a page waiting for a paused job uses its budget up (3510 against 2785).
`generic_portal_login` has no caller.

*Site accounts.* The stored user name is the generated one though the form has no such field. The
retry of a taken name skips the check for a phone number and keeps the colliding name. A
wizard ends in success at the first page without an e-mail, password or text input (see `wizard` above), and as "no signup
form" at one with a text input but neither e-mail, user name nor password, although steps were sent. The two
procedures look for different error markers: "required" and "taken" are none in a wizard (1496), where a page shown
again counts as the next step. A phone number is filled in beside an e-mail or password input only (1285), so a step that asks for
user name and phone is not sent; a select is filled in only under a name the code knows (1093).
A failed sign-up of a later page overwrites the row of an account that works, and
"verification_sent/pending" the status of a finished one, which is then signed up
again; a verification that is not found leaves "success". Two visits sign up with one inbox, whose unread mail
of the domain is anybody's. UNIQUE(email, domain) does not cover the rows without a domain.

*Accounts.* "Only one outstanding code can exist" (comment of `create_user`) fails for two requests at a time. A roll-back deletes
an account that was completed meanwhile. A changed e-mail address stays verified and becomes the user name.
`create_pending_user` makes an active row, its docstring says inactive. `verify_email_token` and the
reset route use the code up before they compare the address. A kill between INCR and EXPIRE makes
a window that never ends. `confirm_signup_code` checks a code and replaces it without marking it used, so two confirmations at a
time may both be served (`auth.py:496`); `CodeUsedOnce` counts the requests that use a code up, and these are not among
them. The DELETE of reset tokens takes every expired row along (`AND ... OR`).

## 4. What is proved

Every theorem holds for all values of the constants that satisfy the named assumptions: any site,
any number of jobs, pages, requests, items, processes and environment events. Where a theorem
assumes more (`ASSUME ... PROVE`), the assumption excludes kinds of events, and the text says what
goes wrong with them. Each proof is a chain of the same form: an inductive invariant, one lemma
per action or per statement, and a last step that lifts them over `[]`.

**`TaskLedgerProofs`**, for every `MaxTasks \in Nat \ {0}`:

- `LedgerInvariant`: the inductive invariant is `TypeOK /\ Covered /\ NoEarlyCompletion /\
  CompletedHasContent`. `NoEarlyCompletion` is not inductive by itself: from a state with more
  work than the counter says, one settlement completes the job early. `Covered` excludes
  that state, and it is preserved because work is registered by somebody who holds a unit.
- `TypeCorrect`, `CounterCovers`, `NeverCompletesEarly`, `CompletedJobsHaveContent` are its parts.
- `FinishedStaysFinished`: no write to the row changes a finished status.

**`CrawlJobProofs`**: the workers, the API, the watchdog and Kafka around one job, for any site with
finitely many links per page and any assignment of workers (`CrawlAssumption`).

What is outstanding is a sum of three cardinalities: messages that are not settled, links that are
reserved and not yet sent, slots reserved for an escalation or an audio hand-off. The middle of the
proof is `Effect`: every step of a task changes this sum by some `d`, and `Kind(d)` says which
statement on the row goes with it. The environment's steps are treated alike, and `Move` is what
any step does to sum and row. All invariants of the counter are then proved over `Move`, not over the actions.

- `CrawlTyped` (`TypeInv`) and `FinishedIsFinalTheorem` need no restriction: whatever is
  redelivered, lost or settled late, no statement takes a job out of a finished status.
- `CrawlImplementsLedger` and `NoEarlyCompletion` assume `Sound`: no offset is handed out twice
  (`"lag"`), and no publish fails although the broker stored the message (`"ambiguous"`). With either, a
  job can complete early, as *Further disagreements* says. All other failures are allowed. `LedgerInv`
  adds `Caught` (the commit has caught up with the position), so that a crash loses messages
  and never repeats them. The step to the ledger also assumes `Bounded`, that the counter stays below `MaxTasks`;
  this bound exists in `TaskLedger` for TLC only, and the invariant does not need it.
- `ExactCounterTheorem`, `LinksFollowedTheorem` assume `Exact`: also none of the events that
  lose a slot (`"send"`, `"crash"`, `"stop"`, `"budget"`). `LinksFollowed` is not inductive. `VisitedSent` says that a
  member of the seen-set was published or is the very link its finder is sending, `LinksKept` that a
  link of a page that is past extraction was published or waits in somebody's loop; together with an exact counter
  this leaves no link unsent when the last slot is settled.
- `RunningHasWorkTheorem` also assumes that nobody pauses: in a pause the last slot may be settled,
  and the resumed row says running with nothing left (run `resume`).
- `CrashFailsJobTheorem` assumes `Sound`. The exception and the UPDATE that fails the job are separate steps,
  with stops and kills in between, and the UPDATE matches no paused row. `Doomed` is what stays true: the
  job is failed, or the task is still unwinding and holds its slot, or the counter is above what
  is outstanding, so that it never reaches zero.
- `GreenHasContentTheorem` needs no restriction: a completed job has a page in `crawl.raw` or
  `crawl.parsed`, because each worker publishes before it logs `completed`.

About `LinkExtraction` (the same module, since its links are the requests of the crawl), for any URLs (`LinkAssumption`, `CanonicalAssumption`: quoting a segment twice
changes nothing more): `KeyIsFinal` (a key is its own key, so a page that parses queues its links under what they are looked up
by), `KeyIdentifies` (equal keys are the same resource, so deduplication loses no page), `ChildrenInScope` (every child, of
a page that parses or not, lies under the seed and within the limits, and no two children of a page have one key; the child of a page that
parses is its own key), and `RawSeedHasNoChildren`, a defect: under a seed with a segment in another spelling a page that
parses has no children. One that does not parse may have some, hence the assumption `markup.tree`.

**`DiscoveryProofs`**: any number of requests, jobs, seeds and events on submissions and searches.

- The invariant `Inv` is `TypeOK`, what a job looks like at each point of its submission (`JobOK`), what
  the guard had ruled out (`RuledOut`: it has finished, and finished is final), what a call may rely on at each of
  its statements (`CallOK`), that a job is submitted by one call (`OneCall`), and for refused calls and retries
  that their `fail_job` took effect (`FailsOK`).
- `SubmissionTypeCorrect`, `RunningWasSentTheorem` and `DuplicateSuppressedTheorem` follow without restriction;
  `RefusedUnblocksTheorem` and `RetryIsFreshTheorem` assume that the UPDATE in `fail_job` is not swallowed
  (`NeverSwallowed`), since the caller goes on as if it had been written.
- `DiscoveryImplementsLedger`: every job implements the abstract ledger, without restriction. A job that is not yet in the table
  maps to the ledger's initial state; the unit of its submission is held by the call until the
  message is published, and a call that dies loses it. With `TaskLedgerProofs`, no search completes
  before its last seed is settled.

**`AlertsProofs`**, for any set of items and processes and for any batch size, concurrency,
attempt limit and number of faults (`QueueAssumption`). About `LLMQueue`:

- `QueueTypeCorrect`: the type invariant.
- `OneHolderTheorem`, for each item none of whose analyses has outlived its lease
  (`"slow" \notin hit[i]`; other items may have). `HolderInv` adds that
  the lease of a row that is worked on has not run out; without it the scan of another process could take back
  the row of a living holder.
- `ParkedStaysTheorem`, an action property, for the same items and from the same invariant: who settles an item works on
  it, so its row is `processing` and not one that somebody else has parked.
- `NothingDroppedTheorem`, for each item whose own enqueue statement did not fail. `OwnedInv` says it of messages that are
  read and not yet committed too, and that the analyses a batch clears have an answer.
- `AttemptsBoundedTheorem`, if no analysis at all outlives its lease (`"slow" \notin Faults`). `AttemptsInv` says where
  the slack of an attempt is: a row that may be claimed again has one left, an analysis knows the
  number its row has, and whatever returns a row with its last attempt used up is a counted fault.
- `FlaggedLandedTheorem`, for each item whose own insert into ClickHouse did not fail (the code logs the error and
  goes on). `IngestedInv` carries the result through the step between insert and flag.

The run `llmleases` allows slow analyses and shows that nothing is dropped, that the attempts stay
bounded and that everything is settled even then, for one item and at most two events.

About `Alerts`: `AlertMirrorsTheorem` and `OwnerToldTheorem`, for any number of processes and items. `FeedInv`
says of each item that its analysis is the only one at work on it, that ClickHouse has its verdict while the alert is being
raised, and that alert and mail agree with it from then until the row is cleared. Excused is an item whose own insert or
upsert failed or whose analysis outlived its lease and, for the mail, one whose own mail failed, as in the properties.

**`AccountsProofs`**, for any number of requests, users, codes and sessions (`AccountsAssumption`): the
invariant `AccountsInv` consists of what a request may rely on between two statements (`RequestsOK`), the rows
(`RowsOK`), the codes (`CodesOK`) and what ties sessions to accounts and accounts to codes (`LinksOK`). `Grow` is what
every step does to the accounts: a deleted row stays deleted, a verified one stays verified, and an address
changes only if it was proved.

- `CodeUsedOnceTheorem`: one request uses up a code, whatever happens between the check and the conditional UPDATE
  that marks it.
- `SignedInProvedTheorem`: a live session belongs to a verified account, and that to somebody who entered a code issued for it.
- `EmailUniqueTheorem`: no two accounts share an address, on which `complete_user_creation` relies.

**`DeepPageProofs`**, for any number of pages, slots, attempts, forms and situations (`DeepAssumption`, `SiteAssumption`):

- `SlotsReturnedTheorem`: free slots and pages that hold one add up, by the cardinality of the set of holders.
- `ChallengeNeverStoredTheorem`: no interstitial of any language is stored as the page.
- `KnownFormsAreSentTheorem`: for any form, its inputs in any order over any number of steps of a wizard, and
  whatever the site says meanwhile, a form is refused only if one of its pages asks for something `Unfillable`: an input no helper knows,
  on a later page also a select of an unknown name, or a phone number on a page without an e-mail or password input.
  The invariant is small; the work is in the lemmas on `ByHeuristics`, `WizardFills` and the first step a wizard stops at.

**`ContentPipelineProofs`**, for any items, texts, sites, parsers, batch size, bounds and number of
restarts (`DedupAssumption`, `PipelineAssumption`), in both parts and their composition. The inductive invariant
`PipelineInvariant` is the conjunction of the parts below; a step of one part leaves the invariant of the other alone.

- `TypesTheorem`: the types of both parts.
- `BatchAccountedTheorem`: `Kept(k)` counts where delivery `k` of a message is: its occurrences in the buffer, in the batch
  a coroutine has taken and not yet given a row, and in the rows. `BatchInv` says that this number never exceeds
  `given[k]`, how often the broker handed `k` out, and equals it while nothing went wrong. `ReadInv` says when a message is given
  again: offsets above the position were not given to this consumer. Loop and timer share one buffer, and a batch leaves it before the first
  await of `_export_batch`; a batch that stays there meanwhile is counted twice.
- `CompletedIsWholeTheorem`: `Owns` says of a coroutine between `create_export` and the final status that the row it
  holds exists and carries its batch, and what it has uploaded by then; `OwnersApart` that loop and timer hold
  different rows; `WholeRow` what a completed row has. A deleted export is no longer completed, and its files stay.
- `CopyDroppedTheorem`: `NoCopy` would not be inductive on its own, as the parser repeats the look-up of the crawler
  and the rows in between may come from redeliveries: `Passed`, `Unmatched` and `Unseen` carry what an
  item has already established about the fingerprints that were fresh before its crawl began.
- `DropsAccountedTheorem`: a page is dropped because of a row, so the invariant (`DropInv`) gives every
  original row that was not misread an *author*: a page with the row's text that is not dropped, unless there is a `Later` row
  close to this one. The checks of the parser return the newest of the closest rows, so what they find for the author of
  a row is that row or a later one. Of the rows like a page of a circle of drops, the newest one has no later row, so its
  author is not in the circle. Stale rows, pages without a fingerprint of their crawler and texts that crawler and parser read
  differently are all covered; a row with a misread text has no author, and the property says so.
  The assumption `OwnIds` is that nothing is redelivered, or no page is crawled twice in one job: the second
  crawl goes on under the item_id of the first, and may be dropped for the fingerprint it stored itself. `DedupAssumption`
  says of the distances only what SimHashes satisfy: symmetric, 0 between equal texts, and 0 means equal hashes.

**`PageProofs`**, for any pages, situations, answers of servers, length of the history, connections and messages:
`PageInvariant`, with three parts that rest on each other.

- The worker runs *scripts*, so the invariant is about the rest of a script: `Fine(p, script, facts)` says that every step finds
  done before it what it needs - a "failed" told needs a `failed`, `skipped` or `escalated` row, a document sent needs its
  original. `Gives` is what a step establishes, `Ready` what it needs. Each script of the source has a lemma (`...Sound`),
  so the order of its awaits is checked one by one; `CrawlInv` then says that the rest of every page's script is sound for the facts of the
  current state. `Grow` is what every step of the system does to facts: rows of the log, originals and faults only grow.
- `ToldInv`: whatever is in the channel, in the history, in the listener's hand, in the replay of a socket, or
  shown, has been logged. This makes `ShownIsLoggedTheorem` independent of reconnects, redelivery and the order of events.
- `ParserInv`: a message about a document names its original, an archived name is never given other bytes while the
  parser has it. `OriginalKeptTheorem` follows, message by message: a document whose upload failed is sent without a path,
  every other keeps its original, whatever other uploads fail.

`FullPictureTheorem` has its own inductive invariant, `PictureInv`, on top of `PageInv`:

- `TellInv` is about what scripts *tell*. `Leads(p, script, q)` says that from the point `q` - site open or closed and how,
  lines told so far, last row logged, whether the worker may still raise - the rest of a script leaves the site closed
  with the colour its last row asks for, and tells at most six lines. There is again one lemma per script (`...Leads`), and one for
  each step of a page (`...Tells`). `Going` ties the point to the history: the last line of an open site, and the last two
  of a closed one (`Opened`, `Closed`), are still there.
- That these lines survive `Trim` is the part about numbers (`RoomForTwo`, `TrimHolds`). When the list is full, the line that goes
  is the oldest; if it were one of the last two of a site, all others would be lines of other pages, and there are
  too few of those. Hence the hypothesis `Roomy`: `JOB_HISTORY_MAX_LINES >= 2 + 12 * (Cardinality(Page) - 1)`. Twelve is six lines of a
  delivery and six of one before a kill, as the model has at most one kill. The code's 500 lines
  have room for 42 pages. The bound is sufficient, not tight; without one the property is false.
- `LateInv` follows a browser that came when all was told: nothing is published any more (`QuietStays`), so the replay of its socket
  is a suffix of the history, and what precedes the suffix is shown (`Replayed`). At the end of the replay the suffix is empty.

The proof of `ShownIsLogged` found a flaw of an earlier version of the model, in which a redelivery forgot that the dark worker had crashed on a page
(`crashed`), so that with a second fault `ShownIsLogged` was false; the instance allowed one fault only. `Deliver` keeps it now, and the
run has a situation with two.

**Only model-checked.**

- Liveness (`EventuallyFinished`, `NeverStuck`, `EventuallySettled`, `WindowEnds`, `EventuallyExported`,
  `PageConverges`): the prover treats neither fairness nor ENABLED.
- `StoredExists` is refuted by its run, as `ResumeContinues` is.
- `FullPicture` where the history has less room than its theorem asks for: of a larger job the first sites may be
  gone for a late browser (see *Live updates* above).

## 5. What is not modelled

- Fetching, HTML, parsing, language detection, prompts, embeddings, Whisper, selectors and typing in browsers: data, or a
  step with a free outcome.
- RedisBloom: the compose file runs plain Redis, so `dedup_service` uses its SET fallback.
- The inline mode of the llm-worker (`LLM_QUEUE_ENABLED=false`) and the Groq batches, whose two
  entry points have no caller in this commit.
- Pages without a text and a status of 400 or more, which the parser stores but does not publish.
- Why a crawler and the parser extract different texts from a page: `crawled` and `extracted` are constants of
  `ContentDedup`, and the run gives one page different ones.
- Feeds, the inference of layer and source type, and `is_safe_fetch_url` in link extraction.
- The feed of alerts (routes, read marks) and system alerts, which are never stored.
- Politeness pacing and proxy scores; the semaphore around the pause gate, by which pages of paused jobs
  delay those of running ones (`surface-worker/main.py:675`) but lose none.
- The timeline events of the deep worker, the texts of mails, which user may see which job.
- Dashboards, scripts, reporting queries and the rest of the user interface: no state that the control depends on.

## 6. What is left

A model of the semaphores of the crawl workers over several jobs is the one part of the core that is missing; no
sentence of the repository promises a bound for it. Of the proofs,
what is left are the types of `DeepPage` and `Accounts`, proved only as far as the invariants use them. A longer term: a
refinement of `CrawlJob`'s page steps by `CrawlPage`, which share their source but not their state.
