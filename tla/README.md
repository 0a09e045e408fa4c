# Wealthfinder: a TLA+ development of the news pipeline

Wealthfinder turns financial news into scored market events. Two asyncio
services do the work, connected by Redis streams and two Postgres databases:

    crawl ──raw_news──▶ clean ──stream:raw_news_cleaned──▶ entity analysis
          SADI (stock-assistant-data-ingestion)              │
                                                             │ stream:entity_event_completed
    scores ◀── score ◀──stream:event_aggregated── aggregate
          SAPI (stock-assistant-pipeline-intelligence)

This directory holds TLA+ models of the parts whose correctness lies in the
order of things: what happens when a call fails half way, a message comes
twice, a process dies between two writes, or two tasks read what the other
writes. Of the experiments under `src/poc`, which no service imports, only the
name matcher is here: the stock list's search was written from it.

## 1. Inventory

| Component | State it keeps | Operations | Hard behaviours | Correct when |
|---|---|---|---|---|
| Crawl service and crawlers (`crawl/`) | `raw_news`, `crawl_error_log`, `stream:crawl_completed` | execute one source: collect, fetch pages with retries, persist, log errors, publish | four sources that fail in different places, partial success, a publish that fails after the commit, retry of a write whose reply was lost | only a failure or a stop keeps a stored article from being announced; a success is stored; every execution reports |
| Cleaning service (`cleaner/`) | `cleaned_news`, pending entries, worker queue | read, reclaim, process one record, publish | redelivery to a second worker, crash between insert and publish | each raw article is cleaned and announced, at most once in the table |
| Entity analysis layer (`entity_analysis/`) | `entity_events`, in-flight ids, slots of the worker pool, back-off time | read, reclaim, analyse with the LLM, persist, announce, dead-letter | rate limits, retries, crash between persist and announce | each article has its EntityEvents once and all are announced, or it is dead-lettered |
| Entity analysis skill, LLM adapter, news client (`skills/`, `llm/`, `clients/`) | none between calls | fetch the article, ask the model, verify what it found against the stock list | which failure is final, which is retried, which backs the pool off; one stock found twice | only an article that is not there is given up; one stock gets one EntityEvent |
| Stock list (`common/hk_stock_list.py`, `hk_stock_list_sync.py`) | the cached list and its name index | load, refresh, search by name | overlapping refreshes, three documents that may be of different days, names that contain each other | a reader sees one refresh's list; a listed name finds its stock or nobody |
| Aggregation layer (`aggregation/`) | the in-flight set, group queues, the state Redis (one active Event per group, with a TTL), `_last_flushed` | route, reclaim, merge, flush, announce, dead-letter | order of arrival, redelivery, expiry against flush, concurrent persisters, crash at every await | every EntityEvent is in one Event, what is acknowledged is never lost, every committed version is announced |
| Group pool (`group_coroutine.py`, `_get_group`) | live groups, permits | get or start, enqueue, idle out, close | idle-out against enqueue, permit starvation | one coroutine per group, no work lost, permits returned |
| Event tables (`persistent/event_repository.py`) | `events`, `event_entity_map`, `published_aggregation_updated_at` | upsert if newer, map, select unpublished, mark | stale writers | rows only grow, and agree with the memberships |
| Scoring layer (`scoring/`) | `event_scores`, pending entries | read, score one Event, write if not stale, announce | re-aggregation between the reads and the write, failures without retry | a stored score belongs to one version of its Event |
| Rule score (`scoring/rule_score.py`, `models/event_score.py`) | none | weight the sources, aggregate the sentiments, score, fuse | more sources than are active, unknown sources, sentiments that cancel out | each dimension in its range, no report lowers a score |
| Layer supervisor and health (`main.py`, `layer_tasks.py`, `health.py`) | tasks, the shutdown flag, the exit stack, the abandoned probes | start, restart after a crash, cancel, close in reverse; probe | restart against shutdown, loops that end one by one, a probe that hangs | no loop runs on closed clients, no layer runs twice, a crashed one comes back, shutdown ends |
| SAPI and SADI stream clients (`redis/stream_client.py`) | the streams, pending entries | read, claim, acknowledge, publish, dead-letter | at-least-once delivery, outages | the layers above are correct on top of them |
| Database clients (`db/connection.py`) | the pool | read, retried write, transaction, bounded close | a lost reply, cancellation at any await, a connection that never comes back | a call takes effect as a whole or not at all, and gives its connection back |
| HTTP routes and configuration | none | `POST /v1/crawl`, `GET /v1/cleaned_news`, `GET /v1/health`, the sync route, environment variables | | they hand over to the components above |

Components interact by stream messages (at-least-once, with consumer groups,
acknowledgements and claiming of pending messages), by rows they read from
shared tables, and, inside a service, by callbacks and shared objects on one
event loop: code between two awaits is atomic.

## 2. Modules

| Module | Models | Role |
|---|---|---|
| `SlidingWindow` | `aggregation/sliding_window.py` | the pure decisions: extend or replace, late, time to live |
| `EventTables` | `persistent/event_repository.py` | the SQL statements as operators on rows |
| `EventLedger` | | abstract: what the tables and the announcements promise |
| `Aggregation` | `aggregation_consumer.py`, `aggregation_service.py`, `event_aggregation_store.py` | the Aggregation layer, await by await |
| `RuleScore` | `scoring/rule_score.py`, the fusion in `scoring_service.py` | the score's arithmetic, in scaled integers |
| `EventScore` | what Scoring reads of `events` and `event_entity_map` | the scores of the rows the Aggregation layer writes |
| `GroupQueues` | | abstract: one first-in first-out queue per group, one unit of work at a time |
| `GroupPool` | `group_coroutine.py`, `AggregationService._get_group` | the pool of group coroutines and its semaphore |
| `EventFeed` | | abstract: Events change, are announced, are marked; what a reader of `stream:event_aggregated` may rely on |
| `Scoring` | `scoring/`, `persistent/event_score_repository.py` | the Scoring layer against re-aggregation |
| `EntityAnalysis` | `entity_analysis/`, `persistent/entity_event_repository.py` | the Entity Analysis layer: loops, tasks, worker pool, analysis |
| `Upstreams` | `clients/news_client.py`, `llm/vertex_adapter.py`, `GET /v1/cleaned_news` | what each reply of SADI and of the model is taken for |
| `StockNames` | `hk_stock_list.py`, from `_normalize` to `_search` | the name index and the search |
| `SubsequenceMatcher` | `src/poc/sapi/fuzzy-match/subseq.py` | the reference the search is compared with |
| `StockList` | `hk_stock_list.py`, `hk_stock_list_sync.py` | the refreshes of the list, await by await |
| `StockSearch` | `skills/entity_analysis_skill.py` | the verification of the model's answer, on every list that comes to be loaded |
| `DbCall` | | abstract: what a call of a database client promises |
| `DbClient` | `db/connection.py` of SAPI | reads, retried writes and transactions over a pool |
| `LayerSupervisor` | `main.py`, `layer_tasks.py` of SAPI | startup, crashes, restarts, shutdown |
| `Service` | the SAPI process with `health.py` | supervisor and database client composed, and the probes |
| `NewsStore` | `raw_news` and its stream, as both services of SADI use them | the table, the announcements and the calls that fail |
| `Crawl` | `crawl/crawl_service.py`, `base_crawler.py`, `hkex_`, `aastocks_`, `yahoo_hk_` and `mingpao_crawler.py`, the repositories they write | crawl executions: find, check, fetch, persist, announce, report |
| `Cleaning` | `cleaner/cleaning_service.py`, `stream_handler.py`, `cleaned_news_repository.py` | reader, reclaim loop, queue and workers |
| `Ingestion` | `main.py` of SADI | crawling and cleaning composed: one process, one Postgres, one stream Redis |
| `AggregationMC`, `EventScoreMC`, `GroupPoolMC`, `ScoringMC`, `EntityAnalysisMC`, `StockSearchMC`, `ServiceMC`, `IngestionMC` | | the small instances TLC checks |
| `Aggregation_proofs`, `AggregationSafety_proofs`, `GroupPool_proofs`, `Scoring_proofs`, `Ingestion_proofs`, `EntityAnalysis_proofs`, `Service_proofs`, `StockSearch_proofs` | | theorems and proofs |

How they compose:

    EventScore ──extends──▶ RuleScore
        └──extends──▶ Aggregation ──extends──▶ EventTables ──extends──▶ SlidingWindow
                        │     │
                        │     └──implements──▶ GroupQueues ◀──implements── GroupPool
                        └──implements──▶ EventLedger ──implements──▶ EventFeed ◀──extends── Scoring

    Ingestion ──extends──▶ Crawl, Cleaning ──extend──▶ NewsStore

    EntityAnalysis ──extends──▶ Upstreams       (between Ingestion and Aggregation)

    StockSearch ──extends──▶ StockList, SubsequenceMatcher ──extend──▶ StockNames

    Service ──extends──▶ LayerSupervisor, DbClient;   Service ──implements──▶ DbCall

- `Aggregation` does not model permits and idle timeouts: a group's coroutine
  is always there. `GroupQueues` is what it takes for granted. `GroupPool`
  provides it (`PoolIsQueues`, also checked) and `Aggregation` uses no more
  (`GroupsAreQueues`).
- `Scoring` does not model merges and flushes: `EventFeed` is what it takes for
  granted of the Aggregation layer. `Aggregation` implements `EventLedger`
  (`LedgerIsKept`, also checked) and `EventLedger` implements `EventFeed`
  (`LedgerFeeds`). So what is proved of Scoring holds on top of the Aggregation
  layer as modelled, for every value of the constants.

### From the code to the models

**What a step is.** Both layers are asyncio programs: only an `await` that
suspends lets another task run. One action is the code from one such point to
the next, and `pc` says at which await a task is suspended. Where several awaits
have no one to interleave with they are one action: `scan_all` (its keys belong
to different groups) and the two statements of a transaction.

**Aggregation.** The processes are `_consumer_loop` (`Consumer`),
`_reclaim_loop` (`Reclaimer`) and one coroutine per group. `batch` is what a
loop has left of what it read; `queue[g]` the closures enqueued for a group;
`base` and `updated` the locals `active` and `updated` of `_merge`;
`snapshot`, `outbox`, `current` those of `flush` and `_persist_and_publish`;
`enqueued` and `lastFlushed` the fields `_enqueued` and `_last_flushed`.
`active` and `ttl` are the state Redis, `stored`, `owner` and `published` the
tables `events`, `event_entity_map` and the outbox column, `unread`,
`deliveries` and `dead` the stream with its group's pending entries. `merged`,
`late` and `announced` are history variables.

| Code | Actions |
|---|---|
| `read_from`, `autoclaim` | `Read`, `ReadNothing`, `Claim` |
| `_route`, `_route_one`, `process_entity_event` | `RouteToDeadLetter`, `SkipInFlight`, `RouteOne`, `EnqueueMerge`, `FindNoRow`, `FetchFails` |
| `dead_letter`, `ack` | `PushDeadLetter`, `AckRouted`, `AckRoutedFails`, `AckMerged`, `AckMergedFails` |
| `on_success`, `on_failure`, the `except` clauses of `_route_one` | `Settle`, `FailMerge`, `Released` |
| `_merge` | `GetActiveEvent`, `SkipMerged`, `SkipLate`, `Merge`, `UpsertActiveEvent`, and its failures `CheckFails`, `UpsertFails` |
| `flush`, `_persist_and_publish` | `ScanAll`, `PersistEvents`, `SelectUnpublished`, `Publish`, `MarkPublished`, `ScanFails`, `PersistFails` |
| `start`, `lifespan`, `close` | `CrashLayer`, `Shutdown`, `FinalFlushTimesOut`, `Exit`, `Crash`, `StartLayer` |
| the clock and Redis | `Tick`, `StreamDown`, `StreamUp` |

`aggregation_updated_at` is a wall clock reading; the model keeps its order
only, a version counted per Event. A delivery count is capped at
`AGG_MAX_RETRY`, where it stops making a difference. A database call is one
step with one outcome: that the client's retries and transactions may be taken
for that is what `Service` shows of `DbClient` (`ImplementsDbCall`). A write
that was applied but whose reply was lost is the failure of the step after it.

**Time** passes in flush intervals (`Tick`). A tick is pessimistic: at most one
flush starts in an interval, and a key's time to live is rounded down to whole
intervals. An interval passes without a flush (`overdue`) only where the code
allows it: the layer is not running, the stream Redis cannot be reached (the
loop sleeps and continues before its flush), or the consumer loop waits for a
group's permit.

**GroupPool.** The callers are the two loops; `pool` is `_groups`, `state` and
`job` say where a `GroupCoroutine._run` is. `asyncio.Semaphore` is modelled as
Python 3.12 implements it: first-in first-out waiters, a released permit is
handed to the first waiter not woken yet, a woken waiter removes itself when it
runs and hands out what is free, and the semaphore is locked while anyone waits.
`get()` on a queue that is not empty does not suspend, so `FinishWork` takes the
next unit at once. A timer can fire after work was enqueued (`TimeOut`).

**Scoring.** One replica (`docs/system-design.md` §13.2), one loop, messages
one by one. `expected` is the version `fetch_event` returned, `constituents`
the version whose EntityEvents `fetch_constituents` saw; `score` holds both for
the stored row. A score is told apart by the versions it was computed from; its
arithmetic is `RuleScore`'s. Failures: a call raises and the message is
left pending (`CallFails`), a committed write whose reply is lost
(`WriteReplyLost`), a failed acknowledgement that drops the rest of the batch
(`AckFails`), a lost reply of the read, an exception that ends the task, a
restart. There is no reclaim loop in this layer, so `stranded` messages stay
pending for good; `docs/impl-plan.md` defers it.

**EntityAnalysis.** The processes are the tasks that `_route_batch` gathers,
one per loop and message: `task[<<l, m>>]` is the place in `_route`, `dispatch`
or `find_entity_events`, `hand` the stocks it is to store, then to announce. The
pool is `line`, the first-in first-out waiters of its semaphore, the tasks in
`Held`, which have a slot, and `backoff`. Message ids and `cleaned_id`s are kept
apart (`CleanedOf`), and so are `cleaned_id`s and articles (`SourceUrl`): SADI can
store two `cleaned_news` rows of one article, as `Ingestion` shows, and then two
messages reach this layer whose in-flight ids differ and whose rows collide.

| Code | Actions |
|---|---|
| `_consumer_loop`, `_reclaim_loop`, `_route_batch` | `Read`, `ReadFails`, `Claim`, `ClaimFails`, `EndBatch` |
| `_route`, `_push_dead_letter`, `_process_one` | `RouteToDeadLetter`, `PushDeadLetter`, `AckDead`, `AckDeadFails`, `Skip`, `Dispatch` |
| `WorkerPool` | `TakeSlot`, `StartWork`, `EndBackoff`, and `AnalysisFails` for `trigger_backoff` |
| `find_entity_events` | `FetchCleanedNews`, `FetchCleanedNewsFails`, `FetchExisting`, `FetchExistingFails`, `Analyse`, `Persist`, `Publish`, `PersistFails` |
| `_analyse` | `Ack`, `AckFails`, `AnalysisFails` |
| `fetch_cleaned_news`, `generate_structured` | the operators of `Upstreams` that say which reply means which error |
| `refresh_hk_stock_list` | `LoadList` |
| `lifespan`, `_make_monitored` | `Stop` |

What the model finds in an article is any set of listed stocks, and another one
at every analysis. A message may be claimed at any time it is pending: how long
it has been idle is left out, because a message that waits for a slot or a
back-off can be idle for any time. `nothing` is a history variable.

**Ingestion.** Crawling and cleaning share one process and meet in the table
`raw_news` and the stream `raw_news_inserted` (`NewsStore`). An article stands
for its `source_url`, its row and its message; two articles with one title
share a `raw_hash` (`TitleHash`). In `Crawl` any number of executions run side
by side: `crawl[x]` is the place in `CrawlService.execute`, `page[x][a]` the
worker of one article, `left[x]` the results not persisted yet, `hand[x]` the
row inserted and not announced yet. In `Cleaning`, `queue` is the
`asyncio.Queue`, `worker[w]` the place in `process_record`, `pending` the
entries of the consumer group; `cleanedNews` and `announced` count rows and
announcements per article, because the code can make a second one.

| Code | Actions |
|---|---|
| `POST /v1/crawl`, `execute` | `PostCrawl`, `PublishSuccess`, `PublishSuccessFails`, `PublishFailed`, `PublishFailedFails` |
| a crawler's `run`, by its `source` | `CollectAnnouncements` (HKEX), `ExtractArticleUrls` (AASTOCKS), `ReadEntries` (YAHOO_HK), `ReadDescriptions` (MINGPAO), `DiscoverFails`, `CheckCoverageGapFails`, `ReturnResult` |
| a page, where the source has pages | `CheckErrorLog`, `ProcessEntry`, `CheckErrorLogFails`, `AcquirePermit`, `FetchPage` (`FetchOnePdf`, `FetchOneArticle`, `FetchOneEntry`), `RetryPage`, `FetchPageRaises` |
| `_persist_errors`, `_persist_successes` | `SaveCrawlError`, `InsertRaw`, `PublishInserted` and their failures |
| `_stream_reader`, `_reclaim_loop` | `ReadMessage`, `ReadMessageFails`, `ReclaimLost`, `ReclaimOverdue` |
| `_worker`, `process_record` | `Take`, `FetchRawNews`, `MarkDeleted`, `AlreadyCleaned`, `InsertCleanedNews`, `PublishCleaned`, `Ack`, `WorkerFails` |
| `lifespan` | `Restart` |

A failing call is one step after the client's own retries. It leaves open
whether the write was applied, because only its reply may be lost. `XAUTOCLAIM`
knows how long ago a message was delivered and not whether a worker has it:
`ReclaimLost` claims one the process no longer has, `ReclaimOverdue` one that it
still has, and counts that per article. MINGPAO's feed has the text itself:
nothing is fetched. YAHOO_HK reads the time of its last row in `raw_news` after the
feed and before the pages, for a coverage warning; when that read fails the run ends
(`CheckCoverageGapFails`). So it does when a worker raises: its read of the error log
failed (`CheckErrorLogFails`), or the fetch has no result for what came, say a date
that is none (`FetchPageRaises`).

**Service.** `life` is where the process is, `opened` how many resources the
exit stack holds; it unwinds them in reverse. A layer's task is its loops, in one
`TaskGroup`: `loops` holds those that have not ended, with the number of the
start they belong to (`run`), `doomed` those that were cancelled. The done
callback and the restart timer each take a turn of the event loop of their own
(`callback`, `timer`). Of the database client, `at` is the await a call is
suspended at, `conn` whether it has a connection, `pending` the statements of its
open transaction, `written` those that took effect. `abandoned` is
`_abandoned_probes`.

| Code | Actions |
|---|---|
| `load_config`, `create_*`, `lifespan` | `OpenResource` (`load_config`, `create_db_client`, ...), `StartupFails`, `StartLayers`, `Shutdown`, `Unwind`, `CloseDb`, `DbCloses`, `Exit` |
| `_make_monitored` | `OnDone`, `Restart` |
| a layer's `start()`, its TaskGroup | `CrashLoop`, `EndLoop`, `LoopCalls`, `LoopCancelled` |
| `get_health`, `_check`, `_abandon`, `_discard_abandoned` | `GetHealth`, `CheckEnds`, `Abandon`, `ProbeCancelled`, `Discard` |
| `fetch_*`, `execute`, `_begin` in `_db_write_with_retry` | `Acquire`, `AcquireRefused`, `AcquireFails`, `StatementDone`, `StatementRejected`, `StatementLost`, `BackoffEnds` |
| `transaction` | `BodyStatement`, `BodyRaises`, `BodyExits`, `Commit`, `CommitLost`, `Rollback` |
| cancellation, `close` | `Cancel`, `ClosePool`, `PoolCloses`, `CloseTimesOut` |

**StockList and StockSearch.** The processes are the refreshes: the lifespan's,
and one per request to the sync route. A refresh is suspended at its three GETs
and while a thread parses or indexes (`at`); HKEX may publish its next documents
in between (`Publish`), so `read` says which publication each document is of.
`cache` is `_hk_stock_list_cache`; its index is computed from `indexed`, the
entries it was built from. `before` and `loader` are history variables. A name is
a sequence of words, an English word a sequence of letters and a run of Chinese
characters one word; the words that are suffixes or generic are constants. Scores
are shares in units of 1/2520, so that fractions compare exactly. `Code` is finite
(a code has five digits); published names and the names looked up are texts (`Text`):
any number of English words, or one word.

| Code | Actions and operators |
|---|---|
| `refresh_hk_stock_list`, the sync route | `Begin`, `Load`, `Reload` |
| `_fetch_and_filter_hk_stock_list`, `_get` | `Get`, `ConnectFails`, `GetFails` |
| `_parse_hk_stock_list` | `Parse`, `ParseFails` |
| `_normalize`, `_name_variants`, `_build_name_index` | `normalize`, `name_variants`, `build_name_index` |
| `_search`, `name_matches_stock`, `_score` | `search`, `name_matches_stock`, `score` (`ChineseScore`, `LatinScore`) |
| `llm_process`, `_verify_entity` | `llm_process`, `AddEntity`, `verify_entity` |

**EventScore** adds no step: `RuleScore` is evaluated for every row that
`Aggregation` writes, with the memberships that stand beside it.

## 3. Plan

The modules were written in this order: the sliding window and the Aggregation
layer; the group pool; the Scoring layer; the ingestion service; the Entity
Analysis layer; the database client, the supervisor and their composition; the
stock list and its search; the rule score.

The proof worth having next: `RowsMatchMemberships` of `Aggregation` without the
hypothesis on expiries. It takes one interval more than `GraceLosesNothing`: when a
key expires while the last flush still holds what it read, nothing is lost, but a
redelivered EntityEvent may start a second Event.

Left to model: the pool of the SADI database client, whose calls enter `NewsStore`
as "applied or not" (`DbClient` shows why that is enough for the SAPI one, which
the SADI one resembles, without transactions); the response of the health route;
text normalisation; a composition of the layers' abstract specifications, from a
raw article to a score.

## 4. What is checked

| Run | Instance | Shows |
|---|---|---|
| `aggregation_replace` | `EventScoreMC`: 3 EntityEvents of one stock at 0, 2 and 5 with window 3 and cap 5, so that the third bridges, extends or replaces by order of arrival; 2 deliveries, 1 dead letter, 1 failing call | no Event has a silence inside; the tables are the append-only ledger; the score of every row written is in range and never falls |
| `aggregation_groups` | 2 groups, 3 messages, one without a row, 1 stop, shutdown or crash anywhere | an outbox with two Events, of which `_last_flushed` hides none; acknowledged merges survive |
| `aggregation_live` | 1 message, 3 deliveries, 1 failing call, 1 outage and 1 stop together, keys that expire, fair | no in-flight entry is left behind, and only a failing ack leaves a merge unguarded; acknowledged only when merged, and in one Event only when redelivered after its Event expired; every message settles, every committed version is announced |
| `group_pool` | 2 loops, 3 groups, 5 units of work, 2 permits, 1 stop | permits are conserved, one coroutine per group, nothing lost to an idle timeout, every unit of work runs |
| `scoring` | 2 Events, 2 writes of rows (of one or both), batches of 2, 1 stray message, 1 failure | a score belongs to one version; what is out of date is owed; only a failure keeps the last version unscored |
| `ingestion` | 2 executions of one site, 2 articles with one title, one of them to be rejected, 2 workers, 1 failing call, 1 stop, 1 overdue claim | what is acknowledged is cleaned or rejected; only a failure or a stop silences an article; a second cleaned row takes a claim under a worker's hands; `SUCCESS` means stored or logged |
| `ingestion_live` | 1 execution of HKEX, YAHOO_HK or MINGPAO, 4 articles, 1 worker, 2 fetches of a page, 2 failing calls, 1 stop, 1 overdue claim, fair | every announced article settles; every undisturbed execution reports |
| `entity_analysis` | 2 messages, one of an article SADI does not have, 2 stocks, batches of 2, 1 slot, 3 deliveries, 1 failing or rate-limited call, 1 crash or restart, a list loaded or not, fair | one task per `cleaned_id`; what is acknowledged is final; what is stored is announced or has a message that will; every message settles |
| `service` | 2 layers, Aggregation with 2 loops and monitored, Scoring with 1 and not; 2 crashes; a transaction, a retried write and a probe on 1 connection, 2 attempts, 1 lost connection; shutdown or a failed startup anywhere; fair | no loop on closed clients or beside its successor; probes and connections are held; calls are atomic; a crashed layer comes back; shutdown ends |
| `stock_search` | the startup's refresh and 2 requested ones, 3 publications (a delisting, a renaming, new stocks, then no equities at all), 5 codes, one an RMB counter, 2 retries of a connection, 2 failing GETs; 24 names looked up, 5 answers of the model | one refresh's list is shown, older only after an overlap; what it holds; listed names find their stock; the search answers as the measured matcher; one entity per stock |

Two runs show a disagreement between a document or comment and the code
(PROJECT.json, "findings", quotes both sides):

| Run | Property | Disagreement |
|---|---|---|
| `aggregation_expiry` | `KeyOutlivesFlush` | an outage of the stream Redis also stops the flush, so a key of the healthy state Redis can expire with acknowledged, unpersisted merges |
| `ingestion_silent` | `AckedIsAnnounced` | a cleaned row whose announcement failed is taken for done when its message comes again: the message is acknowledged and the row never announced |

More were seen and are not run:

- `_on_success` releases the in-flight guard before it awaits the ack; when the ack
  raises, `on_failure` or `_route_one` releases it a second time, and a redelivery
  routed in between waits in its group's queue unguarded, although
  `docs/implementation.md` has a message "still in the group's backlog" keep "reading
  as already enqueued". `OnlyAckUnguards` names this as the one exception (`AckCut`);
  the duplicate check of `_merge` still keeps the EntityEvent from being merged twice.
- The product requirements admit an Event whose span is exactly the maximum
  (`docs/PRD.md`, "Hard cap"); the code starts a new Event there, and
  `EventsAreCapped` states what the code does.
- `Layer.CACHE` is in the list of layers the health route reads and nothing
  registers a task for it, so the service is at best reported as degraded
  (`health.py`, `layer_tasks.py`).
- `_cancel_layer_tasks` awaits the layers' tasks without a limit. `ShutdownEnds`
  therefore assumes that a layer's calls are answered or fail in the end; only a
  probe may hang.
- Two overlapping refreshes may leave the older list in place, without one being
  told of it; `OlderOnlyByOverlap` says that nothing else can.
- Where one name mixes scripts, or a query keeps a Chinese suffix on an English
  name, the search and the matcher it was written from differ, because the first
  decides the script for each variant and the second for the name
  (`SearchesAsMeasured` leaves such names out).
- `TOTAL_ACTIVE_SOURCES_DEFAULT` is not checked to be positive; 0 would divide by
  zero (`ActiveSourcesAssumption`).
- A YAHOO_HK crawl reads the time of its last row only to log a coverage warning,
  and when that read fails the run ends with what the feed listed, before any page is
  fetched.
- The grace period of a key covers one flush that failed or was cut short, not
  two in a row (`GraceLosesNothing`).
- An announcement that a crash lost is repeated only while the Event's key lives,
  which the design document names as a gap: `CommittedIsAnnounced` holds as long
  as the layer is not down for longer than that (`MaxOverdue = 0`).
- The dead-letter stream is described as "the stream of messages the Aggregation
  layer could not process" (`redis/stream_enum.py:41`); a message can be
  dead-lettered while its EntityEvent waits in a group's queue, and be merged all
  the same.
- In the entity analysis layer a message whose rows were stored and not announced
  can be dead-lettered; `StoredIsOwed` counts the dead letter as the trace of it.
  A message can also be acknowledged on rows another message's task has stored and
  not announced yet; then that task, or the redelivery of its message, owes the
  announcement.
  And two `cleaned_news` rows of one article, analysed at once, can each
  contribute part of its rows.

### Bounds, and why they are enough

- *EntityEvents and messages.* Two EntityEvents are needed to extend or replace an
  Event, three for one that bridges or is late. For more of them, with any window
  and cap, the theorems of `AggregationSafety_proofs` hold. With `AGG_MAX_RETRY = 2` a second
  delivery is dead-lettered; redelivered merges are `aggregation_live`'s, with the
  default 3. `aggregation_replace` does not go on once two messages were dead-lettered
  (`OneDeadLetter`): one is enough to lose an EntityEvent from the middle of an Event,
  or to be merged all the same.
- *Groups.* Groups share only the in-flight set, the stream and the flush; two
  are enough for a flush with two Events. Permits are `GroupPool`'s, with one
  group more than permits and two loops that can wait at once.
- *Window, timespan, flush interval.* Small integers in the proportions of the
  defaults (4 h, 24 h, 300 s): window < timespan, flush interval at most the
  window. With window 3 and interval 1 a key lives 5 intervals. The runs that expect to pass
  have `MaxOverdue = 0`: the layer is not down or cut off for longer than an
  interval. The run `aggregation_expiry`, with `MaxOverdue = 4`, shows what happens
  otherwise.
- *Failures.* `MaxFaults`, `MaxOutages` and `MaxStops` bound how many there are,
  not when; combinations of one each are in `aggregation_live`. That run has one
  EntityEvent, so its `RowsMatchMemberships` is about redeliveries after an expiry or
  a lost reply; for arrival out of order, replacement and concurrent snapshots it is
  proved (`OutlivedRowsMatch`), and `ImplementsLedger` is run in `aggregation_replace`.
- *Ids.* One id more than Events that can be started, so a fresh one is always
  there. `EventIdSymmetry` is used in safety runs only: ids are compared for
  equality alone.
- *Ingestion.* Two executions meet over one title or one address, two workers
  over one message; a third of either adds no kind of encounter. An execution
  asks for a page once or twice (`max_retry`, 3 in the code). One failing call, one
  stop and one overdue claim together reach every loss and every repetition the
  properties speak of; they bound how many there are, not when. One permit
  (`max_concurrent`) makes the second article wait. The two articles of the run
  `ingestion` share a title, so one of them at most is stored; that failures and
  silenced articles are counted one for one, with any number of articles, is proved
  (`SilenceIsCounted`).
- *Entity analysis.* A message meets its own redelivery in the pool, in the table
  and at the retry limit, beside another in its batch; two stocks let an
  announcement stop half way and two analyses differ. Three deliveries (the
  default) are one that fails, one that finds what it left, and the dead letter.
  With one slot (3 by default) the second task waits, also for a back-off; a
  second slot would let tasks of different articles run at once, which share
  nothing then. Two `cleaned_news` rows of one article, analysed at once, are not
  in the instance, to keep it small enough for liveness: the three invariants are
  proved (`EntityAnalysis_proofs`) for any messages, so for those too. A message
  that does not parse is in the model and not in the instance.
- *Service.* One connection is enough for the three calls to wait for each other.
  Two crashes are the one that is restarted and the one of the restarted task. Two
  loops let one end before the other.
- *Stock list.* Three refreshes are the first, which creates the cache, and two that
  overlap on it; three publications let one refresh read documents of three. The
  codes and names hold each kind of name the search tells apart: short, long,
  contained in another, with and without suffixes, of one script and of two.
- *Scores.* One active source with three reporting ones is past the cap; the
  sources are of two tiers and one unknown, the sentiments of every sign.
- *Scoring.* Two Events let a batch hold the messages of both, and of one twice.
  `AnnounceAgain` and `Restart` draw on `MaxFaults` too. The proofs below have no
  such bounds.

A deadlock is checked in every Aggregation run. `GroupPool`, `Scoring`,
`EntityAnalysis`, `Ingestion`, `Service` and `StockList` do stop: when the service
is closed or all groups idle, when nothing is left to score, when all messages are
acknowledged and all executions over, when the process has ended, and when all
refreshes are.

### Fairness

- *Aggregation.* Weak fairness on the steps of the loops, the groups, the
  persisters, the flush and the restart: asyncio runs every task that is ready,
  and the calls are taken to be answered or to fail in the end. The clients bound
  their attempts, but `create_pool` sets no `command_timeout`, so for a statement on a
  connection that stays silent this is an assumption. `Read` is strongly fair: a message that
  is there is eventually what `XREADGROUP` returns, rather than the empty reply
  of an earlier moment. `StreamUp`: an outage ends. Nothing forces a failure, a
  stop, or time to pass.
- *GroupPool.* Weak fairness on each loop's routing and resumption, on each
  coroutine and its idle timer. A group with work does not idle out, but work
  runs out, because only finitely many units are routed.
- *Scoring.* Weak fairness on the task and on the announcement of each committed
  Event, which is `CommittedIsAnnounced` of the Aggregation layer.
- *EntityAnalysis.* Weak fairness on both loops, on every task and on the end of a
  back-off, which is a deadline on the clock. Nothing forces the stock list to
  load: a list that never loads ends every message as a dead letter.
- *Ingestion.* Weak fairness on each execution that was started, on the reader,
  on the claiming of what the process has lost, and on each worker: all are tasks
  of one event loop, their calls are taken to be answered, the loops come round again.
  Nothing forces a crawl to be posted, a page to fail, or a stop.

- *Service.* Weak fairness on the unwinding of the exit stack, on the closing of the
  pool (which is bounded by its own limit), on loops that were cancelled, on the
  done callbacks and timers of each layer, and on the calls of the loops and their
  cancellation: all are tasks and timers of one event loop, and every statement of a
  layer is taken to be answered. Nothing is assumed of a probe. Nothing forces a crash or a shutdown.

## 5. What is proved

All proofs hold for every value of the constants allowed by the named
assumptions, with no bound on faults, messages or Events (the bounds are
arbitrary natural numbers there).

**`Aggregation_proofs`.** `TypeCorrect`: every variable keeps its type through
every kind of step. `TypeOK` alone is not inductive: a step trusts what the
task remembered before its await. `Locals` says what each task remembers at each
await (a loop that routes has a message in hand, a group at `upsert` has an
updated Event, a persister that marks has an Event it announced, what a group
persists is the Event it replaces), and that every Event is shorter than the
timespan, which keeps its time to live a natural number.
`NoEntryLeaks` (`GuardIsHeld`): what is in the in-flight set is in the hands of a loop
or in a queue. `HeldIsGuarded` (`OnlyAckUnguards`): an EntityEvent that is held in one
place and in the set, or in neither, stays so in every step but an ack of it that
fails or is cancelled, and no step leaves an entry behind. The guard is not exact: `on_success` releases it before the
ack, `on_failure` again after it, and a redelivery may have taken it in between. So
both are argued for each EntityEvent on its own (`GuardExact`, `HeldOnce`), by one
case per action (`GuardStep`). `LoopsStop`, that the loops of a stopped layer route
nothing, is an invariant they need: without it a stopped loop could release what the
next one has queued. Counting the places is done once, in `GuardCounts`. `GroupsAreQueues`
(`ImplementsGroupQueues`): every step of a loop or a group is one of the queues or
none of their business.

**`AggregationSafety_proofs`.** Every invariant here is over `TypeInv`; each part
of the module takes the earlier ones for granted.

*Acknowledgements and the outbox.* `AckInv` gives `AckedIsMerged` (`AckedWasMerged`) and `OnlyMergedIsStored`. What is
acknowledged was merged only because nothing unmerged can look merged: a
redelivery is acknowledged without a merge when its EntityEvent is a member of
the active Event or has an owner in the tables. So the invariant follows an
EntityEvent from the task's updated Event into the state Redis, the snapshots
of the flush and the memberships (`CopiesMerged`, `UpdatesMerged`,
`OwnersMerged`), and says of each task about to acknowledge that it may.
`OutboxInv` gives `FlushedWasPublished` (`FlushedIsPublished`) and
`ReplacedWasPublished` (`ReplacedIsPublished`). Neither property speaks of the
outbox, and both depend on it: what is marked is stored at that version or
later (`MarksStored`), what a persister was given is stored when it selects
(`TargetStored`) and from then on is marked, in its outbox, or in its hand
(`TargetDue`). Ids must be kept apart between groups and within a flush
(`Apart`), and a group's active Event must be the one it read (`Replacing`), or
a mark could be another Event's.

*Events.* `WindowInv` says of every Event there is, in the state Redis, in a task's hands, in a snapshot or a
row, that it is good: its span is exactly that of its EntityEvents, it is shorter
than the cap, it has no silence. Neither is inductive alone: an arriving
EntityEvent is compared with `last_seen_at` only, so continuity needs the exact
span. Two lemmas say that a started and an extended Event are good, and one lemma
per kind of step keeps the invariant. Theorems: `EventsAreGood`,
`EventsAreCapped` (`HardCap`), `EventsAreContinuous` (`NoSilence`) and
`ReplacementsAreNewer` (`ReplacementIsNewer`), by the lemma that only an upsert
replaces. The last assumes `SLIDING_WINDOW < EVENT_MAX_TIMESPAN`. The
configuration does not enforce that; the product requirements' ranges (1-12 h,
12-72 h) all but do.

*The ledger.* `LedgerIsKept` (`ImplementsLedger`). A commit can only move
a row forward if every copy of an Event a persister may be given, in a snapshot of
the flush or in a group's local, is a version on one line with the row (`LineInv`):
the row and the snapshots are behind the group's slot, the slot behind what the
group makes of it, and two copies with one version are one. Other groups have no
copy, by `Apart`. A fresh id starts a line of its own, because `uuid4` returns no
id in use. `AnnounceInv` says that a mark does not overtake its announcement.
`LedgerFeeds` maps `EventLedger` to `EventFeed`, and `FeedIsKept` is both together.

*Losses and doubles.* A merged EntityEvent must stay where the next merge of it
looks, in its group's slot or in the memberships (`MergedIsHeld`). Then what `Merge`
takes in is in no other copy of an Event (`WorkIsNew`), so copies that share an
EntityEvent have one id, a copy's EntityEvents are owned by nobody or by it, and a
row has exactly its members (`Exclusive`: `CopiesDisjoint`, `OwnMembers`,
`RowsHold`). `GroupInv` adds that an EntityEvent only gets to copies of its own
group. The one step that can take a merged EntityEvent away is an expiry, and it does
when the key was not persisted: enough failures lead there, which is what the run
`aggregation_expiry` shows of overdue flushes. So `OutlivedLosesNothing`
(`NothingAckedIsLost`) and `OutlivedRowsMatch` (`RowsMatchMemberships`) are stated of
the behaviours in which every key outlives a flush (`KeyOutlivesFlush`): they say that
an early expiry is the only way to lose an EntityEvent or to count it twice.

*Time.* `GraceLosesNothing` (`NothingAckedIsLost`) assumes nothing of expiries, and
bounds failures instead: `2 + MaxFaults + MaxStops + MaxOverdue <= Grace`, where
`Grace` is the shortest life of a key in flush intervals. With the grace period of the
code and lives rounded down to whole intervals that is one failure when the interval
is the unit of time, as in `aggregation_groups`, and none when it is longer and the
rest of an Event's life is not a whole interval; outages, deliveries and everything
else are unbounded. `InTime` says how long a key that is not persisted has left: one
interval for each failure still to come, one if no flush has read it, one if a flush
has already started in this interval. Each tick takes one interval and ends one reason
to wait (`TickInTime`), and a flush that lets go of an Event has stored it or has used
up a failure (`SnapshotFate`). At the limit a key may expire while the flush that will
store it is at work; nothing can go wrong with that flush any more, which is the third
place of a merged EntityEvent (`MergedIsInHand`). With one
failure more TLC finds an EntityEvent lost, with either interval: the grace period
does not cover a second failure in a row.

*Scores.* `ScoresGrow` (`ScoresOnlyGrow`) and `ScoresStayInRange` (`ScoresInRange`).
A row's EntityEvents are finitely many, because each merge adds one to what is merged
(`MergedGrowsByOne`), and of one group (`OneGroup`), which is what gives the row one
event type (`ScoringInv`). Only a persister writes rows, and rows only take in
EntityEvents (`RowsTakeIn`), so a write can add sources and take none away; the
greatest weight of the sources and their number then cannot fall (`AuthorityGrows`,
`HeatGrows`). The sentiment is a quotient of sums over the members. `SumsTogether`
bounds the three sums against each other, whatever order a fold takes its elements
in: the first step at which the bound fails would be a least one, and there is none.
So the mean is in range (`SentimentInRange`), the base score is (`RuleInRange`), and
impact and base score have one sign when they are fused (`FusionAdds`).

**`GroupPool_proofs`.** `TypeCorrect`, `PermitsAreKept` (`PermitPerGroup`),
`PermitsDoNotIdle` (`NoIdlePermit`) and `PoolIsQueues` (`ImplementsGroupQueues`).
The invariant says of the semaphore that a loop waits once, with work, and that only
a waiting loop was handed a permit (`SemaphoreInv`), and of the map that it holds
every live coroutine and nothing else (`PoolInv`); without the second, a coroutine
that idles out could take a queue of its successor with it. `PermitsCounted` counts
the permits while the service is open; after `close()` nobody asks. What a semaphore
hands out is the longest prefix of those who wait that it has permits for
(`HandOut`), so counting takes no recursion. By `OneServes` a group's queue and work
are those of its one coroutine, and each step is then one of the queues or a stutter.

**`Scoring_proofs`.** `TypeCorrect`, `ScoresAreOfOneVersion` and
`OutdatedIsAlwaysOwed`. `ScoreOfOneVersion` rests on `Task`: when the score is
about to be written, `expected <= constituents` and `constituents` is at most the row's version, because
the reads are in that order and versions only grow; so the upsert's condition
`aggregation_updated_at = expected` makes the three equal. `OutdatedIsOwed` needs the
strengthening `Owed` (once announced, an unacknowledged message of that version
is what is owed), and `Ordered`
(published <= announced <= version, no message is ahead of its row): an older
message must not be what the newest version was acknowledged by.

**`Ingestion_proofs`.** `TypeCorrect` and `AckedIsDecided` (`AckedWasDecided`).
A worker acknowledges an article whose row it did not find, and a service that
announced a row before storing it would lose articles there. So the invariant
`DecidedInv` follows an article from the execution's hand to the worker's: what
is announced, or about to be, has a row (`AnnouncedAreStored`); what is pending,
queued or worked on was announced (`HeldWereAnnounced`); and a worker about to
acknowledge has seen or made a decision (`WorkersDecide`). A row and a decision
are never taken back, because an insert needs that no row was there. The lemma
`ProceedEffect` reduces the steps of an execution to the three things cleaning
can notice of them.
Three more theorems count. `SuccessStores` (`SuccessIsStored`): what an execution is
done with and left no trace of is never more than the failed calls (`MissingInv`), as
each failure loses one article. `SilenceIsCounted` (`OnlyFailuresSilence`): a failure
silences one article and a stop those in the hands of its executions and workers
(`SilenceInv`), which is why both are assumed finite. `RowsAreOverdue`
(`SecondRowIsOverdue`): an article is announced once and its message read once
(`OnceInv`), so any further copy in the queue or with a worker was claimed while the
process still had it, and it takes a copy to insert a row (`CopiesAreOverdue`).

**`EntityAnalysis_proofs`.** `TypeCorrect`, `ProcessedOnce` (`InFlightOnce`),
`AckedWasFinal` (`AckedIsFinal`) and `StoredWasOwed` (`StoredIsOwed`). `LayerInv`
says what a task has found out by each of its stages (`TaskInv`) and that the guard
is exact. That a stored row is owed an announcement takes a message to owe it
(`Owes`): one that is not acknowledged and none of whose tasks has looked at the
table without seeing the row, or one that leaves a trace without an announcement. Two tasks may analyse one article, so
the message that owes a row need not be the one whose task stored it first.

**`Service_proofs`.** `NoLoopIsLeftBehind`, `LayersRunOnce` and `NothingLeaks`.
That no loop runs on a closed database is not inductive: it rests on the order of
the exit stack (`Stack`), on no call being under way without a loop that made it
(`CallsHaveLoops`), and on when a task counts as done. `Tasks` says the last: the
loops of a layer are all of its current start, and while its callback or its timer
is due none of them is left, so a restart finds nothing of the earlier task.
`DbInv` says which awaits hold a connection, `ProbesAreHeld` where a probe under
way is referenced. `CallsAreAtomic` (`ImplementsDbCall`) rests on `CallInv`: what is
committed is all of the transaction, and a call that rolled back did not succeed;
every step of one call is then a step of `DbCall` or a stutter.

**`StockSearch_proofs`.** `OneRefreshIsShown`, `OlderNeedsOverlap`, `ListIsKept` and
`ListIsAsPublished`.
The invariant follows a refresh to the list it shows: one that is about to show a
list has a list (`HasList`), what is shown is the list of a refresh that is over
(`ShowsLoader`), and a refresh reads each document at least as new as any refresh
that was over when it began (`ReadsForward`). So a list can only be replaced by an
older one if the two refreshes overlapped. `StartupFirst` is why there is one
cache: requests are taken only after the lifespan's refresh, which leaves a cache
even when it fails. `ListIsAsPublished` (`LoadedAsPublished`) adds that a refresh reads
its documents one after the other (`OrderInv`), so every entry of a list whose
documents are of different publications is still one that was published.

Three theorems are about the search on every list that comes to be loaded. The code's
loops are folds and recursive functions; that they have a value (`FoldExists`,
`RecursionOnInterval`) and what it is are proved by least counterexample over an
interval (`IntervalInduction`). `ListedNamesFound`
(`ListedNamesAreFound`): the variants of a name are texts and finitely many
(`VariantsAre`, `VariantsFinite`), a listed name is among its own, so its exact codes
hold its stock, and the fuzzy pass is never asked (`SearchFindsOne`). `StocksGetOneEvent`
(`EachStockOnce`): each company of an answer adds at most one verified code, and none
that is there (`EntityAdded`, `AnswerProcessed`). `SearchIsAsMeasured`
(`SearchesAsMeasured`) compares the code with the matcher its thresholds were measured
with. The forward pass ends at the first place where any embedding can end, the
backward pass starts at the last place from which that end is reached, so the span is
that of the tightest embedding (`SpanIsTightest`); a name that shares no prefix bucket
scores nothing (`PoolIsCandidates`); and scores are ordered strictly and totally
(`HigherIsTotal`), so the best of the best variant per name is the best of all
(`BestAsMeasured`). The property and so the theorem leave out names that mix two
scripts, where the code and its reference differ (section 4).

Proved and in no run, because a proof says more: `TypeOK` of `Aggregation`,
`Scoring`, `Ingestion` and `EntityAnalysis`, `HardCap`, `ReplacedIsPublished`, `ReplacementIsNewer`,
`StaysLoaded` and `OneCache`.

Model-checked only: the liveness properties, which need fairness and `ENABLED` and are
beyond the prover. Every invariant and action property of a run that holds is stated by
a theorem; `NothingAckedIsLost` and `RowsMatchMemberships` are proved under the
hypotheses above, and where keys expire early, they fail.

## 6. What is not modelled

- Prompting, the clipping of the model's fields, the skill's log, HTML and PDF
  extraction, text normalisation, the wording of HTTP responses and the values of
  settings: they keep no state between awaits, and what matters of them is their
  outcome, which enters the layers above as a choice.
- Within the Aggregation layer: the texts and derived columns of a row other than
  its sources, which are functions of its set of EntityEvents; the value of the wall
  clock (that it does not run backwards between two merges of one group is
  assumed); several replicas, which the design excludes for this layer.
- Within the ingestion service: what a page says (a page is an article, a failure or
  skipped), the browser that turns list pages, the waits between clicks and fetches,
  the order in which an execution takes the articles of a list (left open), workers
  that outlive a failed execution (they only read). `attempt_count` and
  `extra_metadata` of a crawl failure are columns nobody reads back.
- Within the service: the probes of the two Redis, which are like the database's
  and share nothing with it; the creation of the consumer groups.
- Redis and Postgres themselves. A stream delivers each message once to the
  group and keeps it pending until acknowledged; a transaction is atomic; the
  state Redis keeps a key until its time to live is over. Loss of either store
  is outside every model.
- The rest of `src/poc`: experiments no service imports.
