# BoneFI in TLA+

BoneFI collects the transactions of Solana tokens and analyses them for signs
of fraud. These modules model its two backend services and the parts of the
web dashboard that act on them, check them with TLC on small instances, and
prove the safety properties that matter most with TLAPS for all of them.

Paths are relative to the repository root. `DM` stands for
`backend/data-management/src`, `DA` for `backend/data-analysis/src`.

## 1. The system

| Part | Code | State | Operations | Hard behaviour |
|---|---|---|---|---|
| Token store | `DM/api/main.py` 307-464, `DM/db`, `migrate.py` | Redis keys `token:<mint>` and `meta:<mint>`; `batch_jobs` in memory | batch collection, progress, delete, migration | two keys without a transaction; awaits between commands; restarts; expiry |
| List and statistics caches | `DM/api/main.py` 124-210 | `tokens_cache`, `stats_cache` and their times | list, statistics, invalidation by DELETE | lists in the making cross invalidation; age wraps after a day |
| Collector | `DM/collectors/solana_collector.py` | signatures, transactions of one collection | supply, paging, batches, verdict | the chain grows while paging; lost pages; batch timeouts |
| RPC failover | same file, 37-100 | failure counts, semaphore | choose, post, retry, cancel | endpoint chosen before the semaphore; counts cleared by one call for all |
| Rate limit (management) | `DM/middleware/rate_limit.py` | counters in Redis | check | turns of the window, expiry |
| Collection queue | `DM/queue/queue_manager.py` | RQ jobs | enqueue, status, cancel | retries, same job id for the same mint |
| Uploaders | `DM/uploaders` | - | send to analysis | pure I/O |
| Analysis tasks | `DA/api/routes/analysis.py` | `analysis_tasks` in memory, threads | start, run, poll, take | dictionary shared by threads and event loop; one-shot reads; restarts |
| Rate limit and errors (analysis) | `DA/core/rate_limiter.py`, `error_handler.py` | counts in memory | admit, call, call again | handler errors inside the limiter's `try` |
| Stored data for analysis | `DA/core/database.py` | one-slot list cache, history keys | reads with retries, history | answers from old data after timeouts |
| Analyzer | `DA/services/analyzer.py`, `routes/token_details.py` | parsed fields, method caches, Redis caches | lazy parsing, metrics, scores | stale caches; fields read before they are parsed |
| Scheduler | `DA/services/scheduler.py`, `routes/scheduler.py` | set of analysed tokens, flags | scan, manual scan, reanalyse, stop | threads that outlive their time limit; concurrent scans |
| Dashboard | `frontend/.../BoneFI.html` | data cache, current job, timers | load, poll, delete, analyse | timers that fire late, caches emptied too early |
| Charts, models, encoders, deployment | `DA/charts`, `DM/db/models.py`, `deploy` | - | rendering, conversion | none |

How they interact. The dashboard calls data-management to collect and delete
tokens and data-analysis to analyse them, and polls both for the progress of
what they do in the background. The two services share Redis: data-management
writes `token:` and `meta:` keys, data-analysis reads `token:` and writes
history and analyzer caches. Each service is one process with one event loop,
so its handlers interleave at awaits; analyses run in threads that share
dictionaries with the loop. Compose restarts a service that dies: what is in
memory is lost, what is in Redis stays, until it expires or is evicted.

What makes each part correct:

- store: each key holds its own mint's collection; the progress of a batch
  adds up and only advances; every accepted batch ends; what is listed is
  there, what is reported as collected is stored;
- lists and statistics: an answer is wrong only for its age, so a deleted or a
  collected mint is shown wrongly for a bounded time;
- collector: no gap and no repetition in the signatures, which go back to the
  limit or the token's first transaction; every collection ends;
- failover: no slot of the semaphore is lost; a failing endpoint is excluded
  and stays so while another answers; every call ends;
- rate limits: the counts are those of the window;
- tasks: one that answers "processing" is being processed; an outcome goes to
  the tab that asked for it; every tab and every task ends;
- caches of an analyzer: what is cached is of the stored collection, at least
  once nothing renews it;
- scheduler: a token is marked only when it was analysed, and no single error
  marks one without a history; every token that can be analysed has its turn;
  tasks end;
- metrics: they say of the chain what they claim, and judgements of the same
  wallets with thresholds of their own do not contradict each other;
- dashboard: a batch that the page started is followed to its end.

## 2. Modules

| Module | Models | Checked by | Proofs |
|---|---|---|---|
| `TokenStore` | batches, DELETE, migration, expiry, restarts on the two keys | `store` | `TokenStoreProofs` |
| `TokenStoreViews` | what pollers and readers see of it, with history | `store_views` | `TokenStoreProofs` |
| `BatchContract` | abstract: the promise of a batch to its poller | `store_views` (refinement) | `TokenStoreProofs` |
| `TokenListing` | GET /tokens and its cache | `token_listing` | `TokenListingProofs` |
| `StoredTokens` | the token keys, as readers of both services see them | `token_listing` | `TokenListingProofs` |
| `Statistics` | GET /stats and its cache | `token_listing` | `TokenListingProofs` |
| `AnalysisList` | the token list of data-analysis and its slot | `token_listing` | `TokenListingProofs` |
| `Collection` | one collection, while the chain grows | `collector`, `earliest` | `CollectorProofs` |
| `RpcFailover` | the concurrent RPC calls of a collector | `collector` | `CollectorProofs` |
| `AnalysisTasks` | analyses in threads, polled by tabs | `analysis_tasks`, `deleted_after_received` | `AnalysisTasksProofs` |
| `Dashboard` | how a page follows a batch | `analysis_tasks` | |
| `ManagementRateLimit`, `AnalysisRateLimit` | the two services' limits for a client | `rate_limits` | `RateLimitsProofs` |
| `AnalyzerCache` | what analyses of a token leave in Redis and find there | `analyzer_cache`, `forced_is_fresh` | `AnalyzerCacheProofs` |
| `Scheduler` | scans, reanalyses and the threads they give up | `scheduler` | `SchedulerProofs` |
| `Parsing` | how transactions become an analyzer's fields | `metrics` | `MetricsProofs` |
| `TradePatterns` | metrics over the transactions in time | `metrics` | `MetricsProofs` |
| `WalletRisk` | metrics over the holders, one by one | `metrics` | `MetricsProofs` |
| `RiskScores` | the two scores made of the metrics | `metrics` | `MetricsProofs` |

`MC*` modules give the constants values for TLC. Some of them hold two or three
components that ask questions of one kind: `MCTokenListing` (the three caches
of what was read), `MCCollector` (a collection, and the calls it abstracts),
`MCAnalysisTasks` (what the dashboard waits for), `MCRateLimits`, `MCMetrics`.
There a variable that never changes says which of them a behaviour is about;
the others rest in an initial state, since they share no state and their
interleavings would add nothing.

Definitions that begin with "Mutant:" in their comment are plausible bugs of
the definition below them; nothing uses them, and they serve to see that each
property can fail.

### TokenStore, TokenStoreViews, BatchContract

A step is the code of a handler between two awaits together with the Redis
command it awaits, because one event loop runs them all. `pc[j]` is where
`run_batch_collection` of job `j` is: `begin`, `collect` (awaiting the
collector), `setToken`, `setMeta` (the two writes), `closing` (the session of
the collector), `raised` (an exception on its way to the handler in the loop).
`status`, `completed`, `success` and `failed` are the job's record. Each Redis
command may raise before or after the server executed it; this is why
`SetTokenRaises`, `SetMetaRaises` and `DeleteRaises` have two outcomes.
`deleter` holds DELETE requests in flight and `migrator` the script
`migrate.py`, which is another process and survives a restart of the service.
Of a collection only its job, its position and whether it is valid are kept.

`TokenStoreViews` adds two histories (the mints that were deleted, and that
expired) and the view a poller has of a job. Its record lists are shared with
the running loop, so they can be ahead of the counter; `BatchContract` is the
abstract specification a poller may rely on: a job appears with its total, its
counter and lists only grow, `completed` is final, and only a restart makes it
disappear. `ContractHolds` states that the detailed model implements it under
the mapping `view <- View(j)`.

### TokenListing, Statistics, AnalysisList

`TokenListing`: `cached` is `tokens_cache` with `tokens_cache_time`, by limit.
A request that finds no fresh list reads the keys, then row by row, then stores
the list with the time at which it began (`now` is taken at the top of
`list_tokens`). `timedelta.seconds` is modelled as it is: the age modulo a day.
`since` is history: what a client that watched the DELETEs and collections last
knew.

`Statistics` is the same handler's neighbour, with one slot for callers with
and without the administrator's key. `AnalysisList` differs in three ways that
matter: the slot is stamped when it is filled; requests fill it in the order in
which they end; and each of its two commands has a timeout after which the old
list answers, of whatever age and limit. In both, `StoredTokens` lets a key come
or go in one step: how it is written is the matter of `TokenStore`.

### Collection, RpcFailover

`Collection` has the chain as its environment, whose signatures grow while
the collector pages; a page is the newest part of what the RPC was asked for.
What a request goes through before it has its result is `RpcFailover`: calls
of one `gather`, which begin in one turn of the event loop, choose an
endpoint, wait for the semaphore, post, sleep inside of it, retry, and are
cancelled together. `healthy` is chosen at the start: the endpoints that
answer every request.

### AnalysisTasks, Dashboard

`entry` is the dictionary `analysis_tasks`, `thread` the place of each
analysis in the executor, `tab` the loop of `analyzeToken` in a browser tab.
The thread's assignments are separate steps, since it shares the dictionary
with the event loop without a lock; the poll handler has no await. A tab takes
a 404 for progress, since the code never looks at the HTTP status there.

`Dashboard` is one page that starts batches. `currentJobId` and `jobInterval`
are its globals; `poll` holds status requests that wait for an answer, several
at a time because the interval does not wait; `timers` are the five-second
timers that a completed answer sets. Of the service only the status of a job is
kept. `alone` is history: the batch that was started when no request or timer
of another was left, and that no other start has disturbed since.

### Rate limits

A check of data-management runs a synchronous Redis client inside of the
event loop of a single process, so that it is one step. `EndpointLimits` is
the table of the code in its order, and the first entry that the path starts
with decides. In data-analysis the admission is one step (no await inside of
the lock); the handler then runs, and `Raise` calls it once more, as the code
does.

### AnalyzerCache

A collection of the token is a version, and a result is known by the versions
it draws on. `v2`, `partial`, `quick` and `full` are the keys
`analyzer:<mint>:v2` and `:partial`, `:quick_summary`, `:full_analysis`. A
request reads the transactions and builds an analyzer (`Construct`), which has
its fields from `v2` or, once a method initialises it (`Initialise`), from
`partial` or from the transactions. Which of this a request goes through
depends on its endpoint (`Kinds`). Requests run in threads and interleave at
each access to Redis.

### Scheduler

`task` has the loop `run_forever` and the background tasks of the endpoints; `at`
is where `scan_and_analyze` or `analyze_token` of a task awaits, `thread` how far
the analysis is for which it waits. After 120 seconds the task goes on and the
thread, if it had begun, too (`abandoned`). `autostart` says whether the
application starts `run_forever`: as it is deployed the lines are commented out,
and the class is checked both ways. The keys of a set come in no order, so that a
batch is any of the right size.

A history is saved twice: by the analysis in its thread, and in the event loop after
it. Both catch their errors (`analyzer.py:787`, `database.py:214`), nobody looks at the
outcome, and the token is marked (`scheduler.py:92`); `Save` is that. `done` and
`saved` are histories: the tokens of which an analysis ended with its result, and
those that have had a history at some time. Every error, wherever it hits, counts
for `faults`.

### Parsing, TradePatterns, WalletRisk, RiskScores

The metrics of `TokenAnalyzer` as operators, each for a method, in steps where the
code has loops whose order could matter. `Parsing` keeps the ledger of the chain
beside the transactions that show it, and parses them as `_extract_all_data` does.
An owner may have several token accounts, of which a transaction moves one
(`Trade`). The collector may lose transactions (`Lose`), as many as its success rate
lets pass (`Collected`), and stores the others in either order. `shown` is history:
the token accounts whose last transaction was received. Mode `earliest` may also
store transactions twice, which changes no maximum and is left out. `TradePatterns`
adds the metrics over the result: volumes, dominoes, herds, speed of migration,
whales, robots, wash trading, and the search for wallets that the deployer funded.
`WalletRisk` takes the fields as given, in any combination, because they may come
from a cache (see `AnalyzerCache`), and judges holders one after the other.
`RiskScores` adds up what the metrics return. Ratios are compared without division;
floats, rounding and texts are left out. Counts that only tell few from many (100
transactions, 50 buys) are constants, with the value of the code beside them.

## 3. Runs

| Run | Instance | Shows |
|---|---|---|
| `store` | 2 mints, 2 batches of one token, 1 DELETE, migration, restarts (mints symmetric) | accounts add up, completed means all, keys are genuine |
| `store_views` | 2 mints, 1 batch of up to two tokens, 1 DELETE, fair | listed mints are readable, successes stored, contract, every batch ends |
| `token_listing` | 2 mints; list: 1 request, limits 1 and 2, a day of 3 ticks; statistics and the list of data-analysis: 2 requests, a day of 4 ticks | each answer is only wrong for its age, and for the timeouts of the list of data-analysis |
| `collector` | pages and batches of 2, five limits, chains of up to 7; 3 calls, 2 slots, 2 endpoints, any of them healthy | no gaps, back to the limit or the first transaction, collections end; semaphore, bounded blame, lasting exclusion, calls end |
| `earliest` | limit 3 | **violated**: mode `earliest` never gets to the first signatures |
| `analysis_tasks` | 3 tasks, 2 tabs, 1 thread, 3 polls; 2 batches, 2 polls under way | processing is alive, outcomes delivered, tabs and tasks end; an undisturbed batch is reported |
| `deleted_after_received` | 1 task, 2 tabs | **violated**: a poll takes a task that has no result yet |
| `rate_limits` | limit 20 over two windows; 4 requests at a limit of 1, 7 instants | counters keep to their limits and windows, at most twice the limit in any minute |
| `analyzer_cache` | 2 requests of any kind, 2 collections | which endpoints answer from empty fields; the caches forget an old collection |
| `forced_is_fresh` | same | **violated**: a forced analysis has fields of an earlier collection |
| `scheduler` | batches of 2, 1 fault of any kind; 3 tokens, one perhaps impossible to analyse, and the loop; or 2 tokens, one of them impossible, the loop and 1 background task | what is marked was analysed and has had a history; every token has its turn; tasks end; a manual scan does nothing without the loop |
| `metrics` | 5 holders of 8 profiles and 2 histories; 3 transfers, one perhaps lost, among 2 owners, one with 2 accounts, and a pool; ratios at the thresholds | judgements agree; holders, dominoes and funded wallets against a definition of their own; the bonus costs one level at most |

Why the bounds are enough. Races need two actors on one mint and a second mint to be
mixed up with: two batches, a DELETE and the migration on two mints have all pairs
of them. A batch of two has a first, a middle (between two tokens) and a last step
of its loop. In `token_listing` the clock runs past a day, so that the wrap of the
age happens, and past twice the time to live; two requests cross, and the timeouts
are of a tick each (in the code one of them is longer than the time to live; the
theorem is for all values). In `collector` the limits lie below, at and above page
boundaries and above the chain; three calls and two failures allow stale choices
after an exclusion, and clearing with calls under way. One thread and three tasks
make tasks queue; two batches and two polls let an answer and a timer of the first
be late. In `rate_limits` the requests are more than twice the limit, and the minute
more than one tick, so that two windows meet. In `analyzer_cache` a second
collection is enough to tell old from new, and two requests hand a value from key to
key in every order. In `scheduler` there are more tokens than in a batch: one that
is taken in vain leaves half of it to the others, two of them fill it, and one fault
hits any await or any error that is caught; `crowd` says which of the two instances
a behaviour is of. In `metrics` the profiles lie at each side of the thresholds of
`WalletRisk`, and three transfers make chains, returns and repeated trades of one
pair; one of three may be lost, and the gap of 15 seconds is the longest that a
cluster of sales allows.

Named bounds: `MaxBatch`, `MaxTime`, `LongTime`, `LastTick`, `MaxChain`,
`MaxVersion`, `MaxFaults`, `MaxTrades` and `Polls` bound what the code leaves open;
`MaxAttempts`, `PageSize`, `BatchSize`, `Slots`, `Retries`, `MaxFailures`, `TTL`,
`Day`, `Window`, `Minute`, `KeysTimeout`, `PipelineTimeout`, `MaxHops`, `MinRate` and the
counts of `TradePatterns` are numbers of the code, made small. Deadlock is checked in
`store`, `store_views`, `analyzer_cache` and `scheduler`; the others stop when the
clock, the tasks, the requests, the collection or the transactions have run out.
That no call of the collector hangs is what `CallsEnd` says.

### Fairness

- `TokenStore`: weak fairness of each batch's steps. Each await of a batch has a
  timeout (30 s for an RPC call, 60 s for a batch of transactions, 20 s for a
  Redis command), so it always goes on.
- `Collection`: weak fairness of its steps, for the same reason. The chain
  may grow at any time, up to its bound.
- `RpcFailover`: weak fairness of each call's steps (a post ends with its
  timeout), strong fairness of getting the semaphore, because asyncio wakes
  waiting calls in their order.
- `AnalysisTasks`: weak fairness of threads at work and of the polls of a tab,
  which a timer drives; strong fairness of being taken from the queue of the
  executor, which is first in, first out.
- `Dashboard`: weak fairness of the interval, of answers of the service and of
  the end of a batch (`BatchEnds`); strong fairness of receiving an answer: not
  all of them are lost. None of the timers or of the user.
- `AnalyzerCache`: weak fairness of the steps of a request, and of the expiry of a
  key, which Redis was given a time for.
- `Scheduler`: weak fairness of the steps of a task, of the next scan and of a
  thread that was given up; strong fairness of an analysis of the loop being begun:
  not every one waits 120 seconds in the queue of the executor. `ScansReachAll`
  has its precondition in it: the scheduler is left running, and fewer tokens than
  a batch are taken in vain.

Nothing is assumed of DELETEs, restarts, lost replies, faults or the user.

## 4. Findings

- `earliest`: `_get_earliest_signatures` pages with `until`, which asks for
  newer signatures, not older ones (`solana_collector.py:167`).
- `deleted_after_received`: the status is set before the result
  (`analysis.py:64`); a poll in between answers `null` and removes the task.
- `forced_is_fresh`: a reanalysis takes holders and activity from what an earlier
  analyzer left, whatever the collection, and without volumes (`analyzer.py:107`).
- `token_listing` (`DeletedFades` has no smaller bound): `list_tokens` stores what
  it read whether or not a DELETE emptied the cache since (`main.py:207`, 321), so
  that a deleted mint comes back for up to the time to live.
- `scheduler` (`ScanNeedsLoop`): a manual scan ends at its first token unless the
  scheduler runs (`scheduler.py:130`), and the application does not start it.
- `metrics` (`HoldersKeepPeaks`): a holder's balance is the largest it ever had
  (`analyzer.py:220`): who has sold everything stays a holder, and who has several
  token accounts holds the largest of them, not their sum.

Seen while modelling, without a property of their own:

- The two keys of a mint are written and removed by two commands each, and may come
  apart for good: a stored token that no list shows, or a row of a token that is
  gone, although `list_tokens` is described as the list of all tokens
  (`DM/api/main.py:171`). A DELETE between the two writes, or under the migration, does
  the latter, and the properties about listed mints leave out those that were deleted.
- The age of a list is `timedelta.seconds`, which leaves out whole days (`main.py:175`,
  `database.py:108`): a list that nobody asked for since a day is fresh again. The models
  wrap like this; the properties speak of lists that are younger than a day.
- Two errors while a history is saved, one in the thread (`analyzer.py:787`) and one in
  the event loop (`database.py:214`), mark a token that has none (`scheduler.py:87`, 92).
  Scans pass it over until a restart.
- A finished task is removed by the poll that answers it, so that the outcome is gone
  with a lost answer (`analysis.py:112`).
- A handler of data-analysis that raises is called a second time, because the call
  is inside of the limiter's `try` (`rate_limiter.py:53`; the comment at line 51
  speaks of errors of the limiter).
- The entry for `/collect/batch` of the limits (5 a minute) is never used because
  `/collect` comes first (`rate_limit.py:73-74`); the limit is per calendar minute,
  so twice as many requests pass around its turn.
- The job function of the queue imports a package that does not exist there
  (`queue_manager.py:96`).
- On the dashboard, the timer and the late answers of an earlier batch end the
  polling of a later one (`BoneFI.html:1513`); only an undisturbed batch is reported.
- The list of data-analysis answers after a timeout with whatever it has, of any age
  and limit.
- In the metrics: the branch DUMPING of the whale trend cannot be reached, since the
  balances at the start of the latest interval are those held after it, none
  (`analyzer.py:1185-1200`), although the documentation lists the trend and its 20
  points (`backend/data-analysis/static/docs.html:797` and 911); with no buys at all
  the sell pressure is LOW while the correlation is NEGATIVE (`:1238`);
  INSTANT_RUGPULL may come with "LIKELY_LEGIT" (`:645`); the wallets of the
  anti-fragmentation metric are counted once for their prefix and again for the time
  they were first seen, those with nothing left among them, so that they may be more
  than the holders (`:323`); three buys from a pool are robotic whatever their
  times; a token without early buyers gets 20 points for early holders that dumped;
  `get_early_buyers` ignores its minutes. `docs/commit.txt:6` and
  `backend/data-analysis/static/docs.html:384` speak of 30 seconds for a cluster of
  sales where the code has 15, as `commit.txt:11` says. `get_migration_speed_analysis`
  is defined twice, and the first definition (`:1056-1090`) is never called.

## 5. Proofs

All for any values of the constants, from the named assumptions in the modules
(sizes are naturals, some of them positive, `None` is not a value; finitely many
mints, tokens, calls or requests where they are counted). The assumptions that join
components are those of the modules that TLC checks: `CachesAssumption`,
`WindowsAssumption`, `PatternsAssumption`, `TokenAssumption` (finitely many owners, a
supply and a number of hops that are naturals), `PercentsAssumption`. Where a module
holds several components, the theorem is about the composition that the run checks.

- `TokenStoreProofs`. `BatchAccounting` and `StoreIntegrity` are not inductive:
  what a batch writes is right only because of what it holds. `IInv` adds
  `WorkerInv` (at each point of the loop: there is a current token; what is
  held is a collection of it, valid unless forced; force means administrator)
  and `MigratorInv` (what the migration is about to write came from a token
  key). One lemma per action; theorems `TypeCorrect`, `AccountsAddUp`,
  `CompletedIsComplete`, `StoreIsGenuine`. Over the histories of `TokenStoreViews`,
  `ListedMintsAreReadable` and `SuccessesAreStored` for mints that were neither
  deleted nor expired; `WritesInOrder` is what makes them inductive: before metadata
  is written, data is.
- `ContractIsKept`, in the same module, is the refinement: every step of the service
  is a step of `BatchContract` for one job, leaving the records of the others alone, or
  leaves all of them as they were. An entry is appended to a list of the record, and
  counted, in different steps: `ViewIsConsistent` derives from `IInv` that the lists are
  one entry ahead at most. Only a restart takes a record back.
- `TokenListingProofs`. `ListInv` says of each list, cached or in the making:
  where it disagrees with what a client knows of a mint, that is newer than
  the list's time. `DeletedMintsFade` and `CollectedMintsShow` follow with the
  freshness test, within a day. The same for the other two caches. `StatsInv`: what
  a reader or the slot has differs from the store only in keys that changed since
  the request began; this gives `StatisticsDoFade`. In `AnalysisList` nothing
  remembers when a request began, so its invariant counts back from the time at which
  its command is given up (`until`), which the clock never passes: what is missing
  changed at most two timeouts before, what is gone at most one. With the time of
  the slot no later than `until`, `AnalysisListDoesFade` follows.
- `CollectorProofs`. The cursor is the last signature (`CursorInv`); with it
  `LatestHasNoGaps` for any page size and growth of the chain. `LatestGoesBack`
  needs of each turn of the loop what a short page tells: below the cursor there is
  nothing more. `SemaphoreIsAccountedFor`: free slots and holders are all the slots.
  `BlameStaysBounded`: the bound counts failures and the calls that may still
  report, so that a report moves one from the one to the other, and a new choice is
  made only below the limit or with the counts cleared. `ExclusionDoesLast` is an
  action property: an endpoint that answers is never blamed, so that not all of them
  are excluded, and only then does the code clear them.
- `RateLimitsProofs`. A limiter has a count, and the property is about times. The
  invariants join the two: `WindowInv` says that the count is that of the requests
  since `start`, that none was admitted later than a minute after it, and that the
  minute before it had at most the limit; `CounterInv` that each counter of Redis counts
  the requests of its window and outlives it. A minute then meets two windows at most.
  A restart begins the history of `AnalysisRateLimit` anew, with its count.
  `AnalysisBurstIsLimited`, `ManagementBurstIsLimited`, `CountsWithinLimits`.
- `AnalyzerCacheProofs`. `CacheInv` has for each request what the point it is at
  implies about its fields (`RequestOK`), and that `v2` is there only after an analysis
  was saved. `CachesTyped`, `BareDoesNeedSave`.
- `MetricsProofs`. `JudgementsDoAgree` compares thresholds that are spread over three
  methods, for all balances. `MaliciousStaysSuspicious` is inductive over the loop,
  with the malicious categories a part of the suspicious ones. `ParsingKeepsPeaks`:
  `LedgerInv` (what an account has whose last transaction was received, a transaction
  says of its owner), `PeakInv` and `SeenInv` (the largest balance and the earliest time
  of those that are parsed), for any token accounts and lost transactions and in either
  order. `BonusIsLimited` is over the scores' stages: what
  was added since the malicious part only raises the score.

  Two more are about a loop and a search, for inputs of any size. The library's
  theorems of induction take an operator as their parameter, which the installed provers
  cannot instantiate; its theorem on the strict subsets of a finite set does not, and
  `MinimalSet`, `LeastNumber` and `LargestValue` are made of it. They take the place
  of an induction: a smallest set, or a least number, for which a claim fails, leads to
  a smaller one. They also show that the functions which the recursive definitions
  choose exist (`HopsHold`, `PassHolds`).
  `FundedAreReachable`: `SearchInv` says that the queue is sorted by hops, which differ
  by one at most (`SearchOrder`), that nobody is found who is not reached
  (`SearchSound`), and that who is reached in fewer hops than the head has been
  processed, in as many is processed or waits, and so is whoever has received funds
  (`SearchComplete`); an early end is closed under the transfers, so `HopsWithin`
  applies. The first visit of an account being the shortest is what makes a limit
  on hops, with a set of processed accounts, exact.
  `DominoesDoFallTogether`: taking the latest sale off a set of sales either shortens
  its last run by one or removes it (`RunsAdded`), which is what a turn of the pass
  undoes (`PassFinds`).
- `SchedulerProofs`. `MarkedTokensAreDone` needs that every history was of an analysis
  (`AnalysesInv`) and that a thread which ended has done it (`Ended`).
  `OneErrorLosesNoHistory` needs of such a thread that it has saved the history unless
  there was an error; then the loop, which saves it again, marks the token without one
  only after a second error (`HistoriesInv`). `ScanNeedsLoop`
  needs that without a start the loop idles, and so nothing sets `running`. `Good`
  says this task by task; one lemma for each action that moves a task, then
  `NextAnalyses` and `NextSwitches` for the rest of the state.
- `AnalysisTasksProofs`. `ProcessingHasAThread`, and `OutcomesAreDelivered` from
  the fact that at most one tab was given a task.

Only model-checked:

- everything under fairness (`BatchEnds`, `CollectionsEnd`, `CallsEnd`, `TabEnds`,
  `TaskEnds`, `LoneBatchIsReported`, `CachesForget`, `ScansReachAll`, `TasksEnd`),
  since it needs `ENABLED`, which the prover does not handle.

## 6. Not modelled

- Charts, bubble map, models, encoders, uploaders: no state of their own, or
  one request whose outcome nothing reads.
- The collection queue: the function of its jobs cannot be imported, so a job only
  ever fails.
- Contents of tokens and transactions, compression, wording, logging.
- The in-memory fallback of the management limiter, which the code cannot reach
  (`redis.from_url` does not connect), and the retries of `get_token`, which keep no
  state.
- In the analyzer: the entropy of the times of trades (logarithms), the sums of the
  advanced metrics, the share of bots and its rounding.
- In the dashboard: the data cache of the page and its entries of the history.

## 7. Plan

1. Proofs: every invariant that a run checks has a theorem. Left are the steps of the
   liveness properties that need no fairness, as action properties: what is done of a
   scan, a batch or a call is never undone.
2. `Dashboard`: the cache of the page's data and its history, which is loaded when
   an analysis was accepted and not when it was saved (`BoneFI.html:1424`).
3. `TokenStore` and the caches of an analyzer in one composition: a collection that
   fails half-way under an analysis.
