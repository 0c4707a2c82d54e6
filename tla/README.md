# Kufar Analytics: a TLA+ verification project

Kufar Analytics (repository 5taZ/Rafuk) watches listings of kufar.by. A user sets up trackers in a Telegram bot or a
Mini App, a collector checks the queries of all trackers every few minutes and sends alerts about new and cheaper
listings. The modules here model what is concurrent, stateful or numerically delicate in that code; TLC checks them
on small instances and TLAPS proves every invariant of the passing runs for every value of the constants.

Paths are relative to `src/`. `PROJECT.json` gives for each definition the lines it models.

## 1. The system

Three processes share one Postgres database at READ COMMITTED: the API (FastAPI), the bot (aiogram) and the
scheduler (APScheduler, `scheduler/collector.py`). Redis holds response caches and rate limits. Kufar and Telegram are
outside. The Mini App is JavaScript in Telegram's browser.

| Component | State | Operations | Interacts with |
|---|---|---|---|
| Tracker life cycle: `api/services/tracker_service.py`, `users.py`, `api/routers/trackers.py`, `bot/handlers/tracker.py`, `start.py` | rows of `trackers` (owner, identity, active, deleted_at, last_checked_at), `users` row locks | create, delete, pause, resume | collector (reads, pauses, sets last_checked_at) |
| Collector run and cleanup: `scheduler/collector.py`, `api/services/history_service.py` | `query_listing_states`, a run's local variables, drafted alerts | load groups, baseline, fetch, select, commit, send; daily cleanup | trackers, Kufar, alert sender |
| Alert sender: `AlertSender` in `scheduler/collector.py` | consecutive failures, users who blocked the bot | send with retries, pause | Telegram, trackers |
| Cadence: `tracker_is_due`, `rounded_interval_min`, `deep_scan_is_due` | last_checked_at, the clock | decide which keys run, and how deep | collector |
| Paging: `_fetch_group_sample` | pages, sample, silent ids, cursor | fetch a page, stop | Kufar |
| Listing sync, events, price history: `history_service.py`, `collector.py`, `routers/price_stats.py` | one row per listing of a key, tracker events, hourly snapshots | new, price drop, reactivation, vanished; store events; upsert a snapshot | collector, `/price-stats` |
| Statistics, deals, reposts, scores, filters: `aggregator.py`, `market_signals.py`, `reseller_tools.py`, `deal_workflow.py`, `listing_mapper.py`, `routers/listings.py` | none | percentiles, placeholders, deals, duplicates, scores, pages | every reader of a dataset |
| Workflow: `workflow_store.py`, `routers/workflow.py`, the alert's buttons in `bot/handlers/tracker.py` | leads, watchlist | add or change a lead, watch, refresh the watchlist within a time budget | Mini App, bot, Kufar |
| Saved searches: `routers/saved_searches.py` | saved searches | add within a quota, delete; opportunity board | Mini App, pipeline |
| Query pipeline: `query_pipeline.py`, `parallel_kufar.py` | dataset cache, loads under way | one load for many requests, expiry, segments | API handlers, Kufar client |
| Kufar client: `kufar_client.py` | time of the next request, pauses | pace, retry, page | Kufar |
| Response cache, rate limits: `cache.py`, `rate_limit.py`, `bot/middlewares.py`, `currency_service.py` | values with a lifetime, windows | get, set, fall back to memory | Redis |
| Mini App requests: `frontend/js/app_actions.js` | request tokens | drop late answers | API |
| Rendering, API shell, authentication, deployment | none of interest | | |

What is hard, and what makes each part correct:

* Tracker life cycle. Handlers check, then write, in separate statements, and not all of them take the `users` lock.
  Correct means: never more active trackers than the quota, no two for one identity, a resumed tracker starts from a
  baseline, a deletion is final, a returning user is not paused.
* Collector. Trackers change during a fetch of many seconds, no session is open then, the process may die between
  commit and send, and the cleanup runs beside it. Correct means: no tracker is told of a listing twice, none that is
  checked misses one, and a key is initialised once.
* Alert sender. Telegram may flood-control, fail or refuse at any attempt. Correct means: bounded sleeping, one refusal
  per user and run, every alert ends.
* Cadence. Runs start late, fail or are left out. Correct means: what is shown is what happens, and one deep scan a window.
* Paging. Listings move between pages while they are fetched. Correct means: what is new is in the sample and not silent.
* Listing sync. A reference price moves with every check, listings vanish and return, trackers filter what they are
  told. Correct means: the active rows are the latest sample, a price cannot fall silently by more than a step a check
  while every check sees one, a message names only what the inbox holds, and a partial sample replaces no fuller one.
* Statistics. The same question (is this a placeholder, a deal, a repost?) is answered by different code for the page,
  the board and the trackers, and at boundaries of rounding. Correct means: the answers agree.
* Workflow, saved searches. Handlers read and write in separate statements, most take no lock, and a refresh of the
  watchlist waits in between for searches it shares with other users. Correct means: quotas hold, nobody sets back what the user said about
  a lot, a lead is never downgraded (it is: finding 3), a lot is called missing only when it is gone or the search could
  not see it, and every query is refreshed in the end (it is not: finding 2).
* Pipeline. Requests share a load, may be cancelled while they wait, and the cache has two lifetimes and two bounds.
  Correct means: one load per key, every waiter answered, nothing served beyond its lifetime, bounds kept.
* Kufar client. A pause may begin while requests queue or sleep, and each may be cancelled anywhere. Correct means: no
  start in a pause, the pace kept, no counter leaks, every search ends.
* Response cache: values older than a later write, when Redis comes back.
* Mini App: the answer to an older request must not replace that to a newer one.

## 2. Modules and plan

| Module | Models | Uses |
|---|---|---|
| `TrackerRegistry` | what the life cycle promises, with no locks, sessions or rows: users take and drop claims, all or nothing | |
| `TrackerLifecycle` | the statements and commits of the four operations, and the collector's effects on the rows | implements `TrackerRegistry` |
| `Collector` | the tracker-check job for one query key, and the daily cleanup | |
| `AlertSender` | sending the alerts of one run | |
| `Schedule` | when a key runs, and when deeply | |
| `FetchSample` | the loop over pages of a check | |
| `SearchPages` | the loop over pages of a search (`search_all_ads`), over the same moving market | extends `FetchSample` |
| `Pricing` | what is computed from one answer of Kufar, as operators without state | |
| `Market` | what is remembered of a key's listings: rows, events, alerts, snapshots | extends `Pricing` |
| `Workflow` | leads, watchlist and its refresh, saved searches of one user | |
| `DatasetCache` | `get_or_load` of the query pipeline's cache, for all requests of a process | |
| `RequestPacer` | `search` of the Kufar client and the pacer all requests of a process go through | |
| `MC*` | small instances, with their `.cfg`s | |
| `*Proofs` | theorems | the module of that name; `CollectorProofs` also `AlertSender` |

`Collector` takes from `TrackerLifecycle` that trackers become active with no last check (`ActivatedIsUnchecked`), from
`FetchSample` that silent listings are old, and from `Schedule` that a group runs with all of its trackers; `Workflow`
takes from `SearchPages` that an answer that is not truncated has every listing there was when its load began and still
is, unless one was withdrawn or bumped meanwhile or a page full of new ones came (a bump is a withdrawal and a
publication), and from `DatasetCache` that there is one load per query; and
`Market` takes from `Collector` that a key's checks and its cleanup interleave as they do. Each is a property checked
(some also proved) in the module it comes from, and an assumption in the actions of the module that uses it.

What is left: the values of `cache.py` in Redis and in memory, and the Mini App's late answers.

## 3. How the modules correspond to the code

### TrackerLifecycle

`tracker` is the table; `TrackerId` is the primary key and its order that of `order_by(Tracker.id)`. `Row` keeps the
columns that the operations tell apart: `active`, `deleted` (deleted_at is set), `checked` (last_checked_at is set).
What `tracker_identity` compares, the query with its filters, is one value of `Identity`. `lock` is the row lock that
`ensure_user`'s upsert takes and a commit or rollback frees. `request[r]` is one handler of the API or the bot: `step`
names its next statement, the other fields what it has read.

READ COMMITTED makes every SELECT see what is committed at that moment, so each SELECT is an action, and an UPDATE with
its COMMIT, which nothing comes between, is one action. `DeleteFindsRow` and `DeleteCommits` take no lock, as in
`deactivate_tracker`. `StartCommits` writes by id, and `last_checked_at` only for rows that were *loaded* with a value:
SQLAlchemy leaves unchanged attributes out of the UPDATE. `Resumed` is the loop of `resume_paused_trackers` as a set: a
paused row is resumed when fewer distinct ones than the free places precede it. `ResumeLoop` is the same loop turn by
turn, as a recursive function of the id, and `ResumeMatchesLoop` says that the two agree. `Abort` is every failure: database error, cancelled request, killed process. `collector` reduces the
scheduler to what it does to these rows: select a batch, set last_checked_at, meet a user who blocked the bot, pause.

### Collector

One query key. `known` and `age` are `query_listing_states` with `last_seen_at` reduced to the retentions: 0 is recent,
1 is beyond `UNTRACKED_LISTING_STATE_RETENTION_DAYS`, 2 beyond `TRACKED_LISTING_STATE_RETENTION_DAYS`. `run.step` says
how far `_process_group` is: `ReadBaseline` is its first session, `Fetch` happens with no session open,
`SelectTrackers` and `Commit` are the reads and the end of the second session. A sample is any set of listings: Kufar
may show, hide and show again whatever it likes. `Commit` is guarded by `run.loaded \subseteq known`: an UPDATE of a row
the cleanup has deleted makes the flush fail, which is `GroupFails`. `Crash` loses what was not committed, and the
alerts not sent. `seen` is a history variable: what the checks of a tracker have met since it became active.

### AlertSender

`alerts` is the queue of a group, `attempt` and `limit` the loop over `send_message`, `failures` and `blocked` the
sender's memory, `tracked` the users with active trackers. `Init`, `Next` and the like are called `SenderInit`,
`SenderNext`, ..., so that a module can have the sender beside `Collector`. A definite answer (delivered, refused, rejected) resets
`waits`, the history variable that counts the sleeps since. `fates` is the history of a run: what became of each of its
alerts, after how many attempts. `CircuitOpensLate` reads it alone: the losses in a row are counted from what happened
(`LossesBefore`), not from `failures`.

### Schedule

Times are minutes; half intervals are compared after doubling both sides. A run starts up to `MaxLate` minutes after its
turn. `last_checked_at` becomes the *start* of the run. `visited` remembers the windows in which the key was checked.
`known` says whether the key has remembered listings: without them a check is a baseline, which is never deep, and the
cleanup may take the last of them (`Forget`).

### FetchSample

A listing is its publication time. A page is the `PageSize` listings at positions of the newest-first order; the cursor
is a position, so a new listing shifts the others down between two pages. `window` counts the pages of the regular
window, `silent` the listings first met beyond it. `Rank` is the position of a listing in that order. `SearchPages` reads the same pages by the rules of `search_all_ads`;
`reader` says which of the two fetches.

### Pricing and Market

Listings are records; a title is its set of words, a region its names and its code. Prices are whole roubles, so that
quartiles are multiples of a quarter rouble: statistics are counted in quarters, discounts in hundredths of a percent,
scores in thousandths until the code rounds them to tenths. What a comprehension keeps of a sequence is its set of places
(`Keep`, and `At` reads it in order); the prices of a sample are a function on the places of its priced listings, and
`Sorted` gives the price of each rank. `Kept`, the loop of `split_low_outliers`, is a recursive function of the round; it
takes as many rounds as there are prices, which is at least as often as the code's loop runs before nothing changes (each
earlier round drops a price: `Stage` in the proof). Python rounds halves to the even neighbour, the model up; no
property depends on which. `Item` gathers what `build_listing_item` says about one listing.

In `Market`, `row` is `query_listing_states` of a key, with the baseline marker as id 0. Pages arrive as single listings
(`Arrive`); `Sync` is the second session of `_process_group`, from `sync_query_listing_states` to the commit with the events, and
the alerts drafted in it. The first check of a key only records. `Answer` and `Record` are the two halves of a request
to `/price-stats`: its statistics, and the transaction that stores them. `before` and `quiet` are history variables:
the price a fall started from that was never told, and the checks since. A check that sees no price loses the reference for
the code, and `before` becomes 0. `quiet` stops at `MaxQuiet`, so what it
says there is no number of checks, and `SilentFallBounded` is stated below it. What a tracker is told of is a set of
places in the sample (`FreshPlaces`, `DropPlaces`), which keeps its order.

### Workflow

One user. `lead`, `watch` and `saved` are the rows; `lock` is the `users` row lock that `ensure_user` takes and that makes
additions queue. What a request has read is in `request[r]`, and a commit writes only columns whose value differs from
the one read, as SQLAlchemy does (`UpsertedStatus`, `Changed`). Deleting a row makes the commit of whoever has read and
changes it fail (StaleDataError), which is `Fail` or `RefreshStale`. `refresh` goes through `loading`, where
`gather_within_budget` starts searches in the order of `StalestFirst` while `left` permits, and `applying`, which writes the
rows read in the second session. `seen` is the order of `last_seen_at`. `told` is a history variable: the status the user
last gave a lot.

A search of the refresh is what `get_or_load` makes of it: a dataset of the cache at once (`SearchCached`), a load
that another user's request began (`OthersLoad`) and that the refresh joins, or a load of its own (`BeginLoad`). A load
goes on when the refresh waits no longer (`SearchLate`), and its end serves whoever waits. `load[q]` keeps what the load
can meet, every listing on sale at some moment of it; the answer is any part of that. `standing[q]` is a history variable, what
has been on sale since the load of the query's dataset began; an answer that is not truncated has all of it. It becomes
empty, and the answer may miss anything, where the paging can miss a listing: when one is withdrawn (`Withdraw`) or bumped
(`OtherMoved`) while the load runs, watched or not, and when a page full of new ones arrives (`StandingAfter`). Every
listing answers every query.

### DatasetCache

`entries` is the `OrderedDict` as a sequence, the least recently used first; an entry holds its age, where the code holds
the time it expires at. `At` is what a pass over the entries keeps, in their order. `totalAds` is the running
total of listings, from which each removal takes what it removes, as in the code: it is never counted anew. A payload
is its number of listings and whether its pagination was truncated. `load[t]` is the
task of a load, kept until the last request that waits for it has gone on; `_inflight` names tasks. Each action is
what the event loop runs between two awaits: `get_or_load` up to `await asyncio.shield(task)` is `Hit`, `Join` or
`StartLoad`, and a load's end, with `put` and the `finally` clause, is `LoadSucceeds` or `LoadFails`. `Cancel` takes
the request away and leaves its load.

### RequestPacer

Times are remaining seconds, counted down by `Tick`, which may also come while something is ready: the event loop may
be late. `Reserve` is a turn of `_wait_for_start` up to its sleep. What `_paused_until <= start_at` will say after the
sleep is kept as `held`, since a time that is past has no value left: `Paused` sets it for every sleeper whose start
the new pause covers. Kufar's 429 is possible while `limiting`. `debt` is a history variable, a bucket that each start
fills by `Delay` and each second empties by one.

## 4. Runs

| Run | Module, configuration | Shows | Distinct states |
|---|---|---|---|
| `lifecycle` | `MCTrackerLifecycle` | one user, two handlers, three rows, quota 2: quota, duplicates, the lock, what a handler read, the loop, the cleared last check | 790 202 |
| `registry` | `MCTrackerRegistry` | two handlers of one user beside a second user: every handler ends; refinement of `TrackerRegistry` | 81 690 |
| `resurrection` | `MCTrackerResurrection.cfg` | finding 1 (violation) | |
| `refresh_order` | `MCWorkflow`, `MCRefreshOrder.cfg` | finding 2 (violation) | |
| `downgrade` | `MCWorkflow`, `MCDowngrade.cfg` | finding 3 (violation) | |
| `collector` | `MCCollector` | two trackers with different filters, two listings: told once, nobody misses, initialised once | 1 378 782 |
| `job` | `MCJob` | `AlertSender` and `Schedule` side by side. Sender: two users, four alerts a run: bounded backoff, one refusal, the circuit, every alert ends. Schedule: seven turns of four minutes, intervals around the half multiples: the cadence, what is shown, one deep scan a window | 1 041 077 |
| `fetch` | `MCFetchSample` | seven listings on pages of two, one move during the fetch: the window is complete, what is silent is old, a search is complete or says that it is not | 3 066 678 |
| `cache` | `MCDatasetCache` | two requests, three keys: one load per key, bounds, fresh answers, every waiter goes on | 153 395 |
| `pacer` | `MCRequestPacer` | three requests, two slots, a queue of two: pauses kept, pace kept, counters exact, searches end | 70 356 |
| `sync` | `MCMarket` | samples of up to five listings: rows, silent falls, events, snapshots; statistics, deals, reposts and pages of every sample | 136 495 |
| `workflow` | `MCWorkflow` | two requests, two lots, quotas of one: quotas, the user's status, missing lots | 349 988 |

Why these bounds are enough for the questions asked:

* `lifecycle`: the races need two handlers of one user and the collector; a third handler waits for the same lock.
  Three rows and quota 2 put the boundary of the quota, a duplicate among paused rows, and a skipped duplicate below
  the quota within reach. `RowsLeft` keeps a create from starting without a free row, so the bound never stops a
  handler half-way. `MaxTracker` bounds the rows ever inserted.
* `registry`: that one user cannot disturb another takes two users. The second one creates the first tracker and then does
  nothing (`BystanderFirst`), which leaves two rows, and a rejected create, to the handlers of the first. The theorem
  `Refinement` covers all sizes.
* `collector`: two trackers tell a checked one from one that has just come; two listings tell a new one from one the
  baseline knew. Ages, jobs and local variables are finite without a bound.
* `job`: the two modules share no state, so each is explored while the other rests. `MaxFailures` = 2 and four alerts let the circuit open and still leave alerts for both users. `Interval` has values below, at and above each half multiple of `Check`; `MaxLate` = 1 is the most that half a
  `Check` of 4 absorbs; seven turns cross two windows of 10 minutes. `MaxRun` bounds the turns; in the last
  state only trackers come and go, and the key is forgotten.
* `fetch`: pages of 2 with 3 regular and 4 deep pages: the fetch stops by `since`, by `MaxPages`, by the last page, and
  inside and beyond the window, and listings move between two pages of the window and from there to the first beyond it. One move is all a page of two can meet without a listing skipping a whole page
  (`MaxMoves` may be at most `PageSize`). The system stops here, when the fetch is done, so deadlock is not checked.
* `cache`: one request starts a load and another joins, outlives or replaces it; two tasks let the load of a cancelled
  request run beside another (`Task` bounds the loads under way). Three keys exceed `MaxEntries`; payloads of 1, 2 and 4
  listings, with `MaxAds` = 3, reach the eviction by listings and the dataset that is not cached.
* `pacer`: with two slots and a queue of two, three requests reach a full queue, a wait for a slot and a wait for the
  time; pauses of 1 and 2 begin and grow during sleeps. `MaxCancel` = 1 bounds the cancelled requests.
* `fetch`, as a search: four pages of two hold seven listings, so that the total, a page without news, the last page and
  the page limit each end a search.
* `sync`: with `MinPrices` = 3 and prices from 0 (none) to 20, samples of five have several rounds of placeholders, repost
  groups of three and pages that are cut. `Asked`, the discounts a reader asks for, has 0 (every price not above the
  median), values on both sides of a sample's discounts, and one that nothing reaches. Later samples have two listings whose prices step below, at and above
  the thresholds; `MaxEvents` = `MaxNamed` = 1 puts both limits in reach. The key is not checked while its statistics are
  asked for (`NoStatistics`): the two share no table. `MaxQuiet` = 3 bounds a history variable and lets two silent steps
  add up, `MaxPending` bounds the requests.
* `workflow`: the races need two requests, or one and the refresh. The user works with one table at a time
  (`OnlyLeads`, `OnlyWatchlist`, `OnlySaved`): the tables share the lock and nothing else. One query has both lots, so
  that they are found and missing together; `Budget`, `Least` and `Grace` of one tick make each outcome of a search possible.
  A search is skipped here when the event loop is late, and in `refresh_order` when another one took the time.
  With `PageSize` = 2 a load survives one new listing, and not two. The cache keeps a dataset for any time, except that it
  does not take one from the refresh that holds it (`Expire`): the refresh has the value then, not the entry.
* `downgrade`: the instance of `workflow`, without symmetry.
* `refresh_order`: two queries, and time for one.

The type invariants of `Schedule`, `FetchSample`, `DatasetCache`, `RequestPacer`, `Market` and `Workflow` are the first
conjunct of one of their invariants; all are part of the invariants proved.

Each property of a passing run has a mutant in `PROJECT.json`: a definition marked "Mutant" that makes one plausible
mistake (a dropped wait, `<=` for `<`, a missing reset) with which TLC finds the property violated.

### Fairness

`RequestFairness` (`TrackerLifecycle`): a handler whose next statement can run is run (the event loop and Postgres make
progress): WF. Waiting for a `users` row lock gets SF: the lock is free and taken again while others pass, and
Postgres serves its queue in order, so a waiter is not passed over for ever. Nothing is assumed of users, of the collector or
of failures. `FairSenderSpec` of `AlertSender` assumes WF of the sender as a whole: `send_message` ends because the client
session has a timeout, sleeps end, and the loop is resumed; which answer comes is left open. `FairSpec` of
`DatasetCache`: a load ends, because its pagination has a deadline, and the loop resumes who waits for it. `FairSpec`
of `RequestPacer`: time goes on, a timer that has run out is served, the semaphore lets its first waiter in, and a
request to Kufar ends by the client's timeout. `QuietSpec` (`MCWorkflow`): the event loop goes on with a refresh that
began, its loads end, and the user refreshes again (the "repeated refreshes" of the text that is violated); only cached
datasets expire besides, and time passes only while a search is waited for, so that what starves a query is the order
alone.
`SearchesEnd` also presupposes that Kufar stops answering 429 at some
time: pauses without end hold a search back without end, and only the caller's deadline ends it.

## 5. Findings

1. `resurrection`. `resume_paused_trackers` promises that deleted trackers "are never resumed"
   (`tracker_service.py:271-272`). A deletion takes no `users` lock: it loads the row while active; the collector pauses
   the row; `/start` reads it as paused; the deletion commits `deleted_at`; `/start` commits `active = TRUE` by id. The
   deleted tracker is active again.
2. `refresh_order`. `_queries_by_staleness` (`routers/workflow.py:253`) says: "When the time budget runs out, repeated
   refreshes then reach the queries skipped before." It sorts by `last_seen_at`, which a refresh moves only for lots it
   finds. A query whose lots are all gone, or whose search fails each time, stays the stalest and is searched first by
   every refresh; when the budget ends there, the other queries are never reached.
3. `downgrade`. A repeated add "must never downgrade a lead that is already in work, bought or sold"
   (`workflow_store.py:24-26`, also `bot/handlers/tracker.py:170-171`). The check of `upsert_lead` (`workflow_store.py:109-117`)
   is on the row as it was read. An alert's button reads the lead as "new"; a PATCH, which takes no lock, commits "bought"; the
   button commits "deferred".

Limits of the design that are no disagreement with any document, so that no property asserts the contrary:

* The baseline marker of a query without results is written once and not refreshed, so after the retention the cleanup
  removes it, and the key is a baseline again. `CheckedKeyIsInitialised` and `CheckedTrackersHear` exempt this state as
  `Forgotten`.
* `deactivate_user_trackers` pauses what is active when it runs, also when the user has unblocked the bot and completed
  `/start` since Telegram refused the message. The next `/start` resumes the trackers.
* A watched lot that is on sale may be called missing until the next refresh, without `truncated`: when it is published or
  bumped while the search fetches, when another one is withdrawn or bumped, or a page full of new ones arrives, and when the
  search was joined, or taken from the cache, and its load began before the lot came (back). `MissingIsGone` and
  `CompleteUnlessTruncated` exempt what was not on sale all the time since the load began, and loads so disturbed.
* A check that sees a listing without a price overwrites the remembered price with NULL (`history_service.py:363`), and the
  next price is compared with nothing (348-351): 20, no price, 2 is a fall of any size that no tracker is told of.
  `SilentFallBounded` says nothing across such a check.
* A vanished listing is recognised by `last_seen_at < observed_at`, times that the scheduler's clock gives. `Market` has
  "not in the sample", which is the same while the clock is not set back between two checks; if it is, what vanished stays
  active until a later check.

## 6. Proofs

All constants are arbitrary up to the named assumptions (`QuotaAssumption`, `MaxTrackerAssumption`, ...: numbers are
natural, placeholders are no members of the sets). No theorem assumes more. Sets of users, handlers, requests, listings
and trackers need not be finite, except table rows, which `MaxTracker` bounds. Each module of proofs has one invariant,
`IInv`, which is inductive and from which the properties follow; only `TrackerLifecycleProofs` goes in three stages. Two of the
assumptions are bounds a theorem needs and a reader should know: `MaxMoves <= PageSize` for the paging (more listings
than a page has, moving during one fetch, can carry one past a page unseen), and `2 * MaxLate < Check` for the
cadence (a run is less than half a check interval late).

* `TrackerLifecycleProofs`. `TypeCorrect` needs `LocalsExist` (what a handler holds by id was inserted): a commit
  writes rows it names by id, which would not be rows otherwise. `MutualExclusion` (`LockHeldWhileChecking`) is inductive as
  it stands. The quota and the distinct identities are not: a handler about to write could have read anything. `IInv`
  adds the lock and `SnapshotCoversActive`: what was read under the lock still covers the active rows. A step then
  activates no row (`QuietRows`, and snapshots stay valid since rows only go), or it is a commit with the lock
  (`CreateRows`, `StartRows`, and no other handler of the user holds a snapshot). `FirstMembers` counts: at most k
  members of a finite set have fewer than k below them, which is why the loop stays in the quota. `ResumesAsTheLoop`: before
  its turn n the loop has taken the rows of `Resumed` below n. A row that is refused for want of room is followed by none
  that finds room (`FullOnceRefused`), and the oldest row of an identity is either taken or refused so. `Refinement` maps
  active rows to claims and each step to `Take`, `Drop` or a stutter. `ActivationIsUnchecked`: the ORM clears
  last_checked_at only if it was loaded, so no row that was loaded unchecked may be checked before `/start` commits:
  `BatchInv` (a row in the collector's hands is active or deleted) and `PausedInv` (a row that will not be cleared is
  unchecked and not in its hands).
* `CollectorProofs`. `IInv` adds to types what links the run's stale reads to the tables: `RowsKept` (recent rows exist),
  `KeyWasMet` (a checked key had rows), `RunCovers` (no tracker became checked behind the run's back, and a baseline over
  checked trackers is a forgotten key), and `SeenIsKnown` (what a tracker has met is known or was out of sight for a year,
  also across a cleanup that took the key for untracked). `KeyInitialised`, `NeverToldTwice` and `NobodyMisses` follow.
  For the sender, `WaitInv` relates the sleeps to lost alerts and the attempt under way, `AttemptInv` fixes the limit
  of the alert under way by the failures before it, `LostInv` counts lost and waiting alerts against drafted ones, and `FatesInv`
  says that `failures` is the number of losses in a row that the history has, which gives `CircuitOpens`.
* `ScheduleProofs`. `ShownIntervals` is arithmetic: `rounded_interval_min` gives the multiple of a turn that is nearest
  (`RoundingIsNearest`). `ClockInv` (trackers of a key that were checked were checked by one and the same run, in the latest
  window visited) gives `DeepScansOncePerWindow`, which exempts a check that found the key forgotten; `CadenceHolds` needs that a late start moves a due time by
  less than half a turn either way (`SlackIsEnough`).
* `SearchPagesProofs`. Ranks are dense and move by one with each publication or withdrawal. `CoveredInv`: until a listing
  is withdrawn, what has been fetched has no gap, for a new listing pushes the others down, so that they are met twice
  rather than never. `OpenInv` and `ClosedInv`: a listing that the window missed is too high up for the moves that are
  left to carry it to a later page. `SearchInv` says the same of a search, whose pages without news are its last.
  `WindowHasTheNews`, `SilentIsOld` and `SearchesAreComplete` follow.
* `MarketProofs`. `PriceInv` (where there is a reference price for a silent fall, the row has one that is not higher) lets `SyncFall` add one
  `SilentStep` a check, which grows with the price (`OneMoreStep`). That the largest step exists is an induction by least
  counterexample, since `Max` is a CHOOSE. `AlertsMatchTheInbox`: of the places a tracker is told of, the first
  `MaxNamed` are among the first `MaxEvents` (`FirstGrows`). `RepostsAreHidden` needs the sample finite, and prices compared
  both ways: 8% of the cheaper are less than 8% of the dearer. `SampleInv` (a sample is bounded and its ids are distinct)
  makes the statistics numbers. `SnapshotInv` (an hour has one snapshot at most, and statistics on
  their way to it count no more than their sample holds) gives `SnapshotsAreFullest`. The rest is about one sample.
  `PlaceholdersAlwaysAgree`: the loop of `split_low_outliers` has an outcome (`LoopExists`), a round never lowers the
  median and drops a price or changes nothing (`NextStage`), so after as many rounds as prices those dropped are
  exactly those below the cutoff of the rest (`KeptFacts`), and one price test decides as the loop does.
  `DealsAlwaysAgree`: `SortedIsRanked` and `QuartilesInOrder` put the band of usual prices around the median, so that
  what a band calls below the market has a discount (`BelowMarket`, `DealsPay`, `DealsShown`). `PagesKeepTheBest`: the
  order of a page is strict (`FirstInOrder`), so the first n of it are n when there are, and nothing left out comes before
  them (`TopIsFull`, `TopIsBest`). These need `Asked \subseteq Nat`: the API takes the absolute value of a discount.
* `WorkflowProofs`. `LockInv` (one request adds at a time), `LeadInv`, `WatchInv` and `SavedInv` (what was read under the
  lock and was missing is still missing, and a place in the quota is still free; a row that was read is there, or
  the commit fails) give `QuotasHold` and `UserStatusStays`. `SeenInv`, `RefreshInv` and `DataInv` (a dataset that is not truncated has
  what has been on sale since its load began, unless something could hide it) give `MissingAreGone`.
* `DatasetCacheProofs`. What a pass over the entries keeps is a part of them (`AtIsPart`): entries of different keys, no
  more of them and no more listings (`PartHoldsLess`). `RemovedCounts`: a total that counted the entries counts, after the
  subtraction, what is left of them; `EvictedFits`: dropping the oldest ends within both bounds. `CacheInv` is then
  `CacheBounded`; `FlightInv` adds to `OneLoadPerKey` that a task that was forgotten is
  nobody's; an answer is fresh because a hit comes from what `purge_expired` left (`HitIsFresh`).
* `RequestPacerProofs`. `CountInv` ties the semaphore and the queue's counter to the requests that hold or wait, and
  `QueueInv` the queue to those who queue, whatever is cancelled where. `SleepInv`: a sleeper that is not held starts after
  the pause, and reserved starts lie `Delay` apart. `DebtInv`: if all sleepers started as early as they may, the bucket
  would be down to one start per slot by the next start; `BurstsAreBounded` follows by counting who starts before whom.

Some definitions are written so that they can be reasoned about: the provers know nothing of `SelectSeq`, `SortSeq` and
the folds, so what a loop keeps is a set of places (`At` and `Listings` in `DatasetCache`, `At` and `Keep` in `Pricing`,
`FreshPlaces` in `Market`, `Resumed` in `TrackerLifecycle`). Inductions over numbers are arguments by a least
counterexample, since an induction theorem that takes an operator cannot be used; a recursive function is given its value
by showing that some function satisfies its equation, and that no two do (`LoopTakes`).

Only model-checked are the liveness properties `RequestsEnd`, `GroupIsSent`, `WaitersAnswered` and `SearchesEnd`: they
rest on fairness and ENABLED. `SkippedAreReached`, `DeletedNeverResumed` and `NeverDowngraded` are violated
(findings).

## 7. Not modelled

* Response cache, rate limits and currency rates: a wrong value lasts no longer than its lifetime, and nothing that is
  modelled is computed from it.
* The Mini App: which of two late answers it shows, rendering, texts. HMAC verification of Telegram data, start-up and
  wiring, deployment: no state whose interleavings matter.
* Reading endpoints: lists of trackers, leads, events and saved searches, `/price-history`, `/compare`, `/geography`.
* In what is modelled: several query keys (they share no rows, and one run takes them one after another); the
  sleep that throttles two sends; validation of requests; the normalization of Kufar's listings and of words (spelling,
  alphabets); formatting and currencies; how several saved searches share the opportunity board.
* The retention of tracker events and snapshots.
* Duplicates on the wire: after a network error Telegram may have accepted a message that is sent again. The
  code accepts this; `AlertSender` leaves open what arrived.
