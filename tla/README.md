# A verification development for InsightFlow

InsightFlow (`src/`) is a self-hosted analytics stack: an SDK and a REST API
take events, Kafka carries them to a consumer that stores them in ClickHouse, a
forecast service trains and serves models, a NestJS API (the BFF) holds accounts,
dashboards and alerts, and a Next.js app shows them. This directory holds TLA+
models of its parts, TLC configurations that check them on small instances, and
proofs that TLAPS checks for every instance.

`PROJECT.json` is the index: components, runs, the source lines behind each
definition, hazards, findings and theorems.

    tlc -workers 2 -config ConsumerGroup.cfg MCConsumer.tla   # a run
    tlapm ConsumerProofs.tla                                  # the proofs

The lines of `src/` a definition stands for are in `PROJECT.json` under `map`.
A definition marked `mutant` is never used by a model: it is a plausible bug
in the definition that follows it, and substituting it breaks a property of a run.

## 1. The system

| Component | State | Operations | Interacts with |
|---|---|---|---|
| SDK `sdk/src/client.ts` | queue, flush timer, batches in flight, promises | track / identify / page, timer, flush, answer, backoff, close | ingestion API, over HTTP |
| Ingestion API `ingestion/app/{main,ingest_api,auth,producer}.py` | requests in flight, the producer's accumulator | key lookup, rate limit, send, answer, shutdown | Postgres (keys), Redis (limit), Kafka |
| Rate limit `ingestion/app/rate_limit.py` | one Redis hash per key: tokens, ts, time to live | read the clock, run the script | ingestion API, Redis |
| Consumer `ingestion/app/consumer.py` | buffer, pending offsets, position, stop flag | poll, insert, commit, stop, crash, restart, rebalance | Kafka, ClickHouse |
| ClickHouse schema `infra/clickhouse/init.sql` | `events` (ReplacingMergeTree), `kpi_hourly` by a materialized view | insert, merge | consumer, queries |
| Alerts `api/src/alerts` | alerts and alert_events rows, a running flag, the pass's snapshot | cron pass, record, stamp, notify, publish, user edits | forecast service, Postgres, channels, Redis |
| Registry, retraining, forecasts `forecast/app` | artifact and manifest files, the forecast cache, retrain threads | fit, dump, manifest, latest, load, cache get and set | ClickHouse, disk, Redis |
| Detectors, series, evaluation `forecast/app/services` | none: functions of what ClickHouse has and of the day | z-score, IQR, gap filling, holdout, MAPE | alerts, forecasts |
| PDF export `api/src/pdf` | pdf_jobs rows, a BullMQ queue with two attempts | enqueue, render, fail, retry | Postgres, Redis, S3 |
| Accounts and keys `api/src/auth`, `api/src/workspaces` | users, workspaces, members, api_keys | signup, login, refresh, logout, list, invite, issue, revoke | ingestion API, every guarded route |
| Dashboards, widgets, share links `api/src/dashboards`, `api/src/share` | rows | create, read, update, delete, verify a link and read | PDF, public reads |
| Analytics queries, forecast proxy `api/src/events`, `api/src/forecast` | a Redis cache of answers | KPI, funnel, cohort, forecast, models | ClickHouse, forecast service |
| Live metrics `api/src/realtime` | sockets, rooms, the set of subscribed channels | connect, join, disconnect, message | Redis pub/sub |
| Dashboard app `frontend/` | the session and two flags in localStorage, the query cache, forms and buttons | sign in, navigate, create, change, dismiss, draw | the BFF, over HTTP |
| Infrastructure, scripts | configuration | | all |

What is hard, and what makes each part correct:

- **Consumer.** A process may die, or a call fail, between any two of poll,
  insert and commit; the group moves a partition while its old owner still
  buffers rows of it, and there is no rebalance listener. *Correct*: no
  well-formed event below a committed offset is missing from `events`;
  over-counting is bounded by what failed; the lag drains.
- **Rate limit.** The clock is read before the script is awaited, so scripts run
  in another order than the clocks were read; the key expires. *Correct*: what
  is granted is bounded; an expired bucket gives nobody more than a kept one.
- **SDK.** Batches overlap, timers and `close()` race with full queues, answers
  are lost. *Correct*: every event is in one place, every promise is settled and
  says the truth.
- **Ingestion API.** An answer is given while events are still in memory;
  shutdown, crash and revocation come between two awaits. *Correct*: what a 202
  promises holds; a refused request leaves nothing behind.
- **The write path as a whole.** Each part retries what another may have done
  already, and each keeps events in memory that another believes safe. *Correct*:
  what a caller was told is what ClickHouse has in the end, and a KPI counts an
  event twice only for a failure on its way.
- **Alerts.** The row is read at the start of a pass that may last minutes, four
  writes follow each other, and users edit meanwhile. *Correct*: notifications
  keep their cool-down and are in the history, one alert cannot block another.
- **Detectors and series.** Sparse metrics have days without rows and windows
  without variance; events arrive after their day was judged. *Correct*: the days
  are all there and none is still going on, a flag is a deviation, a day once judged stays so.
- **Registry.** Threads write files that requests list at the same time, and
  forecasts are cached after newer models were saved. *Correct*: what is picked
  can be loaded, requests never step back, a new model takes over at once.
- **PDF export.** The row and the queue are two stores, written one after the other;
  the process may die or a call fail between any two writes, and BullMQ runs a job
  again. *Correct*: what is offered for download is there, a finished PDF stays, no caller
  polls for ever.
- **The BFF.** A handler looks a role up, then a row, then writes, and stops at every
  await; ids in paths may be of another workspace; links expire and keys are revoked
  meanwhile; two signups want one slug. *Correct*: every write was the caller's to make,
  every answer stays in its workspace and is recent, only a race ends in a 500.
- **Live metrics.** A socket may leave during its handshake and a role be taken away
  after it. *Correct*: who was greeted hears its workspace, and nobody else does.
- **Dashboard app.** Fetches, mutations and navigation overlap; the query keys name no
  workspace and answers arrive on pages that were left. *Correct*: the user sees what they
  just changed, no form is sent twice or locked, what is drawn is what was answered.

## 2. Modules

| Module | Models | How it corresponds to the code |
|---|---|---|
| `EventLog` | the promise of the consumer group: append, store, commit offsets that cover only stored records | abstract, no code |
| `Consumer` | `consumer.py`, the schema it writes to, Kafka's group from how it is used | one action per stretch between awaits: `Poll` is one turn of `run()` up to its flush decision, `InsertOk` / `InsertRaises` and `CommitOk` / `CommitRaises` are `_flush`, `LeaveLoop` and `Close` the `finally` block |
| `TokenBucket` | the ideal bucket: never expires, time only moves forward | abstract, no code |
| `RateLimit` | `consume()` and the Lua script | `ReadClock` is line 59, `Script` the atomic script with its EXPIRE |
| `SdkClient` | `client.ts` | an action is one JavaScript callback; `Answer` is one turn of `send()`'s loop with its try and catch |
| `IngestApi` | a POST from the key lookup to the answer, the producer, shutdown | the rate limiter is either answer here; `Deliver` and `DeliveryFails` are aiokafka's sender |
| `Delivery` | what a caller of `track()` is promised: told, kept by the broker, stored | abstract, no code |
| `WritePath` | `SdkClient`, `IngestApi` and `Consumer` composed | the API's requests are the SDK's attempts, its answers the SDK's, its log the consumer's; `Reaches`, `Answered` and `Cut` are the network between them |
| `AlertEvaluator` | the cron pass, `AlertsService`, `NotifierService` | each call of `evaluateOne` is an action, because a crash or a user may come between any two |
| `DailySeries` | `series.py`, the split of `evaluation.py` and the runners | `Fetched` is `fetch_daily`, `RunnerSplit` the slices in `fit_and_persist` |
| `Detectors` | `anomaly.py` and its router | `Answer` is `post_anomaly` |
| `Forecasts` | what `POST /forecast` answers with: `fit_and_persist`, `forecast_from_artifact` and the points of `forecast.py` | operators on the series of `DailySeries`; what Prophet and pmdarima predict is any number with a band around it |
| `ModelRegistry` | `registry.py`, `_retrain_pair`, `post_forecast`, the cache | a thread may stop between any two file operations; a request runs on the event loop and stops at awaits only |
| `PdfJobs` | `PdfService`, `PdfRenderProcessor`, BullMQ from how it is used | one action per awaited call of `enqueue()` and `process()`, and one for its raising; `Take`, `Return`, `Throw`, `Stalled` are BullMQ |
| `Requests` | what the BFF's handlers share: the tables, a request in flight, the JWT and workspace guards, roles | `Arrive` is the strategy and the pipe, `Authorise` the guard's lookup |
| `Accounts` | `auth`, `workspaces`, `api-keys` | one action per query of a service; a transaction is one action |
| `Boards` | `dashboards`, `widgets`, `share`, and the row operations of alerts and PDFs | the same |
| `Analytics` | `events.service.ts`, `with-workspace.ts`, the forecast proxy | cache lookup, query with its time-out, what is made of the result, cache write |
| `LiveMetrics` | `metrics.gateway.ts` | the handshake up to `subscribe`, the answer of Redis, `hello`, the disconnect |
| `ControlPlane` | the five together, with a clock and a restart of the process | |
| `QueryCache` | React Query as `providers.tsx` sets it up, and `apiFetch` | one entry per query key: data, fetch in flight, error, invalidated |
| `Pages` | the pages, the layouts' guard, the forms and the getting-started card | `Go` is a navigation, `Submit` and `Succeeds` a mutation with its `onSuccess` |
| `Drawings` | the models page, the forecast, funnel and cohort charts | pure operators |
| `Browser` | a tab: the three together and the network | |
| `MCConsumer`, `MCIngestApi`, `MCControlPlane`, `MCBrowser`, `MCDetectors` | constants of the runs | |
| `ConsumerProofs`, `RateLimitProofs`, `IngestApiProofs`, `WritePathProofs` (with those of `SdkClient`), `ForecastProofs` (`ModelRegistry`, `DailySeries`, `Detectors` and `Forecasts`), `BackgroundProofs` (`AlertEvaluator` and `PdfJobs`), `ControlPlaneProofs`, `BrowserProofs` | theorems | section 5 |

How they fit: `WritePath` instantiates `SdkClient`, `IngestApi` and `Consumer`;
`RateLimit` refines the nondeterministic `Limit` of `IngestApi`. The flagged days of
`AlertEvaluator` are the answers of `Detectors`, which read the `kpi_hourly` that
`Consumer` fills. `Accounts` revokes the keys that `IngestApi` looks up. What `ControlPlane`
answers is what `QueryCache` fetches: the tab takes any answer that says what was stored
for its workspace when it was read.

Abstractions worth knowing:

- Records, events, alerts and models are names. Only what a property tells apart
  is kept of them: malformed, unwritable, the partition, the order.
- Kafka's group is `owner` and `committed`: a member may be evicted at any time
  and does not notice, and a commit is refused unless the member owns every
  partition of it. Offsets resume from `committed`.
- A failed insert may have written any part of its rows, a failed commit may have
  been applied to any of its partitions, a failed delivery may have reached the
  broker, a failed Postgres write may have been done.
- The retries of the SDK carry new event ids: `track()` sends the caller's `event_id`
  only if there is one (`types.ts:33` makes it optional), and the API makes one up otherwise.
- The directory listing of `latest()` is one step. A thread may add a file while
  it is listed; the models it would then miss were saved after the request came.
- Days are flagged once and stay so in `AlertEvaluator`: `AnswersAreLocal` of `Detectors` says
  so, as long as no event of a judged day or its window is stored late.
- The detectors compute in exact fractions what pandas and numpy compute in floating point.
- One API process is modelled for alerts and for the BFF, as in the compose file. The
  `running` flag and the gateway's sets are per process; with two, passes would overlap.
- BullMQ is its documented behaviour: an attempt that raises is repeated while attempts
  are left, a job whose worker died is taken back once. Which waiting job comes next is
  left open. The worker and the API are one process, as in the compose file.
- In the BFF a password, a token or a link's signature is whom or what it names; what SQL
  computes from `events` is any result of that query's shape, and `ReadoutsMatch` is about what
  the handler makes of it. A workspace is named after the user whose sign-up made it.
- React Query is its version 5: `invalidateQueries` refetches the mounted queries, cancels a
  fetch in flight only if the query has data, and marks the rest; a failed fetch is tried
  once more. `gcTime` and the refetch on focus or reconnect only add fetches and are left out.

## 3. What the runs check

Eleven runs pass; one shows a disagreement (section 4). Each module's types are
checked, as `TypeOK` or in `IInv`; `IInv` (`PdfInv`, `PathInv`) names what is proved by induction.

**WritePath** (two events, batches of two, one retry; one API process, one worker that
polls two records; one fault anywhere: of the API, the network or the consumer; a
revocation). `PathInv`: each part keeps the invariant it was proved to have alone, with the other
parts as they are instead of any environment, no attempt reaches the API twice, and every attempt that another
followed took a failure. Of the SDK's part: `TimerGuardsQueue`, a timer is armed exactly while events are queued;
`EveryPendingIsSomewhere`, a pending event is in the queue or in one unfinished
batch; `AcceptedAsAnswered`, an event is accepted once if resolved, plus once
per lost answer. `CopiesNeedFaults`: a KPI counts an event at most
(1 + API faults + cuts)(1 + consumer faults) times, though every retry has new ids. With one fault anywhere the run
has one of the two factors above one at a time; that the product is right for both is the theorem `CopiesAreBounded`.
`PromisesKept`: in the end every caller is told, a resolved event is in ClickHouse -
unless it was in a batch and the API failed - and the consumer has no lag.
`ImplementsDelivery`: a refinement of `Delivery`; a caller whose event was alone in its
batch is told of success only when the broker has it. Two events make one batch or two
that overlap. Shutdowns and rebalances are left to the runs of the parts.

**ConsumerGroup** (two workers, two partitions of two records, one of them malformed and
one not encodable; batches of three; one fault, one rebalance, one stop).
`NoLoss`: a committed offset covers stored events only. `WithinBounds` is three facts:
`BufferBounded`, the buffer stays under two batches; `DuplicatesNeedFaults`, an event is
counted at most (1 + faults)(1 + rebalances) + rebalances times; `UnwritableHoldsPartition`, a row
the insert call cannot encode is never passed by a committed offset - the partition stops
for good, since nothing sets a bad row aside. `IInv` is the inductive invariant
of the proofs. `ImplementsEventLog` is the refinement. A rebalance that takes one of
two partitions makes the commit for both fail; a batch of three lets a flush
hold records of before and after it.

**ConsumerLive** (one worker, two partitions of two records, one fault, one
rebalance, one stop). `LagDrains`: every published well-formed event is stored, and the
committed offsets pass it for good. The latter holds only
without a rebalance of a worker that holds partitions: such a worker
keeps its pending offsets and may commit them after the partition came back, below
the group's offset, and if no record follows the lag stays visible until the next
one (nothing is lost: the records are stored again). `CommittedNeverRegresses`
is the same fact as an action property: without such a rebalance offsets
never move back, even across crashes. Offsets of malformed records at the end of a partition
are not committed until a well-formed one follows; the lag is of well-formed records.

**RateLimit** (two requests, rate 2, burst 3, script late by at most one tick,
eight instants). `GrantBound`: the tokens granted are at most one burst, the rate
since the start, and the ticks by which `ts` was moved back. `IInv` is its
inductive strengthening (section 5). `ImplementsTokenBucket`: as long as no script
stored an older time, every step is one of the ideal bucket, so that expiry is
invisible (the time to live, fill time plus a minute, is what makes it so). The
deadlock check is off: the clock is bounded.

**IngestApi** (a body of one event and one of two, two processes, one fault, a
revocation, shutdowns). `IInv`: `SingleAckIsDurable`, the 202 of a single event means the
broker has it; `AckedIsKept`, without a fault an acknowledged event is in the log
or with a producer, across shutdowns; `BodyOrderKept`; `RefusedLeavesNothing`,
also for requests after the revocation - as the code looks keys up, not as `auth.py`'s docstring has it (section 4).
`AckedReachesLog`: without a fault it arrives.

**AlertEvaluator** (a healthy alert, one the forecast service refuses, a threshold
alert; cool-downs of 2 and 3 ticks, four instants, one day, one fault, two edits, two
activations). `IInv`: `NotificationsSpaced`, two notifications of an alert are a
cool-down apart whatever fails in between; `NotifiedIsInHistory`; `RunningIsOnePass`.
`StampRespectsCooldown`: the cool-down judged on
the row of the start of the pass still holds when it is stamped.
`FlaggedIsNotified`: one alert cannot keep the others from firing. The cool-downs
are at least two, or the first property would hold of any two instants.

**Detectors** (a training window of five days, a holdout of two with a margin of one, seven days,
amounts up to two, one late event; z-score with two windows, IQR with one; models of at least two days, a horizon of two,
predictions around zero and below). `SeriesIsWhole`:
what is fitted and scored has every day up to the last with data, and not the day
that is going on; the split of the helper, which the tests check, is the one the runners write
out. `FlagsAreDeviations`: no day that is what was expected is flagged, after days all alike
exactly a day that differs is. `AnswersAreLocal`: a day once judged is judged the same
until it leaves the window, unless an event of that day or its window is stored late - then a flag that was notified may
go, which is the code's way and is not ruled out. `AnswerContinues`: the rows of a forecast are
days one after the other, the past as it was when the model was fitted and never more than is stored when it is
asked for, the future from the next day on, not below zero and with the band around the point - except Prophet's when the whole
band is below zero (section 4). Windows of two and three days inside five let days enter, be judged and leave.
The deadlock check is off: the days are bounded.

**ModelRegistry** (two threads, one client, three saves, one fault). `IInv` has `PickedIsLoadable`:
a picked model's artifact is whole, since its manifest is written last and is parsed when it
is listed. `ServedNeverOlder`: overlapping retrains never make a request step back.
`ForecastIsFresh`: no cached forecast outlives its model. `ArimaGetsItsTurn`: ARIMA follows whether Prophet was saved,
failed to fit or failed half-way through its save; a crash *while Prophet is fitted and saved* is the only excuse
(`crashes`, a history variable, counts them), and no other fault is one. With one fault a
failed save leaves no crash to come, so behind it the property is without exception. Its two mutants end the pair
after any Prophet, and after one whose save failed only. Fits that fail are not counted and always possible.

**PdfJobs** (two jobs for one dashboard, two attempts, one stall, one failed call per job, two
deaths of the process, a deletion). Rendering may fail at any attempt and is not counted.
`PdfInv` has `DownloadHasFile`, a URL is given for stored files only, and `CompletedIsDone`, what the queue
counts as completed is a PDF. `DoneIsFinal`: a finished PDF is only attempted
again after a failed call or a crash. `UnfinishedIsHeld`, `EveryJobEnds`: a
row that says queued or running is held by its request or by the queue and ends, also
across one death during an attempt; the exceptions (`Excused`) are a failed call for that job, a
death between the row and `queue.add`, and more deaths than BullMQ forgives. Two deaths and one stall
are what it takes to see the last of them. The deadlock check is off: all jobs may have ended.

**ControlPlane** (three users, two of whom have workspaces, the second perhaps a member or viewer of the
first's; two requests at once, symmetric; eight rows, two key prefixes; a clock of four ticks, KPI answers
kept for one and reports for two; a restart of the process). A behaviour draws one of thirteen mixes: operations
that share state, two or three requests of them. All pairs of operations on one resource are in a mix, and the
races that need a third request have one. `IInv`: `NoOrphans`, a widget or link that is there has
its dashboard; `SlugsUnique`; `HelloMeansLive`; and what the proof needs of the requests in flight (section 5).
`ChangesAreAuthorised`: every change to members, keys and rows is made by a request that ends with it, is in the
workspace the request named, and its caller held a sufficient role at some time since it arrived - guard, check and
write are separate steps and the writes name a row by its id alone. `AnswersStayInside`: answers are of the workspace
asked for, whichever cache or service they came from, and a tick reaches members only. `AnswersAreRecent`: an
answer is at most its time to live and one query old (the guard of `Tick` that lets no query outlast ClickHouse's time-out
holds until its handler is done with Redis too, so the few moments of a SET count as part of the query). `ServedLinkWasLive`: a page is served only if its link was good when
the request arrived. `OnlyRacesFail`: a 500 needs another writer, a failed service, three taken key
prefixes in a row or a slug of which all five forms are taken. `ReadoutsMatch`: a funnel never widens and a cohort has its users in their week, whatever rows the query leaves out.
The deadlock check is off: a behaviour ends when its requests are answered.

**Browser** (two workspaces, two items per list, two calls in flight, one or two failures; seven mixes of up to three
user actions, with what other users, another tab and reloads do). `IInv`: `CacheIsPast`, the cache holds what the workspace it was asked
for has or had, or is about to answer; `OneSubmission`, a button is pending exactly while its one call is in flight; `DismissedIsEarned`,
the getting-started card goes by itself only when the user has done all five steps; `OwedComes`, a
change that a mounted query does not show yet is in the fetch that comes next; `OwedIsStored`, what the user
was told is saved is stored.
`ShowsOwnWrites`: once nothing is in flight a mounted query shows at least what the user's last change left behind. It has one
exception, which the code has too: a change that succeeds while the first load of its list is in flight, or while a
fetch of a page that was left is, may stay hidden until the next fetch. `DrawnAsAnswered`: the models page has the newest of each kind and picks one no
worse than the other, a funnel narrows, a forecast has its past before its future, a cohort's shares stay within the whole.
`EveryWaitEnds`: no button, loading page or guard waits for ever. The deadlock check is off: a behaviour ends when the user is done.

Bounds are named in the modules (`MaxLog`, `MaxFaults`, `MaxClock`, ...) and sit in
the guards of the actions they stop. They were chosen as the smallest with which
every action fires and every mutant is found, and raised by one where the run stays
under two minutes or so.

### Fairness

- Consumer: weak fairness of a worker's next step (the event loop runs and
  `restart: unless-stopped` in the compose file starts a process again) and of the
  group's assignment of free partitions. Appends, faults, evictions and stops
  are never forced, and are bounded.
- Write path: one weak fairness, of what the parts do on their own (`Advances`): timers and backoffs end, requests
  reach a process and their answers the SDK, handlers and deliveries go on, the worker takes its next step.
  Nothing of the application, of revocations or of failures.
- Ingestion API: the event loop runs ready handlers, a delivery ends one way or the
  other (aiokafka's request timeout), a process that was stopped is started again.
- Alerts: time passes, the cron job ticks, a call that is under way ends.
- PDF: awaited calls return or raise, the backoff and the lock run out, the process is restarted.
- Registry: threads and the event loop run, Redis calls return.
- Browser: fetches and calls are answered or fail, and React runs the layout's effect.

All of it is weak fairness; nothing is assumed of users or of failures.

## 4. Where the repository disagrees with itself

One run's property quotes the repository and TLC violates it.

| Run | The repository says | The code does |
|---|---|---|
| `SdkClientRefused` | `client.test.ts:78`: "rejects 4xx without retry" | the error of a 4xx is thrown inside the `try` and caught for a retry |

Noted while modelling, without a run of their own.

The write path:

- `consumer.py:5-6` and `init.sql:14-15` say reprocessing "will not double-count"; `mv_kpi_hourly` adds
  every inserted row, so an insert repeated after a crash counts twice in the KPI tiles (`CopiesNeedFaults` bounds it).
- `producer.py:66-67`: "send_and_wait on each is fine because the producer batches under the hood"; the batch
  path awaits `send()`, which only accumulates, and the 202 comes before any delivery (the exception in `PromisesKept`).
- `consumer.py:151` restores the buffer "so the next loop retries" though the raise
  leaves the loop (the `finally` block or the restarted process retries).
- `auth.py:8-9`: "Lookups are cached in Redis with a 60s TTL"; there is no cache. `_lookup_key` (`auth.py:63-75`) asks
  Postgres for every request, so that a revocation holds from the next request on, as `SECURITY.md:30` has it ("revoked
  keys ... are rejected at the ingestion edge"), and Postgres is not spared what the docstring wants to spare it.
  The docstring and `RefusedLeavesNothing` exclude each other: the mutant `FoundCached` is that cache, and with it TLC
  finds a request that came after the revocation and leaves its events in the log. Who adds the cache has to weaken the
  property to "60 seconds after the revocation", or drop the entry when the key is revoked.
- `SECURITY.md:35` promises 1,000 events per second sustained, while
  a late script moves `ts` back and the same time is refilled twice (`GrantBound` says by how much).

Alerts and forecasts:

- `architecture.md:104-106`: "if the most recent point is flagged"; the last flagged point of the whole
  answer is taken, however old.
- `README.md:63`: a 40% drop "pages someone the same hour"; gaps are filled only up to the last row
  (`series.py:108`), so a metric that falls silent is not flagged while it is silent, and today is never answered for.
- A crash between the stamp and the notification leaves everybody untold until the cool-down is over.
- `registry.py:12-13` says a forecast "reads the latest", while manifests are sorted by names that begin
  with the kind, so that a request without a kind gets any Prophet model before any ARIMA model;
  `registry.py:13-14` promises a retention sweep that does not exist.
- `models/page.tsx:64-68`: "Dashboards use whichever model has the lower MAPE"; the same page, at 160-163: they "pick Prophet by
  default". The code does the latter for a request that names no kind. MAPE is NaN for a metric whose last days are all zero.
- `test_prophet_runner.py:44` says "Bands bracket the point estimate"; `prophet_runner.py:140-141` clips the point and the lower
  edge at zero and not the upper edge, so that of a prediction wholly below zero the upper edge comes out below the
  point (the exception in `AnswerContinues`). `arima_runner.py:157-160` clips all three.
- The `failed` a first attempt writes on a PDF job turns into running again.

The BFF and the app:

- `auth.service.ts:49` calls a slug search race-tolerant; two signups with one slug end in a 500 for one of them.
- `api-keys.service.ts:38-39` gives a collision about 1 in 2^60; a prefix has three random characters.
- `share.service.ts:166-170` says a link to a deleted dashboard is a 404; its row is gone with it, and the answer is a 401.
- `workspaces.service.ts:55`: an owner may invite themselves with a lower role and leave the workspace without an owner.
- `architecture.md` has the consumer publish `metrics:tick`, which nothing does, and the app listens for an `alert` nobody emits.
- `GettingStartedCard.tsx` says to save the secret now (line 109) and hides it as soon as the refetched keys arrive (line 312).
- The query key of a KPI tile holds the time of its render, so it is fetched without end; the filters reach no widget
  (`lib/filters.ts:4`); logging out leaves the query cache, whose keys name no workspace, and `refresh()` is never called.
- `SECURITY.md:39-47` promises that workspaces are isolated. `dashboards.service.ts` looks a dashboard up with the caller's workspace;
  `pdf.service.ts:17-32` stores and queues the dashboard id of the path without that lookup, and `process()` finds the board
  by its id alone (`pdf-render.processor.ts:47-50`). `AnswersStayInside` is about the row of the PDF job, which is of the caller's workspace; what is on
  the page it prints is not in the model, so the property does not say that the file is of the caller's workspace, and the code
  does not see to it.
- A board whose load failed shows the empty canvas, the alerts page nothing.

## 5. What is proved

`ConsumerProofs` (checked by `tlapm`), for any number of workers and partitions, any
log length, batch size, malformed and unwritable records, and any bounds on faults,
rebalances and stops. The only assumption is `ConsumerAssumption`: bounds are
naturals, a batch holds at least one row, no worker is `NoWorker`.

| Theorem | Says |
|---|---|
| `TypeCorrect` | `Spec => []TypeOK` |
| `Invariant` | `Spec => []IInv` |
| `NothingLost` | `Spec => []NoLoss` |
| `UnwritableHolds` | `Spec => []UnwritableHoldsPartition` |
| `Bounded` | `Spec => []WithinBounds` |
| `CommitsOnlyGrow` | `Spec => CommittedNeverRegresses` |
| `Refinement` | `Spec => ImplementsEventLog` |

`NoLoss` is not inductive: it says nothing of a worker about to commit. `DataInv`, the part of
`IInv` for it, adds three facts. `PassedIsCovered`: a well-formed record below a worker's
position, or not above an offset it has noted for a commit, is in `events` or in that
worker's buffer. `CommitsWithEmptyBuffer`: a worker that commits has nothing
buffered, so what its pending offsets cover is in `events`.
`WithinLog`: nobody is past the end of the log. `PassedIsCovered` is what survives a
rebalance: the worker keeps its buffer and its pending offsets, and moves its position
to a committed offset, below which `NoLoss` has everything stored. It would fail if
a rebalance emptied the buffer but not the pending offsets, or if a failed
insert did not restore the buffer.

How often an event is counted is the hardest of the bounds. `CopiesAccounted` pays for copies in advance: the copies in
`kpi_hourly`, those in buffers, the fetches a worker may still make of a record (`Ways`) and the one that follows
its end unless its commit will be accepted (`Undisturbed`) are together what the faults and rebalances
so far allow. A commit frees the fetch it saves; a crash multiplies by what is still in flight, hence the
product. A rebalance may add one copy more, because the old owner inserts after the new one has
resumed from an older offset: the summand in `DuplicatesNeedFaults`, which is the number of such workers and not a fault's.
The sums are over finite sets of workers; `AddsTyped`, `SumChange` and their
neighbours say of the fold of the community modules what the account needs. `OffsetsInOrder` is what
`CommitsOnlyGrow` needs: without a rebalance, committed offset, noted offset and position of an owner are in that order.

The proof has one lemma per kind of step (`PollInv`, `InsertInv`, `CommitInv`, `JoinInv`,
`EndInv`) on top of lemmas about what a poll, an insert and a commit do to the state,
and `MaxOfOffsets`, that the greatest of a set of offsets is one of them.
An insert with a row the client cannot encode raises before it writes, so such a row is never
in `events`; by `NoLoss` no committed offset covers it, which is `UnwritableHolds`.
The refinement follows from the invariant: an insert is a `Store`, a commit a
`Commit` because of `NoLoss'`, and every other step leaves the log's variables alone.

`RateLimitProofs`, for any number of requests, rate, burst, costs and length of a run,
assuming `RateLimitAssumption`: rate and burst are positive, costs are positive
naturals, and a script is late by at most `Slack`, the minute added to the time to live.

| Theorem | Says |
|---|---|
| `TypeCorrect` | `Spec => []TypeOK` |
| `Invariant` | `Spec => []IInv` |
| `Bounded` | `Spec => []GrantBound` |
| `Refinement` | `Spec => ImplementsTokenBucket` |

`GrantBound` says nothing of the tokens stored, so it is not inductive. `IInv` accounts
them: granted and stored tokens together are at most a burst and the rate times
`ts + regressed`, every tick of which was refilled once. The hard case is a script that
finds no key and starts a full bucket, which would give tokens away unless the old bucket
would have been full by then: `IInv` keeps `ts + Ttl <= expireAt`, and
`GoneIsFull` concludes with `TtlFills` that a script of any allowed lateness finds the
key gone only a fill time after `ts`. `ScriptAccount` is the step of the script;
`ScriptServes` says that one that does not move `ts` back is a `Serve` of the ideal bucket,
which gives the refinement. Without `MaxDelay <= Slack` it fails: a script later than a minute could
find the key gone too early by its own clock.

`BackgroundProofs` has the theorems of `PdfJobs`, for any set of jobs, number of attempts and stalls, and bounds on
failures, assuming `PdfJobsAssumption` (at least one attempt; `NoJob` is no job).

| Theorem | Says |
|---|---|
| `PdfInvariant` | `PdfSpec => []PdfInv` |
| `DownloadsWork` | `PdfSpec => []DownloadHasFile` |
| `CompletedJobs` | `PdfSpec => []CompletedIsDone` |
| `UnfinishedJobs` | `PdfSpec => []UnfinishedIsHeld` |
| `FinishedStays` | `PdfSpec => DoneIsFinal` |

`PdfInv` ties the stage of `process()` to what it has written: a worker about to write `done`
has stored the file, one about to return has written `done`, one about to raise
has written `failed` or is excused. The job a worker has is active in the queue, so nobody else
writes its row; a job that is still in the queue has an attempt left; and the stalls of a
job, with the one to come if it is active without a worker, are at most the crashes - so that BullMQ gives
up silently only after more crashes than it forgives. The proof is one step per action.

`IngestApiProofs`, for any requests, processes, faults and sizes of their bodies, assuming
`IngestAssumption` (a body has at least one event; `NoProcess` is no process).

| Theorem | Says |
|---|---|
| `Invariant` | `Spec => []IInv` |
| `SingleAcksAreDurable` | `Spec => []SingleAckIsDurable` |
| `AcksAreKept` | `Spec => []AckedIsKept` |
| `OrderIsKept` | `Spec => []BodyOrderKept` |
| `RefusalsLeaveNothing` | `Spec => []RefusedLeavesNothing` |

`IInv` ties how far a handler is to what it has handed to its producer (`HandlersAgree`).
`SentInOrder` follows the events of one body: they go through one process, in the order of the
body, those in the log before those in the accumulator; a delivery moves the head of an
accumulator to the end of the log and so keeps it. `SentIsKept` says, as long as nothing
failed, that what was sent is in the log or with a producer, from which `AckedIsKept` follows.
`QuietCore` is the lemma for all steps that move no event; `SendCore`, `LeaveCore` and
`CrashCore` are those that do.

`WritePathProofs`, for any number of events and retries and any batch sizes, processes, workers and faults, assuming
`SdkAssumption`, `IngestAssumption` and `ConsumerAssumption` of the parts.

| Theorem | Says |
|---|---|
| `Invariant` | `Spec => []IInv`, of the SDK alone |
| `EventsArePlaced` | `Spec => []EveryPendingIsSomewhere` |
| `CallersAreToldTheTruth` | `Spec => []AcceptedAsAnswered` |
| `PathHolds` | `PathSpec => []PathInv` |
| `CopiesAreBounded` | `PathSpec => []CopiesNeedFaults` |
| `PathDelivers` | `PathSpec => ImplementsDelivery` |

The first three are about the SDK against an API that may answer anything. Neither of the last two of them is inductive:
the first does not say that an event is in one batch
only, the second not that the promises of a batch are settled together. `IInv` adds
`TrackedIsPlaced` (a tracked event stays for good in the queue or in a batch),
`QueuedIsPending`, `BatchesApart` (batches and queue share no event) and `BatchAgrees` (what became of an event is
what became of its batch, and every attempt lost at most one answer). `TakeCore` is
the one lemma behind a full queue, the timer, `flush()` and `close()`, which
all take a batch off the queue while others are in flight.

The composition uses the proofs of its parts instead of repeating them: `ClientSteps`, `ApiPathSteps` and `GroupPathSteps` say
that each step of the path is a step of one part and leaves the others alone, or is one of both sides of a call; so
`SdkClient`'s, `IngestApi`'s and `Consumer`'s inductive invariants hold of the path. What is new is what they know of each other.
`AttemptsKnown`: a request of the API is an attempt of the SDK, sent once, and with its events; so a key of the log, the
request and the place in its body, names one event (`SentEvent`, `SameOrigin`). `FailuresCounted`: an attempt that
another followed and that left events behind was cut or met a failure of the API, so a batch has at most one more such
attempt than there were failures. `CopiesInLog` turns this into a bound on the copies in the
log, `DuplicatesNeedFaults` of the consumer bounds the copies of each, and the product is `CopiesNeedFaults`.
For `PathDelivers`, `AnswerRefines` is the step that needs the API: a 202 for a body of one event was given after the broker
took it (`SingleAckIsDurable`), so the caller is told what is so.

`ForecastProofs`, for any number of threads, clients and models, and any bounds on saves and
faults, assuming `RegistryAssumption` (the bounds are naturals); for any training window, holdout, margin and number of days, and
any windows and thresholds that may be asked for, assuming `SeriesAssumption` (the lengths are naturals, the window
and the holdout not 0) and `AskedAssumption` (one of the two methods, a window of at least two days, a positive threshold, as
`AnomalyRequest` of `schemas/__init__.py` validates them); for any horizon and predictions, assuming `ForecastAssumption` (a
model has at least one row, and what a library predicts lies within its band).

| Theorem | Says |
|---|---|
| `Invariant` | `Spec => []IInv` |
| `PicksCanBeLoaded` | `Spec => []PickedIsLoadable` |
| `ForecastsAreFresh` | `Spec => []ForecastIsFresh` |
| `NeverStepsBack` | `Spec => ServedNeverOlder` |
| `SeriesAreWhole` | `SeriesSpec => []SeriesIsWhole` |
| `FlagsDeviate` | `SeriesSpec => []FlagsAreDeviations` |
| `JudgementsStay` | `SeriesSpec => AnswersAreLocal` |
| `ForecastsContinue` | `SeriesSpec => AnswerContinues` |

`PickedIsLoadable` needs what a thread that stops anywhere leaves behind: `ManifestComesLast`, a manifest is
opened when its artifact is whole; `SavesApart` and `StampsAreNew`, no two threads write one file and no later save
takes the name of an earlier one; `SaveInOrder`, how far a thread is says what it has written. `ForecastIsFresh` is
about requests that run beside saves: `PickedIsFresh`, a request that found nothing cached has picked a model no older
than what was saved when it came; `CacheNotBehind`, what is cached under a model's name is of a model no older. The name
under which a forecast is looked up is that of the newest model, so a newer model misses the cache: that is the whole
argument, and it would fail with a name that left the model out. `NewestStampIs` and `LatestIs` say what `latest()`
returns, for every directory.

The properties of the detectors hold of whatever is stored: of the behaviour they need only its types (`TypedSeries`); the rest is
what the algorithms compute. Theirs is induction over data, and `Onwards` is how it is done here: what holds at 0 and is
passed on holds from 0 to n, stated of a *set* of numbers, which the provers can instantiate, and proved by the
least number outside it (`Least`). With it `FetchedIs` gives the series in closed form, one point a day from the first row
to the last; `TotalIs` and `TotalWithin` unfold a sum, step by step, and bound it. `JudgedIs` says that a day is judged on the
days just before it, which is `JudgementsStay`. `SquaresSuffice` is the inequality of Cauchy and Schwarz: a variance is not
negative, and is 0 only for days all alike, so `ZFlags`' case of its own is about exactly these. `SortedIs` has
the order statistics `Quantile` interpolates between; that they are what sorting gives is checked for windows of up to
four days (`SortedAsSortSeq` of `MCDetectors`).

`AnswerContinues` is about a model and a later table: what it was fitted on is what `FetchedIs` says (`FittedIsPast`), the
table only grows (`PastGrows`), and clipping a band that holds its point keeps the order of the three, but for the edge
that is not clipped (`ContinuesThen`).

`BackgroundProofs` has those of `AlertEvaluator` too, for any alerts, cool-downs, edits and faults, assuming `AlertAssumption` (the
cool-downs are a finite set of naturals, the bounds naturals, `NoAlert` is no alert).

| Theorem | Says |
|---|---|
| `Invariant` | `Spec => []IInv` |
| `NobodyIsSpammed` | `Spec => []NotificationsSpaced` |
| `ToldIsRecorded` | `Spec => []NotifiedIsInHistory` |
| `PassesDoNotOverlap` | `Spec => []RunningIsOnePass` |
| `StampsRespectCooldown` | `Spec => StampRespectsCooldown` |

The cool-down is judged on a row read when the pass began. `SnapshotHolds` is why that is enough: only a pass writes
stamps, there is one pass (`ActivePass`), and it visits an alert once (`RowsInOrder`), so the stamp of an alert
the pass has not got to is still the one in its snapshot. `FireIsDue` carries the judgement through record, stamp and notify,
and `NotifiedIsStamped` says that every notification is at most as late as the row's stamp: the next
fire is a cool-down after the stamp, hence after the notification. Users may edit or delete the row between any two steps; an
edit keeps the stamp. The proof has one lemma for each kind of step (`FireCore`, `RecordCore`, `StampCore`, ...).

`ControlPlaneProofs`, for any users, workspaces, roles, starting database, mixes of requests and
times to live, any number of requests at once and any results, assuming `RequestsAssumption` (`NONE` is no user, 0 is no row's id, the bounds are
naturals), `AnalyticsAssumption` (the times to live and the span of a query are naturals),
`ControlPlaneAssumption` (the database a behaviour starts with is in order: what hangs on a dashboard has it, nobody
signed up twice), `ResultsAssumption` (what ClickHouse counts are naturals, and a `GROUP BY` gives one row per week and offset) and `AccountsAssumption` (a random suffix of a slug is never a time: four characters against eight).

| Theorem | Says |
|---|---|
| `Invariant` | `Spec => []IInv` |
| `WritesAuthorised` | `Spec => ChangesAreAuthorised` |
| `AnswersStay` | `Spec => []AnswersStayInside` |
| `AnswersFresh` | `Spec => []AnswersAreRecent` |
| `LinksServedLive` | `Spec => []ServedLinkWasLive` |
| `FailuresAreRaces` | `Spec => []OnlyRacesFail` |
| `ReadoutsAreRight` | `Spec => []ReadoutsMatch` |

None of the properties is inductive: a request looks up, is judged and writes in different steps, and anybody may
write between them. `IInv` says what a request may rely on while it waits. `AsSent`: it keeps what it was sent with.
`AsFound`: what it has looked up - the workspace of a row or a key, whose dashboard a widget hangs on - stays true, and who came for a link
that was not good does not get to the page. `AsAllowed`: who got past a guard has held a role that suffices since the request came. `CacheInOrder`: a
cached answer is of the workspace in its key and goes a time to live after its query at the latest. `Grows` says why `AsFound` survives
the steps of others: the tables never undo what a request may have found out, since an id is never given
twice and a row never changes its kind, workspace or dashboard. A row may be deleted in between; then the write
finds nothing, and nothing is changed.

`WaitsInOrder` collects this for one request, and the rest of the proof judges a step by the request that took it:
`ReplyKept` and `MovedKept` are the lemmas for steps that read, `WriteKept` with `InsertKept`, `UpdateKept`,
`DeleteKept`, `CreateAccountKept`, `InviteKept` and `KeyKept` for those that write, `SocketMoves` and
`FanoutKept` for the gateway, `StoreKept` and `HitAnswers` for the cache. `FirstIs` says that the
oldest workspace of a user is one of theirs, for any set of workspaces, by the well-foundedness of the order on naturals.

`OnlyRacesFail` needs more of a request nobody wrote beside: `FoundIsThere`, the email, slug or prefix it found free is free and the
row it found has not gone. `Fair` is what a step must be: it writes nothing and leaves the request with what it found, or
everybody in flight is told that it wrote. `ReplyFair`, `NoteFair` and `CommitFair` say so of the three ways a step ends.
A slug that is the time is not looked up (`auth.service.ts:140`), and neither is a prefix drawn in vain; these are the exceptions
besides failed services.

`ReadoutsMatch` has two halves. `ResultsKept` follows a result from the query to the cache and the answer, while its
request waits and others come and go: all steps but the query's own are `Aside`. And `FunnelIsRead` and
`CohortIsRead` say what the handler makes of one: the code adds the counts from the last step to the first, the property sums over a set of
steps, and `SumSetIs` shows the two to be one number in whatever order a set is summed (`TakeOut`), with `Onwards`
again in place of induction.

`BrowserProofs`, for any workspaces, number of items, answers, calls in flight and mixes of user actions, assuming
`CacheAssumption` (`NONE` is no workspace, there is an answer for every report) and `PagesAssumption` (a mix starts
signed in to a workspace or not at all, and creates items its lists can hold), and `AnswersAssumption` (the shape of what
the services answer: what `AnswerContinues` and `ReadoutsMatch` say of it).

| Theorem | Says |
|---|---|
| `Invariant` | `Spec => []IInv` |
| `OwnWritesShown` | `Spec => []ShowsOwnWrites` |
| `DrawsWhatWasAnswered` | `Spec => []DrawnAsAnswered` |

`ShowsOwnWrites` speaks of a page at rest; what makes it so is what is on its way. `Core`, from which both follow, has for every
query key (`Fits`) that its data and the answer of its fetch are what its workspace has or had, and that unless it is marked
invalid its data, and in any case an answer read since, show the user's last change. The rule of
the library that matters is in `InvalidatedFits`: a fetch in flight is cancelled and begun anew when the entry has
data, and *not* when it has none - the exception of `ShowsOwnWrites`. `Settled` says that what a page mounts is fetched or
valid (`AppearSettles`, `GoSettles`), so nothing invalid stays on a page. `ButtonsAgree` and `CallsFit` tie a button to the one call
of its form, through navigation away and back; `SignInsStay` and `SessionOK` say whose tokens a call carries;
`OwedIsStored` needs that the server's lists only grow under the tab (`StoredGrows`). For `DismissedIsEarned`, `DoneIsAll` counts the
five steps of the card. `Frame` says which action changes which variables, and every other lemma
looks only at the actions it names.

`DrawnAsAnswered` follows from `Core`, by which a cached answer is one the service gives, and from a lemma per drawing for any
such answer: `NewestIs` and `ModelsAreDrawn` go over the list of models once, as the page does, `FunnelIsDrawn` and
`CohortsAreDrawn` rest on what a whole division keeps (`QuotientGrows`), `ForecastIsDrawn` on where
the two lists are joined (`Joined`).

Only model-checked:

- liveness, out of the prover's reach: `LagDrains`, `PromisesKept`, `AckedReachesLog`, `FlaggedIsNotified`, `ArimaGetsItsTurn`,
  `EveryJobEnds`, `EveryWaitEnds`;
- that `Sorted` is what sorting gives, for windows of up to four days: the sort of the community modules is
  defined by a choice among all permutations, about which the proofs would need induction over their length.

## 6. Plan

The order is by weight: what loses or doubles data first. Done: the write path in parts and composed,
alerts with the detectors they ask, the registry, PDF jobs, the BFF, the dashboard app,
and the proofs of section 5.

Of the safety properties the passing runs check, every one is a theorem. What is left to prove is the liveness, with a prover
that reaches it.

Left to model: the forecast fan-out (section 7) and two evaluators at once, if the API is ever run as more than one process.

## 7. Not modelled

- Of the app: the landing page, the page behind a share link, filters, theme, toasts and the
  clipboard; `lib/ws.ts` and `lib/pdf.ts`; `refresh()`, which nothing calls. They hold no state beyond what React draws.
- Of the forecast service: the fits of Prophet and ARIMA, the value of MAPE and the enumeration of the
  fan-out of a retraining. They are numerics, libraries, or a list of names.
- Validation of request bodies, the geo and user-agent lookups: they change no state, and appear
  as records that are malformed or not.
- The signature of S3 requests and of tokens: a token is whom it names.
- ClickHouse merges: `events` is a set, its reading with FINAL or after merges.
- `infra/` beyond the schema and the restart policy, scripts, load tests, docs.
- What a PDF shows (section 4): the app draws the page in a headless browser; `PdfJobs` has the job, `Boards` its row.
- An owner who gives up the last ownership of a workspace (section 4): the model takes the step, and no property forbids it.
