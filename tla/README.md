# Verification of the Jersey Ice Cream Platform

TLA+ specifications of the backend, the AI models and the dashboard of this
repository, checked with TLC and, where listed, proved with TLAPS. All paths
below are relative to `src/`; `app/` is `backend/app/`.

## 1. The system

| Component | State it keeps | Operations | Makes it correct |
|---|---|---|---|
| Photo worker (`app/workers/photo_processor.py`) | none of its own; rows of `cart_photos` and `photo_analysis_results`, offsets, events | start, handle a message, mark failed, previous counts, refill | every message handled before it is committed; one analysis per photo; effects at most once; every message committed in the end |
| Event bus (`app/core/events.py`) | producer singleton; a consumer's position | start, stop, publish, consume | a failed publish never fails its caller; offsets committed only behind handled messages |
| Database sessions (`app/database.py`) | one transaction per request | commit, roll back, close | a request's writes are all or nothing |
| Authentication (`app/services/auth_service.py`, `app/api/v1/auth.py`) | `users` rows; blacklist keys in Redis | register, login, refresh, logout | unique contacts, lockout, bounded reuse of refresh tokens, revoked tokens refused |
| Tokens and permissions (`app/core/security.py`, `app/dependencies.py`) | none: signed tokens | create, decode, check | expired, mistyped or revoked tokens refused |
| Redis cache (`app/core/cache.py`) | keys with a TTL; sorted sets of the rate limiter | get, set, blacklist, rate limit, publish | failures never fail a request; the window bounds requests |
| Distributors (`app/services/distributor_service.py`, `app/repositories/`, `app/models/distributor.py`) | `distributors`, `territories`, `warehouses` | create, update, delete, create territory and warehouse, list | unique GSTIN, valid status transitions, deletions that last |
| YOLO inference (`ai/models/yolo/inference.py`) | the loaded model | analyse, compare with previous | counts and sold units of a photo |
| Demand swarm, forecasting, mood (`ai/models/forecasting/`, `ai/models/mood/`) | model files; nothing else | cluster, migrations, features, train, save, load, score | agreement with their definitions, bounded scores, consistent model files |
| Dashboard (`frontend/app.js`) | sections started, feed of actions, carts on the map, refill queue, storyboard step, dialog, timers | show a section, execute an action, change an input, step the tour, simulate an expansion, ingest | each click is credited once, the last data accepted wins, views agree, the tour settles |
| Object storage, lifespan, health (`app/core/storage.py`, `app/main.py`, `app/api/health.py`, `app/core/exceptions.py`) | clients, connection pool, event loop | validate and upload, start, stop, probe, answer exceptions | degraded start instead of none; every connection returned; every request answered; a failed probe has a cause |

**Processes.** The deployment runs several replicas with four workers each
(`infra/k8s/base/backend-deployment.yaml`), so requests of one user run in
different processes, and inside a process at every `await`. What they share is
PostgreSQL (READ COMMITTED), Redis (`allkeys-lru`, `appendfsync everysec`:
keys can vanish) and Kafka. The photo worker is a separate consumer group.

**Interactions.** Services call repositories inside the session that
`get_db_session` opened for the request and that commits after the handler
returned; they call Redis and the event producer in the middle of that
transaction. The photo worker gets `jersey.cart.photo` events, opens a new
session for each step, and publishes events of its own. Every protected route
passes `get_current_token`, which asks Redis.

**Hard behaviours.** Redelivery, eviction and crash of the photo worker
between its transaction, its events and its commit; checks in one await and
writes in another (blacklist, uniqueness, status transitions); transactions
rolled back or acknowledged to nobody; a TTL cut to whole seconds; timers in
the dashboard that outlive what they were set for. `PROJECT.json` lists each
at its line, with the properties that cover it.

## 2. Plan

In order of importance. Done: 1 to 9.

1. `PhotoPipeline`, implementing the abstract `PhotoEffects`; proofs in
   `PhotoPipelineProofs`.
2. `Sessions`: tokens, rotation, revocation, the check of each request.
3. `Accounts`: registration and login in their transactions.
4. `Distributors`: creation, update, transitions, deletion.
5. `RateLimiter`: the sliding window; proofs in `RateLimiterProofs`. `Cache` puts
   2 and 5, which share Redis, side by side for one run.
6. `Dashboard`, on `Ingestion` and `Orchestrator`: sections, timers, feed,
   storyboard, ingestion.
7. `Backend`: the lifespan of an API process, its pool, producer, probes and
   event loop, with dependencies that fail.
8. `Forecaster`: training, saving and loading of the demand models by several
   processes.
9. `Swarm`, `Mood`, `Features`, `Counting`: the pure algorithms, questioned by
   `Insights` (with the formulas of `Orchestrator`) against what they promise.
   `Platform` puts 7 to 9 side by side, `Service` adds 3, for one run.
10. What is left: territories and warehouses, the permission tables, the
    validation of uploads (section 7 says why they come last).

Proved: every invariant, every action property and the refinement that the runs
check, for every value of the constants (section 6). Only model-checked: the four
liveness properties.

## 3. Modules

### PhotoPipeline, PhotoEffects, PhotoPipelineProofs

One action per step of `_process_photo_event` between two awaits or two
transactions: `Fetch`, `Download`, `LoadPrevious`, `Infer`, `Save`,
`MarkFailed`, `Publish`, `Refill`, then `Commit`, which is `consume()`
resuming. `pc[w]` is the place in the handler, `cur`, `baseline` and `counts`
are its locals, `pos` is the consumer's position. `status` and `analysis` are
the two tables; `inventory` and `refills` are the events that reached the
broker. `Start`, `Assign`, `Evict`, `Notice`, `Crash`, `Poisoned` are the
worker's and the group's life around the handler. Histories (`outcomes`,
`deliveries`, `faults`) are read by properties and budgets only.

Every failure the handler catches is an alternative of its step, charged to a
budget: storage, inference, database (rolled back, or committed with the
acknowledgement lost), broker, crash, eviction. `publish` swallows its errors,
so a lost event is a step like any other.

`PhotoEffects` promises, for a photo that has a row: it is analysed at most
once, announced at most once with the counts saved, and refilled at most once
after it was announced. `ImplementsEffects` is the refinement, with the rows
and events of photos without a row mapped away: those are announced on each
delivery, since nothing unique stops them.

### Sessions, SessionsProofs

`tokens[j]` is the token with jti `j`; `blacklist[j]` the instant its key in
Redis expires. `Login` stands for a login that succeeds (`Accounts` has the
rest); `Begin` decodes a token for a refresh or a logout, `Check` asks the
blacklist, `Revoke` writes to it, `Verify` reads the user, `Issue` returns a
pair. `Check` and `Revoke` are two calls of Redis, as in the code. A Redis
call may fail in three ways: the check answers "not listed", the check raises
and skips the revocation, the write is lost or its answer is. `LoseKey` is an
eviction or a restart of Redis, `Die` the end of a process. The clock ticks in
fractions of a second because the code cuts both `exp` and the TTL to seconds.

### Accounts, AccountsProofs

`users` holds the committed rows; a registration walks `CheckEmail`,
`CheckPhone`, `CheckRole`, `Insert`, `CommitUser`, each a query of its own.
`Blank` is the empty string: not "given" to the check, but a value to the
unique constraint. `Insert` waits while another open transaction holds an
equal value. A login reads the row, verifies the password, updates the row
under its lock and commits, or raises and rolls back (`RollbackLogin`).
Suspension and deletion of users have no code here and are steps of an
administrator. That a session commits before or after its response leaves
(FastAPI changed the order within the range `pyproject.toml` admits) makes no
difference to these properties: none speaks of the response.

### Distributors, DistributorsProofs

A request begins with the row it reads (`job[h].read`), looks up the GSTIN or
counts carts, writes a `patch` of only the columns that differ from what it
read, and commits the patch onto the row as it is by then. A creation publishes
before it commits. `Fail` ends a request anywhere: process death, a query or
the response raising (`_to_response` reads `distributor.warehouses`, a lazy
relationship, in an async session), a failed commit or a lost acknowledgement.
Statements are atomic here: a write is enabled once nobody holds what it needs.

### RateLimiter, RateLimiterProofs

`check_rate_limit` for one key. `ReadTime` reads the time (`now` in the code,
`stamp` here), `CheckLimit` is the pipeline
(one `MULTI` transaction: trim, count, add, expire) with the branch on its
count, `Withdraw` the removal of a denied call's entry; other calls run and
time passes in between, so a transaction may run with a time long past.
Entries are sets of times, because the code uses `str(now)` as the member: two
calls of one instant are one entry. `CheckFails` and `WithdrawFails` are a
`RedisError`, before or after the server acted; the code then allows the call.
`admitted` and `used` are histories.

### Dashboard, Ingestion, Orchestrator, DashboardProofs

`Dashboard` is the page: one action per click handler and per timer callback.
JavaScript runs each to completion, so an action is a whole handler, every
function it calls included, and the interleavings are those of timers with
clicks. `timers` holds what `setTimeout` was given, with the values its closure
captured; `Tick` is 200 ms, and a timer that is due fires before the next tick,
those of one delay in the order they were set. `feed[k].build` tells an element
of the document from a later one with the same identifier: some callbacks hold
the element, others look the identifier up again. The dialog covers the page
while it is open. `Ingestion` is the parsing of pasted text and what the pages
derive from a cart, `Orchestrator` the page's formulas.
An element's identifier is a pair of a name and a number: `ingest-act-3` is
`<<"ingest-act", 3>>`, so that identifiers of different carts differ without
arithmetic on strings. What a filter keeps (`Select`) is defined by places, the
k-th being the one with k chosen places up to it, instead of by recursion.

Three things the model keeps because the code does them: the first opening of
the operations page after an ingestion overwrites its refill queue with the
invented one (`IngestAgrees` bounds this to once); after an ingestion
without warnings a removal still on its way counts the element that says so as
a pending action (`BadgeCounts`); JSON that cannot be parsed is read as a table
and becomes carts without names.

Left out: charts, toasts, labels and colours, the alert feed, which only grows,
the drifting counter of assets, planograms, and humidity as an input (it
rebuilds the same feed). Leaflet and Chart.js are taken as loaded. Step 3 of the
tour dispatches two events in a row; the two rebuilds are one here.

### Backend

One process of the API. `stage` walks the lifespan of `main.py`; each step of
the start swallows its failure, so a process serves with whatever is missing.
`checkedout` counts the connections taken from the pool, `producer` is the
singleton of `events.py`, `loop` the request whose synchronous call holds the
event loop (the MinIO client is not asynchronous). A request goes from
`Arrive` through `Checkout` (or `CheckoutFails`, when the database is down or the
pool is taken), its handler, `Publish` and `Commit`, or leaves by `Refuse`,
`Raises`, `QueryFails` or `CommitFails`; probes and the health report take
their own ways. `AnswerTo` is the table of the exception handlers. `GoDown`
and `ComeBack` are PostgreSQL, Kafka and MinIO; `Stop` and `Kill` are Kubernetes
and gunicorn. `troubled` remembers what this life of the process has seen fail;
only `FaultsExplained` reads it.

### Forecaster

The singletons of several processes and the directory they share. A model is
the number of the training that fitted it, so that three models of one training
can be told from three models. `Train` replaces the point estimate before it is
fitted, `Fit` goes on to the bounds; `OpenFile` empties a file, `Dump` fills it,
`LoadPart` reads one: three files, three steps, in which processes overlap and
die. Nothing in the repository calls `train` or `save_model`, so each process
calls the methods in any order.

### Swarm, Mood, Features, Counting, Insights, InsightsProofs

Pure functions, translated operator by operator: zones, heatmaps and migrations;
the mood score with all configured events; calendar, weather and history
features and the formula that stands in for a model; counts and sold units of
photos. Quantities are scaled to integers, `exp` and `tanh` are constants of
which only monotonicity and bounds are used, and a Python set is enumerated in
every order. `Insights` puts one question at a time (`asked`) and compares the
answer with a definition of its own: which pairs of cells really exchanged
demand, which carts share a zone, why demand moved, whether a date lies in a
vacation, how old the sample is that a feature reads, what left a cart. The
formulas of the Melt-Risk page are questioned in the same way.

What adds up, in the code a loop over carts, events or products, is `SumFunction` or
`SumFunctionOnSet`; the multiplier of a category, which each event rounds in turn, is
`FoldLeft`; so the modules declare no RECURSIVE operator and can be proved about.

Where the code does less than its comments promise, the properties of the passing
run claim no more than soundness, and code that kept the promise would pass them
too. A migration is found only where demand was exchanged, in some order of the
cells; that it is found in every order is `MigrationsComplete`, which is violated.
A day that counts as vacation is one, and each day of a vacation within one year
counts; that those of the winter break do is `VacationsComplete`, which is violated.
What is estimated around a photo that cannot be decoded is bounded from both sides.
Two features are left unordered where the code falls back to a newer sample. That
38 and 39 degrees are a risk that no action answers is named in `PageConsistent`.

### Platform, PlatformProofs

`Backend`, `Forecaster` and `Insights` share no state: the endpoints of this
repository call none of the models. `Platform` therefore lets each move only while
the other two are at rest. Every behaviour of each is explored, and
interleaving them would add products of states but no state of any of them.
`PlatformProofs` holds the proofs about `Backend`, `Forecaster` and the whole;
those about a question's answer are in `InsightsProofs`.

### Cache, Service

Two more modules of this kind. `Cache` lets `Sessions` and `RateLimiter`, which
share Redis but no key, move while the other is at rest; `Service` does the same
for `Platform` and `Accounts`, which share no table. The theorems are about the
parts (`Spec`, `LimiterSpec`, `AccountsSpec`); `UsesAlone` and `ServiceParts` carry
them over.

## 4. Runs

| Run | Question | Bounds |
|---|---|---|
| `PhotoPipeline` | all properties of the pipeline and its refinement, with fairness | 2 workers, 4 partitions of at most 3 messages, 2 carts, 2 faults of any kind; ~190 000 states |
| `PhotoCrash` | does reprocessing after a crash complete the effects? No | one crash |
| `PhotoPoison` | is a message that cannot be read passed over? No | no fault |
| `Cache` | bounded exchange, nothing lost, revoked refused; the limiter's bound in the window that ends now, and what uses it up | 2 requests, 4 tokens, 2 s of 2 ticks, 2 faults; 3 calls in flight, limit 2 in a window of 3 instants, 6 instants, 1 failed command; ~3.4 million states |
| `SessionsReuse` | is a refresh token used at most once? No | 6 tokens, no fault |
| `AccountsLockout` | do wrong passwords lock a user out? No | no fault |
| `Distributors` | uniqueness, stale transitions, deletions, announcements | 2 requests, 2 distributors, 1 fault; ~1.2 million states |
| `Dashboard` | credits, counts, agreement of views, the tour | 4 acts of the operator, at most 1 or 2 of a kind, 3 carts, 3 texts; ~436 000 states |
| `Service` | are connections returned, requests answered, faults explained; do models stay together; can the answers of the algorithms be explained; are contacts unique, refusals explained, and does no request of an account stay stuck | 2 requests, a pool of 1, 2 outages, 1 stop; 2 forecasters, 2 trainings, 2 saves, 1 mishap; questions below; 2 registrations or logins, 2 users, 1 failed commit; ~388 000 states |
| `SwarmMigrations` | is every exchange of demand between neighbours found? No | one question |
| `WinterBreak` | does every day of a vacation count as one? No | one question |
| `DistributorsStale` | are stored transitions always valid? No | 1 distributor, no fault |

Two concurrent actors are enough for each race the hazards name: a check and a
write with somebody in between. Three messages let a partition pass a bad
message between two good ones, and change hands on either side of it. Two
faults allow a failure inside the recovery of another. Two rows are the least
that can clash; four tokens are one pair and its successor, and
`ExchangesBounded` counts the requests on their way to a third. Two seconds
let an access token expire and a refresh token reach the second its TTL does
not cover. The window of the limiter holds three instants, one more than the limit,
and slides over six. In the dashboard four acts hold the longest patterns that
matter: open the page, click, change an input, click again; open the page,
click, open the dialog, submit; two steps of the tour around an ingestion.
In `Service` a pool of one is
exhausted by one request and the second meets the full pool; two outages let one
dependency fail while another is down, or twice; two trainings are the least that
can be mixed. Questions: all pairs of snapshots of up to two carts in two zones
of two cells (one moves, two swap, one comes or goes) under all orders of their
cells; all crowds of five carts in three zones, of which at most two can be
crowded; sequences of up to two of eight events over three hours; every date;
histories up to 170 hours, past every lag; up to three photos, so that one lies
between two others; every temperature and selection of the page with the
humidities at which its formulas branch.
Requests and callers are interchangeable, so `Cache` and `Distributors` use
symmetry; runs with liveness do not.

Deadlock checking is off where the bounds end every behaviour, where workers
wait for messages, or where a process may stay down; each cfg says which. That
no request waits for ever is `EveryRequestEnds` and `EveryRequestAnswered`.

The seven violations are disagreements of the code with its own words; the
findings in `PROJECT.json` quote them.

## 5. Fairness

`PhotoPipeline`: weak fairness of each worker's next step (its loop has no
other condition), of `Start` (the deployment restarts a worker that ended), of
a dead member's expiry, of assignment, and of `Notice` (heartbeats). None of
this orders steps or bounds faults; the fault budget is finite, so faults stop.
`Accounts`: weak fairness of each handler (the event loop resumes it) and strong
fairness of the step that takes a row lock, since PostgreSQL queues waiters.
`Dashboard`: weak fairness of `Clock`, the browser's event loop: time passes and
due timers fire. The operator owes nothing.
`Backend`: weak fairness of the lifespan and of each request's next step. The
event loop resumes every handler, since each await ends by itself: the pool, the
database and the broker by their timeouts, MinIO by the connection's. Nothing
has to arrive, stop, fail or recover, so `EveryRequestAnswered` holds with
dependencies that stay down.
`Sessions`, `Distributors`, `RateLimiter` and `Forecaster` state safety only and assume none.
`Service` assumes the fairness of `Backend` and of `Accounts`; a part at rest has no
fair step to take.

## 6. Proofs

`PhotoPipelineProofs` proves, for any number of workers, photos, partition
contents, counts and faults, from the named `ASSUME`s of `PhotoPipeline`:

* `TypeCorrect`: `TypeOK`. It needs `Busy`: a worker inside the handler works
  on an offset that holds a photo message it has passed.
* `NothingSkipped` and `CommittedMonotone`: no offset is committed past an
  unhandled message and the committed offset never moves back. They need
  `QueueInv`: everything behind the committed offset and behind each position
  (but for the message in hand) has an outcome, and the owner's position is
  never behind the committed offset. `HandledBeforeCommitted` alone says nothing
  of positions, and a commit copies one.
* `Implementation`: `Spec => Effects!Spec`. It needs `EffectInv`: which events
  were sent is tied to the one worker whose save succeeded and to where it
  stands. With it each step maps to a step or a stutter of `PhotoEffects`.
* `AnalysisOfCompleted` follows from `EffectInv`.
* `PendingExplained` needs `LedgerInv`, which ties each outcome to the status
  it leaves, and that no step makes a photo pending again.

`RateLimiterProofs` proves, for any callers, limit, window and clock:

* `TypeCorrect`: `LimiterTypeOK`, with the fact that a key that holds entries lives.
* `LastWindowLimited`: while no command has failed and no two calls read the same
  instant, the window that ends at each moment holds at most `Limit` admitted calls
  of those that have run by then. Of earlier windows nothing is claimed, and it would
  be wrong: a call that runs late is counted against what newer calls have left of
  its window, and may be admitted into a full one. The invariant says
  that the times of calls in flight are their own (`OwnTimes`), that the key
  outlives every admitted entry by a window (`KeyOutlives`), and hence that
  every recent admission is still an entry (`Counted`), which a late
  transaction with an old time does not trim.
* `NothingElseCounts`: `EntriesExplained`.
* `UsesAlone`: `CacheSpec => Spec /\ LimiterSpec`, so that what is proved of tokens and
  of the limiter holds of the specification that the run checks.

`PhotoPipelineProofs` has one more theorem, about what sold units are counted
against:

* `ComparedWithEarlier`: `InOrder => (Spec => []BaselineIsEarlier)`. `InOrder` says
  of the partitions that the photos of a cart stand in them as they were taken.
  The code relies on it (`app/core/events.py:21` and `:148`: events are partitioned
  by entity, and the producer is idempotent, so retries do not reorder), and a
  TLC run evaluates it on its partitions; without it the code compares with
  whatever was analysed last. The invariant has two layers. `OrderInv` says that
  messages are delivered in order and that, while a message was delivered once,
  nobody is past it (`Solo`); `ComparedInv` that the worker that holds such a
  message finds no analysis of its photo (`Fresh`) and compares with an earlier
  photo of its cart (`Compared`). A second delivery breaks both, which is the
  exception that the property names.

`SessionsProofs`, for any requests, users, lifetimes and bounds:

* `RevocationsHold`: `RevokedIsRefused`. It rests on `ListedInv`: a key of the
  blacklist outlives its token up to the token's last second, by the rounding of
  `exp` and of the TTL.
* `ReuseBounded`: `ExchangesBounded`. Not inductive: `ReuseInv` adds that, while
  a token is not listed, its exchanges and the requests past the revocation
  (`Settled`) are already paid for by faults; otherwise a request could check a
  token that was exchanged and whose key never existed.
* `TokensKept` (`NoTokenLost`) is inductive with the types; so is `ParentsInv`,
  which keeps exchanges apart.
* `TypeCorrect`: handlers that work on a token work on an issued one.

`AccountsProofs`, for any requests, contacts and bounds:

* `ContactsUnique`: `KeysUnique`. It needs `KeysInv`: what an open transaction has
  inserted clashes with no stored row and with no other open insertion. The first
  is the unique constraint, the second the wait for the other transaction.
* `RefusalsExplained`: `ServerErrorExplained`. Each check that has passed is kept
  as a fact about the rows that were there when the registration began
  (`CheckedInv`); what the constraint then refuses is not among those rows, or
  the check could not see it.
* `TypeCorrect`: `AccountsTypeOK`, which needs `BoundInv`: room for those who register.

`DistributorsProofs`, for any requests, GSTINs, wishes and bounds:

* `GstinsUnique`: `GstinUnique`. `KeysInv`: the GSTIN that an open transaction
  holds is in no other row and no other transaction. `PatchInv` says that a patch
  holds what its request asked for, `JobInv` that a row under creation is one
  handler's.
* `TransitionsExplained`: a status changes to an invalid one only by a request
  that had read another one. `JobInv` keeps that what was accepted was valid
  from what was read.
* `DeletionsLast`: `DeletedStaysDeleted`, since no patch writes a column that its
  request did not change.
* `AnnouncementsExplained`: `AnnouncedExplained`, from `AnnouncedInv`: an announced
  creation that is not stored stands before its commit, or failed.
* `TypeCorrect`.

`PlatformProofs`, over `BackendSpec`, for any requests, pool and outages:

* `PoolCounts`: `NoConnectionLeaked`; the requests that hold a connection are a
  finite set, counted as it changes by one.
* `FaultsHaveCauses`: `FaultsExplained`. `TroubleInv` says that what is down, or
  exhausted, is among the troubles of this life of the process; `CauseInv` that a
  request with a bad answer, or past a publication that was lost, is in flight in
  a life that has seen the cause. A restart forgets troubles, and has no request
  in flight.
* `TypeCorrect`.

and, for any processes, trainings, saves and mishaps:

* `OneTraining`: `ForecasterSpec => []ModelsAgree`. While nothing has spoiled them,
  the three files are alike between saves, one save at a time has written the
  files behind it (`FilesInv`), and the models of a process agree but for those that
  a training or a load has not reached (`HeldInv`).
* `PartsAlone`: `Spec => BackendSpec /\ ForecasterSpec`, and `ServiceParts`: `ServiceSpec
  => Spec /\ AccountsSpec`. `Platform` and `Service`, which explore one part while the
  others rest, add nothing to a part; so what is proved of the parts holds of the
  specification that the run checks.
* `PlatformTyped`: `TypeOK`; `ModelsTyped` is its half for the forecasters.
* `SwarmDescribed`, `MoodReasons`, `ReadingsRight`: `SwarmAgrees`, `MoodExplained` and
  `ReadingsAgree`. The invariant is `QuestionInv`: what is asked is a question of one of
  the eight kinds. The rest is `InsightsProofs`.

`InsightsProofs`, for any carts, events, categories, history, weather and photos (a
question is about two moments, up to two events and up to three photos, as in `Insights`;
the lemmas about scores, multipliers, results and balances take sequences of any length):

* Sums. `SumFunction` folds over a finite set, taking its members in an order that
  `CHOOSE` fixes and nothing tells. `FoldExists` and `FoldUnique` show that a fold has
  a value for each part of the set and only one; `SumRemove`, by induction on the size,
  that it does not matter which member is taken first. From it follow what a sum of
  parts, of zeros, of differences and of groups is (`SumInsert`, `SumUnion`, `SumZeros`,
  `SumBalance`, `SumGroups`, `SumGrows`).
* `SwarmKeeps`. *Migrations* (`BothWays`): an order takes each cell once, so of two cells
  that exchanged demand one comes first in the order and the other in its reverse.
  `Detected` brings the condition of the code, on the smaller of the two amounts, to
  one on each cell. A cart that moves takes its velocity from one sum to another and
  leaves the rest (`MoverTakes`), and no velocity is negative, so the cell it left
  cannot look rising. *Zones* (`Ranks`): members that come at different places, numbered
  by how many come before, have different numbers, and as many numbers as members
  leave no gap; a zone's place is its first cart's (`LeastIn`). The demand of all
  clusters is a sum over groups.
* `MoodKeeps`. What time makes of an event grows only in its first half hour and
  shrinks only when it is over (`LevelMoves`); distance and category keep the sign of
  the impact (`ImpactMoves`); so the score moves only if one of its terms has a reason
  (`ScoreMoves`), and the demand follows it by `BendAssumption`. A category's multiplier
  is a product rounded after each factor: by induction on the events it stays at or
  below one as long as none raises it, and likewise above (`MultiplierMoves`), since
  rounding does not cross a whole number (`RoundedKeeps`).
* `ReadingsKeep`. Vacations and histories are compared by cases. The stand-in
  formula is monotone in its inputs (`Forecasts`). The scores of the Melt-Risk page are a
  recursive function of the hour; that it never rises, and falls with a degree more,
  is an induction on hours (`ScoreFalls`). The photos (`Balanced`): by
  induction on their number, what the first one counted, less what left, plus what
  came, is what the last one counts, since each product balances (`StockChanges`);
  what is estimated between two readable photos is what left between them, so that
  the sum of the estimates lies between two sums (`PhotosAccounted`).

`DashboardProofs`, for any seed, texts, inputs and number of acts:

* `InductiveInvariant`: nine parts in one `IInv`, since timers tie them together.
  What an invariant says of the timers it says of those of one kind: what they are
  about (`Subjects`), that no two are about the same (`Single`), how many they are,
  and which is last (`Ends`). `Appended` and `Expired` say what setting a timer, and
  the firing of the first of its kind, do to these; every action then changes the
  timers of one or two kinds, and `Kept` says that the others keep theirs.
* `CreditedOnce` (`ClicksCredited`) needs `DeployInv`: an element, of this feed or
  an earlier one, is about to be deployed or was, at most once, and one that can
  still be clicked is neither. That the elements of a feed have different
  identifiers needs that `Offered` and `IngestActions` give none twice.
* `RemovalsExplained` (`VanishedExplained`) needs `RemovalInv`: a removal on its way
  has the identifier of a deployed element.
* `BadgeRight` (`BadgeCounts`) is inductive with the shape of the feed.
* `IngestSettles` (`LastIngested`) and `TourEnds` (`TourSettles`) are about an end:
  while data is under way, the data submitted last is the last timer (`IngestInv`),
  and so for the step of the tour chosen last (`TourInv`).
* `ViewsAgree` (`IngestAgrees`): carts with a warning are those that the map counts
  as low or offline, for every text. It counts what `Select` keeps, by the least
  place at which two counts could differ.
* `TypeCorrect`; `StartInv` says that a section is started at most once.

The assumptions on constants are those of the modules: bounds are natural numbers
(`BoundsAssumption` and its like); handlers and requests are finite sets
(`HandlersAssumption`, `RequestsAssumption`), since a deployment has so many
processes with so many connections; the values that mean "none" are none of the
others (`ValuesAssumption`, `NoUserAssumption`, `NoJobAssumption`, `CountsAssumption`); the
seed has a cart of the storyboard, as `app.js` gives it one.

Those of `Insights` say what the algorithms are given. Carts are records whose
velocity and demand are not negative (`CartsAssumption`), a migration's threshold is
positive, photos show finitely many products, each at least once. No event
ends before it begins (`EventsAssumption`): the code does not check it, and such an
event would set in at once, without its first half hour. `FadeAssumption` and
`BendAssumption` are what is used of `exp` and `tanh`: bounds, zero, and that they fall
and rise. TLC evaluates all of them on the values of the run.

The library's induction theorems take an operator and cannot be used. Inductions
are done all the same with a set: `Least` in `DashboardProofs`, from the
well-foundedness of `<`, gives every nonempty set of naturals a least member;
`NatSteps` and `SetSteps` in `InsightsProofs` say that a set that holds the beginning
and is kept by a step holds every natural, or the whole of a finite set. An
induction takes the set of those for which its claim holds.

Only model-checked:

* `EventuallyCommitted`, `EveryRequestEnds`, `DeployedLeaves` and `EveryRequestAnswered`:
  liveness under fairness, out of the prover's reach.

## 7. Assumptions and what is left out

* Photo events are produced outside the repository; a partition is fixed at
  the start. The group protocol is modelled from the consumer's configuration.
* The application's clock is that of Redis, and processes share one clock: the
  limiter's bound rests on that.
* `PhotoPipeline` starts from rows that are pending; no code changes a cart.
* Redis is left out of `Backend`: its client connects to nothing when it is made,
  and callers treat a failure as an answer; `Sessions` and `RateLimiter` have
  its failures.
* Several hazards of `PROJECT.json` are what the code does. Where no line of the
  repository says otherwise there is no violation to show, and the property that
  names such a hazard has it as its exception; the hazard's note says what the
  property still catches.
* Not modelled: contents of images, numbers of a trained model, listings and
  searches, schemas, logging, charts and layout, deployment files. Tables that no
  operation touches (products, orders, forecasts) have no behaviour. A territory
  is looked up by its code and inserted as a distributor is by its GSTIN, and a
  warehouse is inserted without a check: a deletion meanwhile only leaves a
  distributor that is deleted and has them, as one created just before would.
  Permission checks are lookups in a table by the roles of a token; uploads are
  validated by a function that nothing calls. `PROJECT.json` has the status of
  each part.

Met while modelling, and kept in the models as the code has it:

* A pool that is exhausted answers 500 (`app/database.py:18` speaks of 503): the
  exception handlers do not know the error.
* A producer whose start failed is never started again (`app/core/events.py:154`),
  although `events.py:24` promises a retry: its process only logs events.
* The last fit of the point estimate keeps `early_stopping_rounds` and gets no
  validation data (`xgboost_model.py:366`): a training may raise after the old
  model is gone.
* The same hour of last week is read one sample later than the lag of seven days
  (`xgboost_model.py:231` and `:242`): at most one of the two features is what its
  name says. Which one is not for the code alone to tell, and no run shows it.
* Libraries that the code may misuse are taken to work. The producer is given a
  count of retries and snappy compression (`app/core/events.py:143` and `:146`), which
  its library may refuse; `StartProducer` succeeds whenever the broker is up, and what
  `FaultsExplained` says of lost events rests on that. `_to_response` reads
  `distributor.warehouses` in an async session (`distributor_service.py:422`), which
  may raise on every request; `Fail` of `Distributors` lets it raise on any.
* The weights of the moving average favour the oldest samples, a cart without
  history is forecast to sell nothing, and an event without an end never fades.
* The multipliers of `rain_storm` are below one and its impact is negative: a
  category that rain hurts more loses less.
* Company names may repeat, although `distributor_service.py:72` says they are
  checked.
