# TLA+ models of ReelsAutomation

ReelsAutomation makes and publishes short videos for a set of channels.  A
FastAPI process serves the users, Celery threads (`-c 4 -P threads`, queues
`celery` and `pipeline`) execute tasks, Celery beat starts the periodic ones,
a LangGraph graph makes a video, and PostgreSQL, Redis and the platforms'
APIs hold what lasts.  This directory has TLA+ modules of its concurrent core,
TLC configurations that check them on small instances, and proofs that TLAPS
checks for every instance.  `PROJECT.json` is the index: the runs, the mutants
that show each property can fail, the source lines of every definition, the
hazards and the findings.

## 1. Inventory

| Component | State | Operations | Hard behaviour | What makes it correct |
|---|---|---|---|---|
| Run registry, runner, watchdog (`cruds/pipeline_run.py`, `pipeline/runner.py`, `tasks/pipeline.py`, `services/retry_admin.py`) | `pipeline_runs`, the broker, checkpoints | create, dispatch, execute, autoretry, mark stale, re-enqueue, retry requests | sends before commits, redeliveries of live executions, lists that are old when used, lost threads | no stranded PENDING run, finished graphs are not run again, retries are bounded, runs settle |
| Graph and nodes (`pipeline/graph.py`, `routers.py`, `nodes/*`) | thread state, checkpoints, videos, consumptions | eight nodes, two routers, resume | commits before checkpoints, failures after the end, overlapping executions | rows agree with the registry, only losses duplicate, a published item stays, the idea loop ends |
| News claims (`cruds/rss.py`, `nodes/news.py`) | `rss_news_items`, `channel_news_consumption` | claim, attach, publish, release | row locks, snapshots, SKIP LOCKED, read-then-delete | one item, one run; the life of a consumption |
| RSS scheduling (`services/rss_scheduling.py`, `tasks/rss.py`) | `rss_last_scheduled_date`, the runs of the day | dispatch, compensate, schedule request | check-then-act across statements and processes, crash, midnight | once a day, within the daily limit |
| Publishing (`services/publishing.py`, `tasks/video.py`, `cruds/video.py`) | `video_metadata`, `video_publish_statuses`, the platforms | generate, check due, publish, retry | one transaction around uploads, waits and deadlocks, lost answers | one upload at a time, rows that go forward, every due video gets its rows |
| RSS catalogue (`services/rss.py`, `cruds/rss.py`, `tasks/rss.py`, `integrations/rss_scrapping.py`) | `rss_feeds` with the status of their last scrape, `rss_news_items` | create a feed, scrape, offer what was found | overlapping scrapes wait for each other, conflict, deadlock, and roll back all they have done; the scrape and the dispatch are two transactions | a status that can be read is true; what is stored is dispatched |
| Database schema and migrations (`src/alembic/versions/*`, `scripts/start.sh`) | the tables, the seeded permissions and feeds | upgrade, downgrade, the deployment of a release | seeds that depend on the release, rows of users between two revisions, failed and undone revisions | the data are what the revision says |
| Dispatch slots (`tasks/pipeline.py:44`) | `posting_hours`, the minute | dispatch due channels | a late or doubled beat message | one run per slot |
| Service clients and uploaders (`integrations/{tiktok,instagram,youtube,money_printer_turbo}*`, `services/uploaders/*`, `services/credentials_persistence.py`) | what a service has of a call, the connection's credentials | create, upload, poll, refresh, connect | lost answers, deadlines against late answers, a refresh beside a reconnect | at most one video for a call, what the outcome says of it, credentials that belong together |
| LLM manager, HTTP client | none of their own | fall back, time out | | bounded attempts |
| Digests (`tasks/notifications.py`, `services/channel_digest.py`) | marks in Redis, the rows of the day | mark, read, send | mark before send, five snapshots, midnight, a doubled task | one digest a day, nothing told twice, what it says is true |
| Beat health (`tasks/health.py`, `core/celery_app.py`) | the heartbeat in Redis, beat's schedule file | write, compare, alert | restarts, late writes, the checker is started by the checked | an alert is true |
| Rate limiter (`core/rate_limiter.py`, `middleware/rate_limiter.py`) | a sorted set per client, method and path | count, add, expire | check-then-act in two calls, errors of Redis that let requests pass | the limit, up to the requests handled at a time |
| Users and permissions (`services/auth.py`, `scripts/add_permissions.py`, `core/permission.py`) | users, profiles, permissions and who holds them | register, read, sync | statements that commit one by one, beside the script that writes the same rows | who got 201 can use the API; a script that ended has reached everyone |
| Channels, platform connections, ownership (`api/v1/*`, `services/ownership.py`, `core/base_crud.py`) | channels, connections, grants | create, update, delete, connect, grant, revoke, list | overlapping requests with rows loaded earlier, look-then-insert | only the owner; a success has its effect until the owner undoes it |

How they meet.  Beat and the API create registry rows and send
`run_channel_pipeline_task`; a thread executes the graph; `select_news` claims
an item, `persist_metadata` and `produce_video` make the video, `publish`
calls `publish_video_to_platforms`, the function the publish task calls too.
The watchdog and the retry endpoints put runs back.  The scrape commits items,
plans runs and compensates.  A request to the API passes the rate limiter, the
permission check and the lookup of what it owns before it writes rows that the
worker reads later.  All of them share the rows; none shares memory.

Two facts shape everything.  The worker's sessions open one READ COMMITTED
transaction per `transaction(db)` block and do not expire objects at the
commit (objects read earlier are used later as they were); the API's engine is
AUTOCOMMIT (each statement of an endpoint is a transaction).  Only
`run_channel_pipeline_task` is acknowledged late: every other task is gone
with its thread.

## 2. Modules

| Module | Models | EXTENDS / composes |
|---|---|---|
| `RunThread` | what the checkpointed thread of a run promises, whoever executes it | abstract |
| `PipelineRun` | registry row, broker, threads, autoretry, watchdog, retry endpoints, births | sees the graph through its checkpoint only; implements `RunThread` for every run |
| `PipelineGraph` | nodes, routers, checkpoints, resume, the rows of one run | the graph that `PipelineRun` abstracts to none / partial / done; implements `RunThread` |
| `NewsLedger` | what the consumption table promises | abstract |
| `NewsClaim` | catalogue and grants, the claim statement by statement, the life of a consumption | implements `NewsLedger` |
| `RssScheduling` | dispatch, compensation and schedule requests of a channel | |
| `PublishLedger` | what the publish statuses promise | abstract |
| `Publishing` | generation, publish task and node, retries of one video | implements `PublishLedger` |
| `CallPromise` | what a conversation with a service promises its caller | abstract |
| `ServiceCall` | the flows of the four service clients, token refresh, reconnect | implements `CallPromise`; its outcomes are those of `Publishing`'s uploads |
| `BeatTasks` | beat's clock, the daily digest, the heartbeat and its check | |
| `Catalogue` | feeds, the scrape statement by statement, the dispatch after it | |
| `RateLimit` | one bucket of the rate limiter, call by call | |
| `Schema` | the Alembic revisions, up and down, and one run of alembic | |
| `Accounts` | registration and the permission script on a migrated database | EXTENDS `Schema` |
| `Routes` | the permission, the ownership and the status of every route, the status of exceptions | |
| `Ownership` | overlapping requests on channels, connections and grants | EXTENDS `Routes` |
| `Platform` | the components around the pipeline beside each other, in any order | EXTENDS `RssScheduling`, `Catalogue`, `RateLimit`, `Accounts`, `Ownership` |

Each detailed module has an `MC...` module with the instances for TLC, but for
the components of `Platform`: they share no state, and `MCPlatform` checks
them in one run whose behaviours are each one of a component.  `MCServiceCall`
composes too: it has a video of `Publishing` beside the conversations of
`ServiceCall`.
Every detailed module has proofs: `PipelineRun`, `PipelineGraph`, `NewsClaim`,
`RssScheduling`, `Publishing`, `ServiceCall` and `BeatTasks` in a module of
their own (`...Proofs`), `Catalogue`, `RateLimit`, `Schema` with `Accounts`,
`Ownership` and `Platform` in the five parts of `PlatformProofs`.

The grain of atomicity differs on purpose.  `PipelineRun` and `PipelineGraph`
take a worker transaction as one step: their questions are about what happens
between transactions, checkpoints and messages.  `NewsClaim`, `Publishing`,
`RssScheduling`, `Catalogue` and `BeatTasks` open the transactions whose
statements race: row locks, the snapshot of a SELECT, waits for another writer
and PostgreSQL's deadlock detection are in them.  In `Accounts` and
`Ownership` every statement is a step, since the API and the script commit
each by itself.  So `ReleasedIsUnused` holds of
`PipelineGraph` at the grain of transactions, while in `NewsClaim` the
statements of a release (`ReleaseRead`, `ReleaseDelete`) can be overtaken by a
redelivered execution; its ledger is claimed up to the first redelivery.

### PipelineRun

`status`, `retryCount` and `overdue` are the row (a row not committed is
"none"), `birth` how far its creator is, `queued` a multiset of messages with
Celery's own retry number, `checkpoint` the thread's newest checkpoint.  A
worker goes through `run_channel_pipeline` and `run_channel_pipeline_task`
step by step: `StartRun`, `FoundCheckpoint` / `NoCheckpoint`, `Resume` /
`StartGraph`, `SaveCheckpoint`, `GraphEnds`, `Complete`, `Fail`, `Autoretry`,
`Ack`.  `Scan` and `Requeue` are the watchdog's two phases (the second works
on the list of the first), `AdminList`,
`AdminIncrement`, `AdminReset` and `AdminEnqueue` the statements of a retry
request.  `Crash` loses a thread (the message comes back), `Redeliver` is the
visibility timeout of a live execution.  `Promised(r)` is the run's `RunThread`:
an execution is "working" in the graph unless it replays a finished one,
"finished" past it, and "away" otherwise.

### PipelineGraph

`st` is `PipelineState` reduced to what routers and rows depend on, `unsaved`
the supersteps whose checkpoint is still being written (durability "async"),
`saved` the newest one written.  Every node is an action that does all its
node function does, its transaction included; `persist_metadata` has two,
since it looks the registry up in one transaction and creates in another.
`Begin`, `Resume`, `Fallback`, `Complete`, `Fail` and `FailToComplete` are the
runner around the graph.  `overlapped` says that two executions have been
under way at once: the promises about one execution after another are stated
up to then (and `ideas` counted up to then), and `ReleasedIsUnused` beyond it.  `Promised` is the `RunThread` of
the run, seen from inside: the checkpoint is `saved`, and an execution is
"finished" once its last superstep is saved.  So `PipelineRun` and
`PipelineGraph`, which know nothing of each other's variables, meet in what
both implement.

### NewsClaim

`stored` are the items of the catalogue, `aged` those past
`RSS_NEWS_MAX_AGE_DAYS`, `granted` the channels with the feed, `row` the
committed consumption of each channel and item.  `Scrape` commits whatever
`fetch_feed` returned and `upsert_item` did not have.  `BeginSelect`
takes the snapshot, `Take` and `Skip` walk over it newest first under SKIP
LOCKED, `Insert` meets `uq_channel_news_item`, `Commit` releases the lock.
`Attach`, `Publish`, `Reject`, `Complete`, `ReleaseRead` and `ReleaseDelete`
are the rest of the run.  The lock is on the item and does not change it;
PostgreSQL therefore does not evaluate the query again for an item whose lock
another transaction has released by committing.  `gone` tells a consumption
that was deleted from one that was inserted later for the same item.

### RssScheduling

`rows` is the table of the channel's runs, uncommitted ones ("draft") seen by
their scrape only; the rows of a scrape that is rolled back are free again.  `Load` reads the channel row (and its
date), `Dispatch` decides, `Create` inserts row by row, `Date` writes the
date; a scrape goes on to `Compensate` and commits all at once, a request
commits each statement.  `Crash` loses a planner between any two of them: a
scrape is rolled back, a request leaves what it has written.  `met` are the
planners that have overlapped (those in `Planning` when another did `Enter`),
which the exact form of `OncePerDay` needs.  The life of a run is reduced to
what the counts of the day see.

### Publishing

`row` are the committed rows of a video, `draft` what an open transaction has
written and therefore locked, `uploads` what the platforms have taken, each
upload with its number.  `Select`, `Write`, `Duplicate`, `Deadlock`, `Upload`,
`UploadFails`, `UploadTimesOut` and `Commit` are `publish_video_to_platforms`;
`CheckDue`, `RequestRetry` and `RetryFailedPublishes` send it.  The last is a
step that changes nothing: it calls an async function and does not await it.
One video, which either somebody has scheduled (`generation` "unsent", to be
sent and perhaps lost) or a pipeline run is to make and to publish by its node
(`nodeDone`), and connected platforms that do not change.

### ServiceCall

One conversation per call, one action per request: `create`, `send`,
`publish`, `poll` and `fetch` of the service at hand, each of which is
answered, refused, or lost (`RequestFails`, `AnswerLost`, `PollFails`).
`media` and `made` are what the service has and has made of the call, which
go on after the client has stopped asking (`Work`); `late` is the deadline of
the polling.  `stored` is the connection's credentials, `draft` what an open
publication has written over them, `holder` whose transaction that is;
`Connect` is the user who authorises the platform anew and waits for that row.
The code raises in two situations which its callers do not tell apart and
which the model does: "refused" (the service said no) is `UploadFails` of
`Publishing`, "unknown" (an answer or the deadline was lost) is its
`UploadTimesOut`, a return is its `Upload`.

### BeatTasks

`clock` counts ticks of UTC; a day, the time of the digest, the interval of the
heartbeat and the threshold of the alert are constants in ticks.  `schedule`,
`last`, `earlier` and `beatUp` are beat and its schedule file: a restarted beat
may find the file as it was before its last send, and send the digest again.
An execution runs five queries for each channel, one after the other (`Read`),
then for each of them sets the mark and sends.  The two queries of which the
digest has only the number of rows stop at `ListLimit` (100 in the code): what
they answer is one of several sets (`Answers`, `UpToLimit`).  `row` are the
publications and runs the queries find; a row's time may lie `MaxLag` before its
commit.  The heartbeat thread writes at the start of beat, before beat sends
anything, and every interval.  Left out: the period of the check (it may run at
any time beat is up), the expiry of a mark (48 h, which no execution lasts), a
disabled Redis or ntfy.  The two tasks share nothing but beat and the clock, so
an instance schedules one of them (`Schedules`).

### Catalogue

A scraper goes through `scrape_rss_feeds`: `ListActive`, then for each feed
`Fetch` (the items the feed has now, or an error), `Look` and `Insert` for
every item, `Record` for the status, and `CommitScrape`; then `OfferNews`, the
dispatch, whose inside is `RssScheduling`.  `inserts`, `updated` and `updates`
are what its open transaction has written.  `Holders` are the transactions that
hold the key or the row it is about to write; `Conflict` is
`uq_rss_feed_guid` once the other has committed, `Deadlock` PostgreSQL's choice
of a victim.  Either ends the task with all its feeds, because the error comes
up in `upsert_item`, outside of what is caught per feed.  `stranded` is the
history of items whose scraper was lost between its two transactions.

### RateLimit

`Arrive` reads the clock, `Count` removes the hits that have left the window and
counts the others, `AddHit` and `Expire` are the second call.  `FailOpen` is an
error of Redis at any of them, after which the request passes, with or without
its hit.  `DropKey` is Redis, `Pass` the time.

### Schema, Accounts

`db` is the committed database: its revision, its tables and columns
(`objects`), the seeded permissions and feeds, users, profiles and who holds
what.  Each revision has its condition (`Can...`) and its two directions; `Upgrade` and
`Downgrade` apply one to `draft`, the transaction of one run of alembic, and
`EndMigration` or `Rollback` ends it.  Revision 002 seeds the enum `Permission` of the
code that executes it: `release` is "first" for code before the feeds (head:
002) and "current" for this code (head: 008), and `DeployCurrent` the step
between them.  That a first release ended at 002 is read off the revisions:
004 inserts two permissions of the same enum, which makes sense only where 002
has not had them.  `CheckEmail`, `CreateUser`, `CreateProfile`, `ReadDefaults`
and `AssignPermissions` are a registration; `StartSync`, `EnsurePermission`,
`LoadUsers`, `ReadMissing`, `InsertMissing` and `EndSync` the script;
`AddFeed` and `UseFeed` write what later revisions run into.

### Routes, Ownership

`RouteOf` has a record for every route behind a login: the permission it needs,
what it looks up of the user's, and its status.  A request goes through
`Authorize`, which loads the user with his channels (`loaded` is the name that
the session goes on to see), then `Profile`, `Channel`, `Video`, `List` or
`AnswerOnly`, and the statements of its operation.  The listings of a profile
may be asked for one channel (`Filterable`), which must be the user's; a grant
may name a feed that does not exist, or one feed twice, which then conflicts
with itself.  `StatusOf` gives the status of each exception; an HTTPException
carries its own, the answer of a service that of `UpstreamStatus`.  Of a row the
name stands for all fields.  `undone` is the history of requests whose effect a later or
overlapping request may have taken back.

## 3. What the runs check

| Run | Properties | Bounds |
|---|---|---|
| `run_api` | `TypeOK`, `PendingIsQueued`, `KeepsThread` | 1 run, 2 threads, 1 watchdog, 1 request, 1 loss each of worker and API, 1 database error |
| `run_live` | `RequeueBudget`, `EventuallySettled` | an API run and a beat run on one thread, limit 1, 1 loss, 1 redelivery |
| `graph` | `TypeOK`, `OnlyLossDuplicates`, `CompletedRowMatches`, `IdeasWithinLimit`, `ReleasedIsUnused`, `PublishedStays`, `KeepsThread` | 3 executions, 2 at once, 1 loss or failed completion, 1 unsaved superstep, `IDEA_MAX_RETRIES` 3 as in the code, so that an idea may be rejected and asked for again, limit of retries 1 |
| `news_claims` | `TypeOK`, `ClaimsAreDistinct`, `ImplementsLedger` | 2 executions of a channel and 1 of another with the same feed, 2 items, 1 redelivery |
| `platform` | planning: `OncePerDay`, `DatedMeansPlanned` | a scrape, a request, a forced one, 2 days, 2 rows, 1 item; the scrape may be lost, and the request where nothing is forced; feeds come and go on the first day |
| | scrape: `StatusMeansStored`, `NewsIsDispatched` | 2 executions, 2 feeds, 2 items |
| | limiter: `OvershootBounded` | 3 requests, 2 at a time, limits 1 and 2, a window of 2 ticks in 4 |
| | accounts: `SchemaMatchesRevision`, `RegisteredIsUsable`, `SyncReachesEveryone` | 2 users, 2 registrations, 1 script, both releases, revisions 0, 5 and the heads, 1 feed in use |
| | channels: `AnswersHold` | 2 users, 2 requests, 15 operations, 1 channel, 2 feeds, 2 names |
| | all of them: `PlatformTypes` | |
| `publish_race` | `TypeOK`, `UploadsAreSerial`, `NewestUploadKnown`, `ImplementsLedger` | 2 tasks and a node, 2 platforms in both orders, 1 loss or lost answer, 1 message |
| `service_calls` | calls: `TypeOK`, `TokenMatchesGrant`, `KeepsPromise`, `CallEnds` | 2 conversations with any of the services, 3 authorisations |
| | a video: `EventuallyRecorded` | 2 tasks, 2 platforms, 1 loss or lost answer |
| `beat_tasks` | `TypeOK`, `OncePerDay`, `MarkedIsTried`, `ReportedOnce`, `ReportsTheDay`, `AlertMeansSilence` | 2 executions, 2 channels, 2 publications and a run on one of them, counts up to 1, days of 3 ticks and 5 ticks in all, 1 fault, 1 row that changes |

The instances are small because the conflicts are between two or three actors
on one row: a second thread, watchdog or task makes each race possible, a
third execution lets one come after a race, a second item or platform gives a
loser something else to take, a second day is all a date can tell.  Every
bound counts a kind of fault or the length of a behaviour and is a constant
with `Max` in its name, except where the code has the limit itself
(`PIPELINE_MAX_RETRIES` is `MaxRetries`, `IDEA_MAX_RETRIES` is
`IdeaMaxRetries`); `MaxGrants` is 3 so that a user
can connect before, during and after a refresh.  In `beat_tasks` a day of three
ticks has a time before, at and after the digest, and the stale threshold is
two heartbeats; one channel has one failed publication more than a count says.
In `graph` a run starts with one rejected idea on its account, so that a limit
of three is the least with which the edge from `validate_idea` back to
`generate_idea` is taken.  In `platform` two scrapers and two feeds are enough for a
conflict on an item, for one on a status and for a wait in a circle (taking the
feeds in opposite orders); three requests of which two are open let one
count between the other's count and its hit; revision 5 lies between the seeds
of 004 and the update of 006, so that 004 to 008 are undone and redone over rows
of users, and from 0 everything is done again.  `graph` has one unsaved superstep,
which already loses every commit that can be made before its checkpoint; two are
covered by the theorems.  Where several parts share a run,
its properties hold trivially of the others: each of them has a mutant that
breaks it in its own part.  Symmetry is used over interchangeable threads, executions and
tasks, never with a property that needs fairness.  A configuration says
`CHECK_DEADLOCK FALSE` where the bounded system does stop: the deliveries of a
run, the planners, the days, the scrapes, the requests and the uploads run out.

The runs that end in a violation state what a document, a comment or a test
says and the code does not do:

| Run | What happens |
|---|---|
| `run_orphan` | the message of a beat run is sent before its row is committed; the thread that takes it finds nothing, and the run stays PENDING |
| `rss_limit` | one scrape plans its runs and compensates them at once, over the daily limit |
| `publish_retry` | the failed platform of a partial publication is never tried again |
| `fresh_upgrade` | `alembic upgrade head` of the current release on an empty database fails at revision 004, whose permissions 002 has seeded, and is rolled back as a whole |

### Fairness

`PipelineRun`: what is created is sent, the broker delivers to a free thread,
an execution goes on (its calls have timeouts), time passes, beat keeps
starting the watchdog.  `Publishing`: beat's tasks run, threads take messages, an upload ends by
its timeout, a released lock is granted.  `ServiceCall`: every request of a
client is answered or runs into its timeout, and the deadline of a polling
passes (the client compares a clock in every round); a service is never
obliged to finish.  All of it is weak fairness of steps
that stay enabled while their thread lives; no failure, loss, request or
success of a platform is ever obliged to happen.  `PipelineGraph`,
`NewsClaim`, `RssScheduling`, `BeatTasks` and the parts of `MCPlatform` have no
fairness, since only safety is asked of them.  In `MCServiceCall` the conditions
of the two modules are stated for their parts: a behaviour that is one of the
calls owes nothing to the video.
`EventuallyRecorded` is checked with platforms listed in one order: the query
has no ORDER BY, and orders that change with every attempt could deadlock for
ever.

## 4. What is proved

`PipelineRunProofs`, from `RunAssumption` (the shapes of the constants):

- `TypeCorrect`: `Spec => []TypeOK`.
- `PendingRunsAreQueued`: while no API process is lost and every first
  transaction of the runner commits, a PENDING run of the API has a message, a
  thread, or a creator or request that is about to send one.
- `ThreadsKept`: `Spec => KeepsThread`, every run of the registry implements
  `RunThread`.
- `FinishedRunsAreNotReworked`: therefore a finished thread nobody works on
  stays finished and nobody runs nodes in it (`NotReworked` of `RunThread`),
  whatever messages, lists and requests are still on their way.
- `RequeuesAreBounded`: without requests and with one watchdog
  (`SingleRetrier`), `requeues <= MaxRetries`.  It is not inductive: the
  watchdog works on a list, so the invariant `BudgetInv` also says that a row
  is inserted once (`InsertedOnce`), that a running execution has a row
  (`RowWhileRunning`), that a listed run was within its budget when it was
  listed and nobody else spends it (`ListedInBudget`), and that each re-enqueue
  was charged to `retry_count` (`Charged`).

`KeepsThread` needs that only an execution which has resumed a thread takes it
for a replay (`ReplayResumed`): `wreplay` outlives the checkpoint it was read
from, and the mark of an earlier execution would let a new one pass for
finished.  A step of the registry that is not a worker's can only reopen the run
(`OthersReopen`); a worker's is one of its own stage, and a call to
`mark_running` by another execution takes COMPLETED back.

`PipelineGraphProofs`, from `GraphAssumption`, for any executions, deliveries,
faults, unsaved supersteps, ideas and limits:

- `TypeCorrect`.
- `ReleasedUnused`: `Spec => []ReleasedIsUnused`, overlapping executions
  included.
- `OnlyLossDuplicatesRows`, `CompletedMatches`, `IdeasLimited`:
  `OnlyLossDuplicates`, `CompletedRowMatches` and `IdeasWithinLimit`.
- `PublishedRemains`: the action property `PublishedStays`.
- `ThreadKept`: `Spec => KeepsThread`, the graph implements `RunThread`.
- `FinishedThreadRests`: therefore `NotReworked` of `RunThread`.

Type correctness is not inductive: a state of the thread that is past
`persist_metadata` must name a video, or the router and the nodes would write
rows for none.  `Shape` says so of every state that somebody holds: in the
memory of an execution, in a save under way, or in the checkpointer.
`ReleasedIsUnused` is about the row of a completed run; `Unused` is about the
row of any, since a later failure leaves the references in it.  The others need
to know what a lost execution goes back to.  While one execution runs at a time
(`Sequential`), the state in memory is the newest superstep, and what an earlier
one names the later ones name (`Current`); a state names an item that is used
for its own video and not given back (`Tied`); a row that refers to anything
belongs to a thread that has ended (`Settled`); the rows of the database that
the newest superstep does not name were lost in a crash (`Counted`), which may
take away supersteps but pays for them with one crash; and the count of retries
is ahead of the ideas (`Budget`).  A step is then one of a node, which moves the
newest superstep, of the runner around it, of `Complete` or of
`FailToComplete`.

`KeepsThread` rests on `Trails`: of the supersteps an execution has not saved
yet the last is the state in memory, and only the last may be the end of the
graph.  So a save that finishes the checkpoint finishes the execution with it,
and an execution that leaves with supersteps unsaved can have saved any prefix
of them (`GiveUp`).

Two statements had to be made precise for the proofs to go through.
`IdeasWithinLimit` says fewer ideas than `IDEA_MAX_RETRIES`, since a run starts
with at least one rejection on its account, but allows one in any case, for the
settings have no lower bound (`core/config.py:88`): the first idea is asked for
without a look at the limit.  `PublishedStays` is claimed for up to two
unsaved supersteps: with three, an execution lost after `publish` resumes at
`persist_metadata`, creates a second video, and `produce_video` marks the
published item as produced again.  LangGraph saves in the background and does
not bound how far the saves are behind, so this can happen; that a lost
execution may create a second video is what `OnlyLossDuplicates` allows as well.

`NewsClaimProofs`, from `ClaimAssumption`, for any channels, items, feeds and
executions:

- `TypeCorrect`.
- `ClaimsDiffer`: `Spec => []ClaimsAreDistinct`.
- `Implements`: `Spec => ImplementsLedger`, the refinement of `NewsLedger`.

An item is locked by one transaction (`Locks`), and what has got past the unique
constraint is unused until its commit (`Inserted`).  While nothing has been
redelivered, an execution that holds a claim finds its row at the stage it left
it (`Owns`), and one that has lost it has released it itself (`GoneEnded`).
`ClaimsAreDistinct` alone is not inductive: a release could otherwise remove the
row of another run.

`RssSchedulingProofs`, from `SchedulingAssumption`, for any planners, limits and
days:

- `TypeCorrect`.
- `PlannedOnce`: `Spec => []OncePerDay`.
- `DatesHavePlans`: `Spec => []DatedMeansPlanned`.

The date in the channel row is at least that of every planner that has written
it, unless a planner of an earlier day, which the former has met, wrote after it
(`Standing`).  The exception is what makes the invariant hard: `Overtaken` says
that a planner of an earlier day that is still at work has met all with a later
date, so that its write is excused.  What is read is old when it is used: `Seen` says
of a planner about to decide that it has met a planner that has ended, or has
read a date no smaller, or that planner's date has been put back.  A planner
that gets past the guard has therefore met every other planner of the day that
was neither lost nor had its date put back (`Pairs`), which is `OncePerDay`.  `Table` says whose the rows are: a scrape has committed
rows only once it has ended, and a planner that has created all its rows has
one that is no compensation, which its date will stand for.

`PublishingProofs`, from `PublishingAssumption` (an order lists each platform
once; tasks are not nodes), for any number of platforms, tasks and nodes:

- `TypeCorrect`, with "uploading" in no committed row.
- `UploadsSerial`: `Spec => []UploadsAreSerial`.
- `UploadsKnown`: `Spec => []NewestUploadKnown`.
- `Implements`: `Spec => ImplementsLedger`, the refinement of `PublishLedger`.
- `NobodyWaitsInCircle`: with one order of the platforms, `Spec => []Orderly`.

These rest on one inductive invariant, `IInv`: a publisher's agenda is the part
of its order it has not concluded, without repetitions (`Agenda`); its draft
has an outcome for exactly the platforms it has concluded and "uploading" for
the one at hand (`Drafts`); no two drafts name one platform (`Locks`); a draft
continues the committed row, which cannot change while it is locked
(`Successors`); and so a commit enters all platforms at once, each with an
outcome that follows the row.  The refinement maps `row` to the ledger's
`entry`; only `Commit` is an `Attempt`, all other steps stutter.

`UploadsKnown` is about attempts that end with an error after an upload.
`CommitAlone` is the heart of it: a commit has the rows of all platforms, so
nobody commits while another has written any.  What a publisher has selected is
therefore still true when it writes beyond its first platform (`Looked`), and
the unique constraint can only end an attempt that has uploaded nothing.  With
one order whoever has written holds the row of the first platform (`InOrder`,
`FirstWritten`), so two of them never wait for each other (`NoCircle`); with
two orders they may, and an attempt that is ended by PostgreSQL's deadlock
detection is the one way, besides a loss and a timeout, to forget an upload.
`NobodyWaitsInCircle` states this of the specification: with one order, whoever
is waited for waits for nobody, so that one publisher of the video can always go
on, and no attempt is aborted.  The query behind `Orders` has no ORDER BY, so
that the hypothesis is a request to the code.

`ServiceCallProofs`, from `CallAssumption`, for any number of conversations:

- `TypeCorrect`.
- `TokensMatch`: the access token of a connection belongs to the authorisation
  stored beside it.  `TokenInv` adds that what a call has read, and what the
  holder of the row has written, belongs together too.
- `PromiseKept`: every conversation implements `CallPromise`: at most one video
  is made for it, a success names one, a refusal is final.  `CallInv` ties the
  next request of a call to what the service can have of it: nothing before
  the request that makes it, at most one video after, and none once refused.

`BeatTasksProofs`, from `BeatAssumption`, for any channels, items, executions,
intervals, thresholds and lengths of a day:

- `TypeCorrect`.
- `OneDigestADay`, `MarksAreTried`: `OncePerDay` and `MarkedIsTried`.
- `NothingToldTwice`, `DigestIsTrue`: `ReportedOnce` and `ReportsTheDay`.
- `AlertsAreTrue`: the action property `AlertMeansSilence`.

`Digested` says that an execution between its mark and its digest has the mark to
itself, and nobody has tried the digest before it.  `Reading` relates what an
execution has found so far to the queries it has asked so far, for every row that
has not moved since it began, and says that what it found is of the window of
its date: the lists of the day have all of it (`Agrees`), the counts all of it
or as many as the limit (`Counts`).  The queries are numbered (`QueryAt`,
`ChannelAt`), and the lemmas on these numbers show that each is asked once
(`AskedOnce`) and that the last one completes the lists (`AllReached`).  `Reported` makes the
date of a report a function of the time it is about.  `Beating` says that the
heartbeat thread is never late while beat is up.

The limiter, in `PlatformProofs`, from `LimiterAssumption` (finitely many requests; positive
limits), for any policies, windows and numbers of requests at a time:

- `LimiterTypesHold`.
- `OvershootIsBounded`: `LimiterSpec => []OvershootBounded`.  The invariant adds
  that no more requests are open than the API handles and that a request with a
  hit is past its `AddHit`.  A request that gets past `Count` raises the number
  of hits stored or on their way to at most `limit - 1` plus the open requests;
  every other step lets that set shrink or stay (`FewerCounted`).  The lemmas on
  the sizes of unions and parts are from `FiniteSetTheorems`.

The catalogue, in `PlatformProofs`, from `CatalogueAssumption` (finitely many feeds, a positive
limit of the list), for any number of feeds, items and overlapping scrapes:

- `CatalogueTypesHold`.
- `StatusIsTrue`: `CatalogueSpec => []StatusMeansStored`.
- `EveryItemIsDispatched`: `CatalogueSpec => []NewsIsDispatched`.

The first of these two is not inductive: a status becomes visible at the commit,
long after its items were looked up or inserted.  `Sound` says of an execution
that all it has recorded, and all it has finished of the feed at hand, is
committed or among its own inserts, and that these are committed once it is at
its dispatch; since committed items are never removed, no step of another
disturbs it (`SoundGrows`).

Channels and grants, in `PlatformProofs`, from `OwnershipAssumption` (the
operations are routes; "none" is nobody), for any users, permissions, clients,
channels, feeds and operations:

- `OwnershipTypesHold`.
- `AnswersAreKept`: `OwnershipSpec => []AnswersHold`.

`AnswersHold` speaks of answers only.  `OwnershipInv` follows every request to
its answer: the step it is at is one of its operation (`Staged`), whoever is
past `Authorize` may do what it asks for (`Permitted`), whoever is past the
lookup has a channel of its user (`Held`), the name it has loaded is the row's
and the feeds it is done with are granted (`Remembers`, `Granting`), or another
request has written the same and it is counted in `undone`.  A write of one
request is seen by another only through `Undisturbed`, which every action
satisfies and which keeps all of this (`GoodStays`); so each action is proved
for the request that takes it, and once for the others.  `RoutesAsNeeded` is
what the table of routes must satisfy for that: an operation that writes a
channel looks up its owner, and no success has the status of a refusal.

Schema and accounts, in `PlatformProofs`, from `AccountsAssumption` ("none" and
"all" are no users; the targets are revisions), for any users, numbers of
registrations, releases, targets and permissions asked of the script:

- `AccountsTypesHold`.
- `CommittedMatches`: `AccountsSpec => []SchemaMatchesRevision`.
- `RegisteredAreUsable`: `AccountsSpec => []RegisteredIsUsable`.
- `SyncHasReachedEveryone`: `AccountsSpec => []SyncReachesEveryone`.

The invariant is over `db` and `draft` alike (`Matches`), since a migration
works on the latter for several steps: objects, feeds, permissions and users
fit the revision.  It is stronger than the property where a revision relies on
more, for instance that nobody else has the URL to which 006 moves a feed
(`FeedsMatch`).  `Upgraded` and `Downgraded` take a database that matches one
revision to one that matches the next (`Follows`), revision by revision.  A
registration past `CreateUser` has its user to itself, and what it has read is
still there when it assigns (`CallSound`): a migration that could remove it
finds nobody at work.  `SyncInv` says of every user whom the script has not got
to that he is in its list, or has all it is for, or is left to a registration
(`Leaves`) that either was lost or has read what the script has committed
before it listed the users.  TLC has checked this invariant on the instance of
`MCAccounts` before it was proved.

`Platform`, in `PlatformProofs`, from the assumptions of its components:

- `ComponentsRunAlone`: `PlatformSpec` implies the specification of each
  component.  A step of another leaves a component's variables alone, so every
  theorem about a component holds on the platform.
- `PlatformTypesHold`: `PlatformSpec => []PlatformTypes`, from this and the five
  theorems on types.

Only model-checked: the liveness properties (`EventuallySettled`,
`EventuallyRecorded`, `CallEnds`), which need fairness and ENABLED.  Every
invariant and every action property of a passing run is stated by a theorem.
`MCPlatform` checks the steps of `Platform` with one component per behaviour;
that several of them are interleaved adds nothing is what `ComponentsRunAlone`
says.  No theorem is about `MCServiceCall`, whose parts are joined for TLC only.

## 5. What is left out

- Texts: prompts, ideas, scripts, metadata, wording of alerts.  An idea is
  acceptable or not, a call succeeds or raises.
- Values that no committed state shows: `generation_status` PROCESSING and
  FAILED are overwritten within their transaction or rolled back with it.
- `RSS_ENABLED` and `REDIS_ENABLED` false, and channels that are deleted or
  deactivated while they are worked on.
- `RssScheduling` has a run claim its item when it starts, and takes the mode
  and activity of the channel as constant.
- The parts of `MCPlatform` do not act on each other: a migration runs with the
  API stopped, a channel of `Ownership` is not one that a run is working on, and
  what a scrape dispatches is planned in `RssScheduling` from a number of unused
  items.
- Passwords, tokens and the validation of input: a request that reaches
  `Ownership` is authenticated and well formed.
- Not modelled at all: the choice of the minute in
  `dispatch_due_channel_pipelines` (what it starts is `BeatEnqueue` and
  `BeatCommit` of `PipelineRun`), the LLM manager (a loop over providers without
  state; a call succeeds or raises), configuration and protocols
  (declarations).
- Hazards without a property: the release that checks the status of a
  consumption in one statement and deletes by key in the next
  (`cruds/rss.py:402`), a rejected run that is completed and keeps its claim
  (`runner.py:118`), and a check of the heartbeat that stops with beat
  (`celery_app.py:39`).  For each of them the models have the behaviour and no
  document says what it should be.

### Behaviours of the models that no run asserts

They are reachable, no document of the repository promises otherwise or none
is precise enough, and the properties above are stated so as to allow them:

- the watchdog puts back a run that has become RUNNING since it was listed, and
  two watchdogs put one back beyond the limit (`RequeueBudget` is about one);
- overlapping executions of a run create two videos, an execution lost between
  a commit and its checkpoint claims a second news item, and a retry starts
  with the retry count as its count of rejected ideas, which leaves it fewer;
- a run whose consumption was released, and whose thread still names it,
  cannot complete (the foreign key is gone) and ends with its retries spent;
- a claim ends with an IntegrityError, or passes by an item because another
  channel has locked it; a rejected run keeps its item as used; the release of
  a redelivered run removes a consumption that has become PRODUCED;
- overlapping planners plan a day twice;
- a scrape that meets an item of another one fails with all its feeds, whose
  statuses then stay those of the scrape before; a lost one leaves items that
  nothing dispatches until the next;
- the rate limiter lets through as many requests too many as the API handles at
  a time, less one, and all of them while Redis is out of reach;
- a registration that is lost leaves a user who can neither register again nor
  do anything; a script that meets a registration ends with an error;
- of two updates of a channel one may be answered with success and be lost, and
  a revoke may be undone by a grant that began before it; a session that has
  loaded a name does not write it again, although another has changed it since;
  `GET /pipeline/status/{thread_id}` looks up no owner;
- `uploading` is in no committed row; a retry of a partly published video
  uploads it to all platforms again, and a failure then turns PUBLISHED to
  FAILED;
- a refreshed token is written over the credentials of a user who has
  connected the platform in the meantime; TikTok's tokens are never refreshed;
  the status of a connection is only ever `connected`
  (`services/platform.py:51`), although `USER_GUIDE.md:572` lists others;
  Instagram's container is published without asking whether it is ready;
- a digest that runs after midnight reports an empty day and suppresses the one
  of that evening; what ends after 20:00 is in no digest; the counts of what
  waits for a retry stop at 100 for each channel, and failed publications do pile
  up, since nothing retries them; once beat is gone, so
  is the check of its heartbeat (`USER_GUIDE.md:1088`, `celery_app.py:39`).

## 6. Plan

1. Done: the modules of section 2, with the proofs of section 4.
2. Composition: a conversation of `ServiceCall` under `Publishing`'s upload
   steps, `Catalogue`'s dispatch as the input of `RssScheduling`.
3. The rest of the machinery: dispatch slots (a late or doubled beat message),
   the fallback of the LLM manager.
4. Proofs: the refinements of 2.  The two halves of a run, `PipelineRun` and
   `PipelineGraph`, meet in `RunThread`; one specification of both, with the rows
   of the registry shared, would also relate the counts of retries.
