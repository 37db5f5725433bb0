# Transit Tracker API in TLA+

A TLA+ model of the Transit Tracker API: the NestJS service that imports static
GTFS feeds into PostgreSQL, merges them with real-time data, and pushes the next
departures to LED boards over WebSocket. Paths below are relative to the
repository; `gtfs/` stands for `src/modules/feed/modules/gtfs/` and `schedule/`
for `src/schedule/`.

`PROJECT.json` lists the components, the runs, the mutants that show that each
property can fail, the lines every definition models, the findings, the hazards
and the theorems. To check a run: `tlc -config MCFleetMetrics.cfg MCFleetMetrics`;
to check the proofs of a module: `tlapm GtfsSyncProofs.tla`.

## The system and what makes each part correct

| Part | State | Operations | Works with |
| --- | --- | --- | --- |
| **GTFS import** (`gtfs/sync/`, `gtfs/gtfs-db.service.ts`) | `sync_lock` rows, the partitions of each feed, `import_metadata`, the directory `<tmpdir>/gtfs-import` | `import`: lock, HEAD, compare, download, extract, validate, copy in one transaction, record, post-process, release, clean up | PostgreSQL, the agency's server, other processes on the host and in the fleet |
| **Interpolation** (`interpolate-empty-stop-times.sql`) | the `stop_times` of a feed | fills missing times | import |
| **Feed registry and sync** (`feed.service.ts`, `feed-sync.service.ts`, `sync.command.ts`, `system-alert.listener.ts`) | the providers by feed code, a cron job | load, hooks, the loop over providers, events, alerts | import, notifications |
| **Gateway** (`schedule/schedule.gateway.ts`, `schedule/schedule.service.ts`) | the set of subscribed sessions, one stream per subscription (grace period, polls, backoff) | connect, subscribe, tick, answer, failure, retry, close, shed | providers, metrics, shedding |
| **Departures** (`gtfs/gtfs.service.ts`, `gtfs/gtfs-realtime.service.ts`, the OneBusAway, HAFAS and MVG services, `all-feeds.service.ts`, `schedule.service.ts`) | only through the cache | upcoming trips, matching of trips to updates, resolution of times, global ids, offsets, order, limit | PostgreSQL, remote APIs, cache |
| **Feed cache** (`feed-cache.service.ts`, `cache.interceptor.ts`) | pending promises, cached values | cached | providers, Redis or memory |
| **Subscription metrics** (`schedule/schedule-metrics.service.ts`) | handles and per-feed counts of the process; a hash per host in Redis | add, remove, heartbeat, shutdown, fleet view | gateway, Redis, shedding |
| **Shedding** (`schedule/connection-shedding.service.ts`) | `evaluating`, `draining`, the time of the last shedding | evaluate, drain | gateway, metrics, CPU monitor, load balancer |
| **CPU monitor** (`schedule/cpu-monitor.service.ts`) | a window of samples | sample, average, windowReady | shedding |
| **Controllers, guards, pipes, filters** | none of their own | translate requests and errors | all services |

Correctness, part by part:

* *Import.* Queries see one whole archive of the right feed; a failure or a
  crash anywhere leaves the old one; metadata never runs ahead of the data (or a
  version would be skipped for ever); imports of one feed exclude each other; a
  published version is imported in the end; what is recorded as imported is also
  post-processed; the lock is given back on every way out that is not a crash.
* *Interpolation.* Times grow along a trip, every gap between two timed stops is
  filled, and the times that the agency gave stay.
* *Feed sync.* A sync that reports completion has tried every feed, and every sync
  reports one of its two outcomes.
* *Gateway.* One stream per connection however messages, closes and retries
  interleave; counters that match the streams; a board never goes back in time
  and ends up with the current times.
* *Departures.* No trip of any service day is missed; a cancellation hides the trips
  it is about and no others; the times shown can be and are near the schedule; the
  list is in order and what is cut off comes later; feeds are kept apart.
* *Cache.* No answer is older than the caches it passed through allow; the days of a
  timetable are the agency's although they are cached under the server's date.
* *Fleet registry.* Redis holds what the process has, whatever happens to Redis
  or to the process; a dead process is forgotten.
* *Shedding.* The floor and the fleet average bound what is closed although
  counts are stale; shedding stops, and leaves machines that all have clients balanced
  (not a new one that has none yet: a finding); a drain ends.
* *CPU monitor.* A window counts as ready only when it has measured most of its time,
  and a timer that is a little late does not keep it from being ready.

Hard behaviours: several processes share one database, one Redis and (per host)
one temporary directory; every `await` of one event loop lets other handlers run;
processes crash and restart under the same name; Redis and HTTP requests fail, are
late, or are answered after a timeout; service days run past midnight and the
server's clock is not the agency's. The list is `hazards` in `PROJECT.json`.

## Modules

| Module | Models | State and actions |
| --- | --- | --- |
| `FeedStore` | abstract: what the import promises to readers | published, served and recorded version of each feed; `Publish`, `Replace`, `Record` |
| `GtfsSync` | the import, with `GtfsDbService.tx`, `ZipFileService`, `WebResourceService`, `GtfsValidatorService` and the place of the post-processor | `imp` is the stack frame of each running `import()` (stage, whether it obtained the lock, the metadata it read, the archive it is downloading, the rows its transaction staged); an action is the code between two awaits or one atomic statement |
| `FeedSync` | `FeedService`'s loading of feeds, `FeedSyncService`, the sync command, `SystemAlertListener` | the providers loaded so far, each sync's `stage` and the feeds it has still to do, the alerts it raised; an action is the code up to the next await |
| `TripStops` | what the providers share | trips, pairs of route and stop, the units of time |
| `Timetable` | the tables of one feed: the statements of the interpolation, and the query for a route at a stop on a day | `table`, and how far post-processing has come; `TableOK`, `Timely` and `Filling` say what a table may hold |
| `GtfsRealtime` | `GtfsRealtimeService`: endpoints, match of a row with an update, carried delays, `resolveTripTimes` | operators |
| `OneBusAway`, `Hafas`, `Mvg` | the upcoming trips of the three remote providers | operators |
| `Departures` | `GtfsService.getUpcomingTripsForRoutesAtStops`, `AllFeedsService`, `ScheduleService.getUpcomingTrips` over all providers | a clock, a request, its answer; `Ask`, `Tick`, and `PostProcess` between the polls; `Init` is any state of the types in `TypeOK` |
| `FeedCache` | `cached()` between its awaits, `CacheInterceptor`, the keys of schedules | cached values, writes that nobody awaits, what each caller waits for |
| `ScheduleGateway` | the gateway, the observable of `subscribeToSchedule`, the counters of one process | a stream per message with its stage (grace, live, backoff, ended) and the polls in flight; `subscribers` is the gateway's set |
| `FleetMetrics` | the registry in Redis | `mine` (handles of the process), `pipe` (commands sent), `hash` and `ttl` (Redis); time moves in heartbeat intervals |
| `ConnectionShedding` | `evaluate()` and `drain()` on every instance, with `getFleetConnectionStats()` | `open` connections, what Redis `reported`, and `eval`: what an evaluation has read so far, awaits apart |
| `CpuMonitor` | `CpuMonitorService` | the samples in the window with their ages |
| `…Proofs` | theorems about the module of that name (`DeparturesProofs`: about `Timetable` and `GtfsRealtime`, too) | |
| `MC…` | constants, and for `Departures` the scenarios, for TLC | |

How they compose:

* `GtfsSync` implements `FeedStore` (`ImplementsFeedStore`, with the mapping at the
  end of `GtfsSync`). In `FeedSync` an import is one step that succeeds or throws.
* `Departures` EXTENDS `Timetable`, `GtfsRealtime`, `OneBusAway`, `Hafas` and `Mvg`,
  all over `TripStops`: a poll may fall between two statements of the
  interpolation, and one request may go to feeds of every kind.
* What `Departures` answers is a version of the schedule in `ScheduleGateway`, which
  has the order of polls and answers; `FeedCache` has the age of what they rest on.
* The gateway's `add` and `remove` appear as actions of `ScheduleGateway` and of
  `FleetMetrics`; the hash lengths of `FleetMetrics` are `reported` in
  `ConnectionShedding`, which follows the connections with any delay. The window of
  `CpuMonitor` is behind the environment's choice there of which machine is hot.

### What the models abstract

* *Import.* An archive is a feed and a version; its date, etag and hash are that
  version, 0 is null. Of the files of an archive three are kept: `agency.txt`
  (its absence throws), `calendar.txt` (the validator reads it) and
  `stop_times.txt` (a file whose absence only empties its table). A HEAD that is
  refused with an error status is a resource without headers. An archive inside an
  archive (a URL with a fragment) and `VACUUM` are left out, and so is the pool of
  database connections.
* *Feed sync.* Of a feed's configuration only its kind is kept: what makes it fail to
  load, or whether its provider has a `sync`. The order of `feeds.yaml` matters for
  loading only. A hook ends, with or without an error.
* *Departures.* A tick is half an hour, so the arithmetic of minutes and seconds is
  coarse, while every comparison of the code is there: 90 minutes, four hours,
  midnight. Names, colours and headsigns are left out. There is no daylight saving
  change, and the agency's time zone is the clock's; `FeedCache` tells the two
  apart. Replies are there at once: what happens while a provider waits is in
  `ScheduleGateway` and `FeedCache`. The providers' own caches are left out.
* *Cache.* Time is in hours. Of a value only the time at which it was read and, of a
  schedule, the service day are kept. The store is one map (the copy in memory in
  front of Redis, and values that bring their own time to live, are left out). A query and the
  `set()` that follows it are one step, so what a query takes counts as waiting before it. Any
  key may be evicted, any write lost or late.
* *Gateway.* What a provider would answer is a version; an answer is a version
  that was current at some time since the poll. `Shown` is the part of a version
  that `scheduleUpdatesAreEqual` compares: a new headsign alone is not sent.
  Heartbeat frames change no state. Every poll ends; a poll that never does would
  stall its stream (`exhaustMap`), which is listed as a hazard of the real-time fetch.
* *Registry.* Redis executes the commands of an instance in order; while it is
  reachable, within a heartbeat interval. An HSET or HDEL and the EXPIRE that the code
  pipelines behind it are one step: a connection that breaks between the two would leave a key
  without a time to live until the next heartbeat, for ever if the process dies first. Rejection is ioredis giving up its queue
  after its retries. `cli` commands start and shut down the whole application, so
  their shutdown deletes the key of the host (`EndCli`).
* *Shedding.* Connections are counted and not named; each subscribes once.
  Whether an instance is hot is the environment's choice. `SCAN` reads all keys in
  one step. The load balancer picks a least loaded machine. The last machine that
  is up is neither drained nor lost; the key of a machine that is gone lingers
  (`Forget`).
* *CPU monitor.* Ages are relative to the last sample; a process is idle or uses all
  of its CPU between two samples; averages are rounded down.

## Runs

| Run | Shows | Bounds |
| --- | --- | --- |
| `gtfs_private` | two importers with a directory each: the served data is one whole archive, the lock excludes, metadata is behind the data, skipping is right, nothing is left without its post-processing unless something failed, a lock row is left behind by a crash or a failing DELETE only, and `FeedStore` is implemented | one feed, 3 versions of which the second is invalid, 2 faults of any kind (refused request, failed step, failed cleanup, crash) |
| `gtfs_live` | every valid version is imported unless it is replaced, and the lock is always given back | one feed, 3 versions, 1 failed step; a server that sends only an etag |
| `gtfs_mixture` | **violation**: two syncs on one host fill one feed's partitions with the other feed's files | two feeds, no fault |
| `feed_sync` | a sync that completes has tried every feed it was asked for, with a warning for each failure; every sync ends with one of its events | 2 feeds (refused configuration, no `sync`, static), 2 syncs, both hooks or none, 1 crash |
| `departures` | the scenarios are of the types that the proofs assume (`TypeOK`), and nine properties of the board: interpolation in order and without gaps, no trip missed, cancellations, plausible times, order and cuts, feeds kept apart, the newest prediction of OneBusAway, the merged boards of HAFAS | see below |
| `departures_overnight` | **violation**: a trip that calls after midnight, canceled for its service day, stays on the board | the same |
| `feed_cache` | answers are no older than the caches allow; the days of a poll are the agency's | a day and a half in six hours of the day, 2 callers, 1 eviction, failure or loss |
| `gateway` | one stream per connection, exact counters, boards that only move forward and end up current | 2 clients with 2 messages each (good, repeated, malformed, for an unknown feed), 3 versions of which two show the same times, 1 failed poll, sheds and closes at any time |
| `fleet` | once Redis has executed what was sent, the hash is the process's subscriptions; the hash of a dead process goes away | 1 instance, 2 handles, a time to live of 3 intervals against outages of 1, 2 faults of any kind |
| `shedding` | floor and average are respected up to the connections that left meanwhile; shedding stops; machines that all have clients are balanced; drains end | 2 machines, 5 clients, batches of 2, floor 2, margin 10 %, one client that leaves by itself, failing reads, drains that time out, crashes |
| `shedding_newcomer` | **violation**: a machine that comes up beside an overloaded one gets no clients, and the overloaded one sheds none | the same, no client leaves by itself |
| `cpu` | a window that is ready has measured four fifths of its time; a timer that is late by up to half an interval keeps it ready | an interval of 4, a window of 24 (six samples; the code has 5 s and 60 s, twelve samples), gaps of 4, 5, 6 and 11 |

Why the bounds are enough.

* *Import.* The interesting orders need two importers (who disturbs, who is
  disturbed), a version that changes between HEAD and GET and an invalid version in
  between (3 versions), and a fault in the `try` followed by one in the `finally`.
* *Feed sync.* Two feeds make a loop with a feed before and one after the one that
  fails; two syncs overlap; a crash may come during either.
* *Departures.* `MCDepartures` starts from scenarios and not from all states. Gaps: a trip
  of four stops with every subset of its times and of its distances left out, with and
  without departures, so that there are runs of one and of two empty stops, at the
  ends too. Updates: a trip at 9:30 on its first stop and one that calls half an hour after
  midnight, each with a daily, an added and a removed service, under updates with every
  start date around today, by the right and by a similar trip id, canceled or not, with
  eight sets of stop updates (a half missing, a delay only, a prediction too far off,
  a skipped stop, carried delays), from endpoints that fail or are for other routes.
  Boards: replies of up to three entries, in any order, out of nine for two trips; every
  pair of HAFAS boards of up to two entries. Requests: all pairs of routes and stops of
  three feeds that use the same ids, offsets of either sign, ids of unknown feeds, a
  limit that cuts. `Day` = 48, `MaxDeviation` = 3 and `ActiveWindow` = 8 are the code's
  values in ticks; `Horizon` = 1 lets one tick pass, so that the next poll drops what is over.
* *Cache.* The hours are those at which a schedule's key changes (the key contains
  `12 % (hour + 1)`), around midnight of either clock (`Shift` is eight hours); the times
  to live are scaled so that the longest of them ends within `MaxTime`. The three workloads
  of `MCFeedCache` are the ones whose keys meet: one caller's schedules, stops beside
  service areas, and service areas asked for twice. `Patience` bounds how long a call takes.
* *Gateway.* Clients touch each other only through the counters, so two are
  enough, and two messages make a repeated subscription.
* *Registry.* Instances do not touch each other's keys; a time to live of 3 is the least
  for which an outage of one interval between two heartbeats does no harm
  (`KeyTtl = MaxOutage + 2`; the code has 60 s and 10 s).
* *Shedding.* Five clients on two machines make an average that is not whole, so the
  rounding of `Math.ceil` matters, and a margin of 10 % lets a difference of one
  connection pass the threshold; batches of 2 make the batch bind, and a floor of 2
  binds when a key vanishes between `SCAN` and `HLEN`.
* *CPU.* A gap of 6 (`Punctual`) is the latest at which the fifth of six samples is still
  in the window; 11 is one that empties most of it.

The counters of faults, messages, versions and time are bounds of the model and appear
in the guards only (`MaxFaults`, `MaxFailures`, `MaxMessages`, `MaxVersion`, `MaxQueue`,
`MaxOutage`, `MaxLeaves`, `MaxCrashes`, `MaxTime`, `Patience`, `Horizon`, and
`DrainBatches`, the batches that fit into the drain's timeout). `CHECK_DEADLOCK FALSE` is
set where the system may stop: after a crash the lock row keeps importers out, all
connections may have closed, all processes may be down, a drained fleet has nothing left
to do, both syncs have run, a scenario has been asked at its last tick, the cache's clock
has reached its bound, the CPU monitor has been shut down.

### Fairness

* `GtfsSync`: an import goes on once it has started (event loop and database are
  live); PostgreSQL grants its table locks in order (strong fairness of the two
  steps that wait for them); the cron job fires again and again, so a sync of each
  feed is tried again and again (strong fairness of `StartImport`, not forced).
  Nothing forces a new archive, a `--force` or a fault.
* `FeedSync`: the process loads its feeds and listens, and is started again after a crash;
  hooks and imports end; listeners are called. Nobody has to start a sync.
* `ScheduleGateway`: timers fire, polls are answered or fail, closes finish.
* `FleetMetrics`: the heartbeat timer fires, Redis comes back and executes what it
  is sent, a process that is stopping ends, time passes.
* `ConnectionShedding`: timers fire, a read of the fleet view is answered when it is
  tried again and again, clients connect again, Redis catches up
  and forgets machines that are gone, and a machine above
  the floor stays hot: the most demanding case for `NoHotPotato`.

### Findings

Each run marked **violation** checks one sentence of a document, a comment or a test
against what the code does; `findings` in `PROJECT.json` quotes both.

Remarks that are not findings: behaviour that the models have, and that a reader of the
properties should know of.

* *Import.* `SyncLockExclusive` is for syncs without `--force`: `releaseSyncLock` deletes the
  row of a feed whoever inserted it, so a forced import that did not obtain the lock lets a
  third import in beside the first (data stays whole all the same, `WholeArchives`). After
  a crash the lock row stays and keeps scheduled syncs out. Post-processing that fails
  is not made again, since the metadata has been recorded by then
  (`InterpolatedUnlessFault` says what holds). Importers that share a directory mix up feeds
  (`gtfs_mixture`) but never serve one without its agency (`ServedHaveAgency`); they also lose
  files: the last step of an import removes the directory after the lock has been given back, so an
  import of the same feed that began meanwhile may find no `stop_times.txt`, skips it, and records
  the version as imported. `PublishedEventuallyImported` is therefore about importers with a
  directory each.
* *Feed sync.* The cron job starts before the feeds are loaded, so a sync that fires at once
  may find none, or some, and still completes; `CompletedTriedAll` is about syncs that
  start later.
* *Interpolation.* The early return of `emptyArrivalTimesExist` leaves departures empty when
  only they are; `GapsFilled` is about feeds that have an empty arrival.
* *Trip updates.* An update without a start date is applied to every day's trip: a delay
  shows tomorrow's trip as real-time, too (a cancellation does not, `NotCanceledAhead`). A
  stop update by stop id is matched with the first visit of a trip that visits the stop
  twice. The key by which rows of several pairs are told apart lacks the stop, so a trip
  that is at two stops at the very same times is listed at one of them.
* *OneBusAway.* An older prediction of a trip is shown when the newer one has left the board;
  an entry with a predicted arrival and no predicted departure is measured by its scheduled
  departure and dropped when that is over. *HAFAS.* A trip's arrival may be later than
  its departure when only one of the two boards has the delay.
* *Schedule.* Providers drop what has left before an offset is added, so with a positive
  offset a trip disappears early. One failing feed fails the request.
* *Cache.* After an eviction, a failed read or a poll across a full hour the three
  cached days may miss the agency's today until they expire (`TodayAmongDays` says when they do not).
* *Gateway.* A subscription for an unknown feed code leaves its session in the set, and the
  connection is refused every later one.
* *Registry.* A rejected write is never sent again: the hash of a process that lives on
  differs until the process ends. A machine without subscriptions has no hash and is not counted.
* *Shedding.* `SHED_MIN_CONNECTIONS` is documented as a count at which shedding stops
  (`docs/configuration/environment.md`). The connections are counted before the fleet
  view is read, so the floor can be undercut by those who left meanwhile; this is what
  `FloorUpToDepartures` says, and no more than that can happen. A machine that is hot is
  relieved by a new machine as soon as one client connects there by itself
  and no sooner, since a machine without clients is not counted: `SharedLoadBalanced` says
  that shedding works from then on, and `Rebalanced` that it should before (`shedding_newcomer`).
* *CPU.* `windowReady` counts samples: a loop whose timer is late for long keeps its window from
  being ready, and does not shed while it is overloaded. `ReadyIfPunctual` says how late it may be: with
  the defaults of 5 s and 60 s, samples up to 6.6 s apart keep the window ready.

## Proofs

TLAPS proves for every value of the constants:

| Module | Theorem | Statement | Assumes |
| --- | --- | --- | --- |
| `GtfsSyncProofs` | `TypeCorrect` | `Spec => []TypeOK` | |
| | `LockExclusion` | `Spec => []SyncLockExclusive` | `~AllowForce` |
| | `LockGivenBack` | `Spec => LockLeftOnlyByCrash` | |
| | `WholeArchives` | `Spec => []TablesWhole` | `PrivateHosts`: no two importers share a temporary directory |
| | `ServedHaveAgency` | `Spec => []ServedWithAgency` | |
| | `MetadataNeverAhead` | `Spec => []MetadataBehindData` | `PrivateHosts`, `~AllowForce` |
| | `SkipsAreRight` | `Spec => SkipOnlyWhenCurrent` | the same |
| | `ImportImplementsStore` | `Spec => ImplementsFeedStore` | the same |
| | `InterpolatedBeforeSkipped` | `Spec => []InterpolatedUnlessFault` | |
| `FeedSyncProofs` | `NoFeedLeftOut` | `Spec => []CompletedTriedAll` | |
| `DeparturesProofs` | `TripsRunForwards` | `TimetableSpec => []TimesInOrder` | |
| | `GapsAreFilled` | `TimetableSpec => []GapsFilled` | |
| | `ResolvedTimesPlausible` | what `resolveTripTimes` returns for a row and an update | the row's arrival is not after its departure |
| | `TypesHold` | `Spec => []TypeOK` | |
| | `TimetableUndisturbed` | `Spec => TimetableSpec /\ []TimesInOrder /\ []GapsFilled` | |
| | `EarliestFirstHolds` | `Spec => []EarliestFirst` | |
| | `TimesArePlausible` | `Spec => []TimesPlausible` | |
| | `NoTripIsMissed` | `Spec => []NoTripMissed` | |
| | `NoneIsCanceledAhead` | `Spec => []NotCanceledAhead` | |
| | `NewestPredictionIsShown` | `Spec => []NewestPredictionShown` | |
| | `BoardsAreMerged` | `Spec => []BoardsMerged` | |
| | `AllFeedsArePairByPair` | `Spec /\ KeptApart => []PairByPair` | `~TripsOK(Failed)`: a request that throws is no set of trips |
| `FeedCacheProofs` | `AnswersFreshEnough` | `Spec => []FreshEnough` | |
| | `DaysOffByAtMostOne` | `Spec => []DayOffByAtMostOne` | `ClocksWithinADay`: the server's date and the agency's never differ by more than a day while a call lasts |
| | `TodayIsAmongDays` | `Spec => []TodayAmongDays` | `Ttl["days"] <= 13`; the code has 12 hours |
| `ScheduleGatewayProofs` | `OneStreamPerConnection` | `Spec => []SingleSubscription` | |
| | `BoardsMoveForward` | `Spec => NeverGoesBack` | |
| | `GaugesCountStreams` | `Spec => []GaugesExact` | |
| | `GatewayTypeCorrect` | `Spec => []TypeOK` | |
| `FleetMetricsProofs` | `FleetTypeCorrect` | `Spec => []TypeOK` | |
| | `HashesAreExact` | `Spec => []RegistryExact` | `KeyTtl >= MaxOutage + 2` |
| `ConnectionSheddingProofs` | `CountersInBounds` | `Spec => []TypeOK` | the fleet is finite |
| | `FloorKept` | `Spec => FloorUpToDepartures` | the same |
| `CpuMonitorProofs` | `ReadyIfPunctual` | `Spec => []ReadyWhilePunctual` | `PunctualSuffices`: as many samples as fit into a window when they are `Punctual` apart, and one, count as four fifths of it |
| | `ReadyIsMeasured` | `Spec => []ReadyMeansMeasured` | `ErrorSuffices`: `MaxError` is at least `100 (r - 1) / (r + 1)`, where `r * r = Punctual / Interval` |

All of them also rest on the assumptions that the modules state of their constants. `Spec` of
`Departures` begins in any state of `TypeOK`, which is the hypothesis of the theorems about boards:

* `TableOK`: a feed's times and distances do not decrease along a trip, as GTFS demands. `given` marks the
  stop times whose departure the agency gave and that is later than the arrival, so that `GapsFilled` can say
  that it stays.
* `Timely`: a departure comes with an arrival that is not later, and no trip calls after the end of the
  day that follows its service day. `getScheduleForRouteAtStop` is asked for yesterday, today and tomorrow
  (`ScheduleDates`); a trip of three days would be missed, so the hypothesis cannot go.
* `Served`, `RequestOK`, `ProvidersOK`: the tables are finite, numbers are numbers or absent, and what
  other services answer has the shape that their clients declare. Nothing is assumed of the order, the number,
  the ids or the times of their entries.

`KeptApart` says of the first state that the services keep the routes of a feed apart: no update of an endpoint
that is configured for some routes is about a trip of another route that is asked for, and no reply of a OneBusAway
server lists a trip under two routes. A pair asked for alone would otherwise be told less, so
`PairByPair` needs it. Nothing is demanded of HAFAS and MVG boards. The scenarios in which all feeds are asked
satisfy it.

The run `departures` checks `TypeOK`, so each of its scenarios is an initial state of that `Spec`, and the
hypothesis is met by all of them.

*Import.* `TypeInv` groups the type invariant by who owns the state (importers,
database, directories, environment), so that each action has one short obligation per
group. `SyncLockExclusive` is not inductive: it says nothing of the row, and an importer in the
section whose row is gone would let another one in.
Without `--force` nobody enters the section unless the insert succeeded, so `LockInv`
can say that every importer in it has its feed's row in `syncLock` and that no other
importer of this feed is in it; only the importer itself, or nobody after a crash,
then deletes the row.
`LockLeftOnlyByCrash` is of single steps and needs the types only: a step of an importer in the
section keeps it there with its feed (`StaysWithTheRow`), or takes the row along
(`LeavesWithTheRow`).
`TablesWhole` needs `WholeInv`: the files an importer has extracted so far, all files from
the end of its extraction on, and the rows its transaction has staged are those of the one
archive it downloaded. The
directory belongs to one importer under `PrivateHosts`; `gtfs_mixture` shows that the
assumption is needed.

*Metadata.* `DataInv` adds what an importer knows on its way: the resource it read the
metadata of was published (`Resourced`), the archive it then downloaded is at least as new as
the resource and as what is served (`Archived`), and after its commit the partitions
hold at least the resource (`Committed`). The last two mention the partitions, and it takes
`LockInv` to know that nobody else replaces them meanwhile, and `WholeInv` to
know that what is committed is the archive. The refinement of `FeedStore` follows:
a commit is `Replace`, the upsert is `Record`, and every other step leaves what the store
shows. For `InterpolatedUnlessFault`, which needs neither lock nor directory, `DutyInv`
names who owes the post-processing: an importer that is about to make it.

*Feed sync.* `Progress`: the feeds that a sync was asked for are in its `todo`, in flight,
or in `tried`, as long as it is in the loop; `Warned` ties each failure to its alert, and
`LoadedInv` ties the providers to the configuration once the process is up.

*Cache.* `StoreInv`, `CallInv` and `AnswerInv` carry one bound along the way of a value, with a larger
allowance at each place: when it was read, in a pending write, in the store until it
expires, in the hands of a caller, in an answer. Values of service areas may rest on stops that
were cached themselves, hence the sum in `OldestAnswer`. The clock only moves by `Tick`, which
keeps calls and writes within `Patience`; that the next hour is later is `LaterIsLater`.

*Gateway.* `GatewayInv` has the types of the streams, `StreamsInv` (a stream that is
not over keeps its session in the set, and it is the only such stream of its connection)
and `PollsInv` (what a board displays is not newer than the provider's version nor than
any poll in flight, because `exhaustMap` ignores a tick while a poll is on its way).
`CountersInv` says that the handles are exactly those of the live streams, which makes
`GaugesExact` a count of one finite set, and `DevicesInv` that the devices gauge is the
number of sockets that are open or closing, so it is never negative.

*Registry.* `Led`: applied in order, the commands in an instance's pipe lead from the hash to
the process's handles, unless something bad happened to it. `Lasting`: how much
time to live is left, by how long ago the last heartbeat was sent and executed and how
long Redis has been away. With `KeyTtl >= MaxOutage + 2` the key therefore never expires under a
process that lives.

*What is served has an agency.* `AgencyInv`: an importer that has passed the files whose absence
throws has staged an `agency.txt` (`OwnAgency`); another importer in the same directory changes what will be copied,
not what has been, so this theorem needs no assumption. It has no run of its own.

*Days of a timetable.* `NearInv` bounds, for every cached value, write in flight and reading of a poll, how
far the day it is of lies from the date in its key; the bound is on one side, the one on which
the agency's clock is. `TodayAmongDays` is about calm times (nothing evicted or lost). `CalmInv` then says of
each hour that a poll finds all three days in the cache or none of them (`AllOrNone`), and of earlier hours that
their days were read together (`Together`); the hour in the key, `12 % (hour + 1)`, comes up again
only after the entries have expired, which is what 13 hours bound.

*Shedding.* `SheddingInv`: the types, and `Conserved`, that the clients connected and those away are always
all clients. That no counter goes below zero rests on it, and on the sum of a function that changes in one
place (`TotalType` and the lemmas before it). `Remembered`: while an instance evaluates, the connections it has and
those that left since are at least the number it started from; with `CeilDivBounds`, that the
average is rounded up, the floor follows.

*Interpolation.* A filled arrival lies between the two timed ones it was made from, and grows along the
span, by distance or by position (the quotient is rounded down, which keeps order). The step that is
not obvious: a stop that one of the statements fills has the same neighbours as before for the stops it leaves empty
(`Filling`), so what cannot be placed at first cannot be placed later. A trip has any length; the nearest timed
stop before or after is the end of a finite set of numbers.

*Times of a call.* `ResolvedTimesPlausible` is about a function: for every row and every update of its
stop, whatever halves and fields are missing, the times returned do not run backwards, are
within 90 minutes of the schedule, and are the schedule unless they are marked as real-time.

*Boards.* The invariant is `TypeOK /\ Filling /\ AnswerOK`: an answer that is there is a `Board`
(in order, cut, nothing left out without reason) of the candidates of the present state. It is kept
because `Tick` and `PostProcess` discard the answer, and `Ask` makes one by sorting and cutting. The rest are
lemmas of one state. For `NoTripMissed` a trip that is due follows the whole way: its service day is one
of the three that are queried, no update is matched with it or only one that `Hidden` lets pass, its
times resolve to the schedule, the key of its row keeps it apart from other rows, and
what it meets when it is sorted and cut is what `OnBoard` allows. For OneBusAway and HAFAS the lemmas are about the
loops over a reply: after each entry, what is shown of a trip is the newest, or both times, of the entries so
far. `SelectSeq` cannot be expanded by the provers; where a theorem needs one it is `Filtered` (`TripStops`).
`Unshifted` restricts `Soon` to requests in which no pair of the feed has an offset, since of a trip at two
stops at the very same times one is listed, with the offset of that stop (see the remarks).

*Pair by pair.* `Pairwise` is what each kind of provider owes: every trip of an answer is one of a pair alone, and
every trip of a pair alone is in the answer with its times. Such an answer is made by removing all
but one of the rows, updates or entries of one key, so the lemmas compare what is kept of many with what is kept of
few. For GTFS, trip updates are merged from the endpoints in their order (`UpdatesTaken` gives for each update the
endpoint and the place it is from, and keeps that order), and with fewer endpoints a trip still meets the same first update
(`FewerUpdates`), because the endpoints that are left out have none for it. For OneBusAway, a trip
of one route folds only entries of that route (`OfRoutes`). For HAFAS and MVG the routes only filter a board that is already
made: a HAFAS trip is made of the entries of its id and route, and of an MVG trip the first entry is kept
(`DeparturesAre`), whatever line is asked for. `AskedByPair` and
`BoardPairByPair` carry this through the prefixes of the feeds. `KeptApart` speaks of the trips' routes and of the
answers, which neither a poll nor post-processing changes (`KeptApartKept`).

*CPU.* `WindowInv`: a sample is older than the next by what that one measures (`Chained`), none was late in the
last `punctual` (`NoneLate`), and the oldest measures across the edge of the window (`Reaches`), since what was before
it has been dropped. A window that is settled therefore has more than `Window ÷ Punctual` samples. For
`ReadyMeansMeasured` it also says that each sample's utilization is 0 or 100 (a step of the model uses the CPU all of the
time or none of it; the error is linear in each sample's load, so these are the worst). The average
counts each sample once, the true share by its length, which is between `Interval` and `Punctual`; the sums over the
window differ most when the samples of one kind are all as long as they can be and the others
as short, and the difference is then a quadratic form in the two counts (`NotNegative`), whose discriminant is
`ErrorSuffices`. With 5 s and at most 6.6 s the error is at most 7 points.

*Induction over data.* The library's induction theorems take an operator as a parameter, which
the provers cannot instantiate. Where a proof needs induction it goes by a smallest
counterexample: the set of indices, or of subsets of a finite set, for which the claim fails has a least element if
it has any (`LeastNatural`, `SmallestSubset`, from well-foundedness). Sums and folds are treated so.

Only model-checked:

* liveness and everything under fairness, which is beyond the prover (`PublishedEventuallyImported`,
  `SyncLockEventuallyFree`, `EveryRunReported`, `CurrentEventuallyDisplayed`, `GhostsForgotten`, `NoHotPotato`,
  `SharedLoadBalanced`, `DrainEnds`).

## Not modelled

Whole components are listed with the reason in `PROJECT.json`. In short: guards, pipes,
filters and most controllers keep no state; `GET /feeds`, stops by area and service areas are
queries that pass through or geometry; tracing, logging and metrics export are not
about correctness of the data; scripts and container definitions are not part of the
program. Of modelled components: the pool of database connections, archives in archives, how
long a provider's reply is cached (by `cache-control`, or two hours for an empty OneBusAway
board), the deadline of a real-time fetch, an `HLEN` that fails by itself, daylight saving.

## Plan

What is left, the most useful first:

1. The times to live of boards and trip updates, composed with `Departures`: how stale a
   prediction on a board can be, and a stop whose empty reply was cached.
2. The pool of database connections under failing `CREATE TABLE`s, and a fetch of trip
   updates that never ends, composed with the gateway's polls.
3. `GET /feeds` with a feed that was not loaded, and stops by area across feeds.
