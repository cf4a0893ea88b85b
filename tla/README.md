# Verification of qimchi-connect

TLA+ models of `src/src/qimchi_connect` and of `src/scripts`, checked with TLC
on small instances, and proofs about them checked with TLAPS. Line numbers refer
to the first of these directories unless a path says otherwise.

`PROJECT.json` lists components, runs, mutants, the lines each definition
models, findings, hazards and theorems. This file explains them.

## 1. The system

A measurement process publishes live `xarray` datasets. Clients (Qimchi) poll
them over WebSocket. A SQLite file shared by all producers and consumers lists
what is published.

| Component | Source | State | Operations |
|---|---|---|---|
| Snapshot cache and requests | `server.py` 37-705 | `_PROVIDERS`, `_PROVIDER_EPOCH` (under `_PROVIDERS_LOCK`); `_SNAPSHOT_CACHE`, `_SNAPSHOT_LOCKS`; the local variables of each request's coroutine | register / unregister a provider; `get_snapshot` (whole or from a row), `get_data`, `get_zarr_array`; `list`, `capabilities` |
| Incremental snapshots | `server.py` 263-339, `protocol.py` 125-186, `client.py` 122-222 | the row count a client holds | frontier, slice, fall back to a whole snapshot |
| Server lifecycle | `server.py` 708-865 | server, loop, thread, port, ready event and error globals | start, run, stop, is-running |
| Publication | `producer.py` 377-662 | `_REGISTRATIONS` (under `_REGISTRATION_LOCK`), each handle's `_closed` | register, close, update the disk path, the same by identifier, the context manager |
| Heartbeat | `producer.py` 24-100 | `_HEARTBEAT_THREAD`, `_HEARTBEAT_STOP`, the thread's round | ensure, loop, stop |
| Discovery registry | `registry.py` 1-407 | one row per identifier: status, endpoint, `last_seen`, `missed_since`, `ended_at` | register, end, heartbeat, update path, list |
| Registry maintenance | `registry.py` 410-653 | rows read at the start of a sweep | reconcile, note (un)reachable, clean up |
| Snapshot providers | `producer.py` 103-374 | cached snapshot, time of the last refresh | refresh, record a point, call |
| Wire protocol | `protocol.py` | none | encode, decode, pack, unpack |
| Client | `client.py`, `server.py` 674-705 | none between calls | one request per connection, with three timeouts |
| Command line | `cli.py` | none | `cleanup` |
| Release scripts | `scripts/zenodo_release.py` | the records on Zenodo | find the concept, open a draft, save, upload, publish |

How they interact:

- Application threads call `register_live_measurement`. With the registration
  lock held it sweeps the registry, enters the provider in the server's table,
  starts the server, writes the row, stamps it and starts the heartbeat.
- The event-loop thread answers requests; it takes `_PROVIDERS_LOCK` to read
  the table, and awaits worker threads that call the providers' callbacks.
- The heartbeat thread takes the registration lock to copy the identifiers and
  then stamps their rows without it.
- Any process may sweep the registry: it reads all live rows, probes the
  endpoints of rows that have no heartbeat with `list`, and writes rows one by
  one. A registration sweeps with the registration lock held.
- The server thread writes the server's globals, which the application thread
  reads and resets after waits that may give up.
- The release job is run by the pipeline, may fail at any request, and is run
  again by hand.

What is hard: three kinds of thread on the provider table and the cache; state
kept across `await` while registrations change; an event, a join with a timeout
and a lock in the heartbeat's stop; several statements that may fail one after
the other; processes that crash and sweeps that overlap, each working from rows
read earlier. `PROJECT.json` lists the hazards at their lines.

What makes the components correct:

- *cache*: no snapshot survives its provider; a request is answered from the
  provider it was admitted with; polling never goes back in time; every request
  is answered;
- *following*: the rows a client counts as held are exactly the measured ones,
  and in the end it has all of them;
- *publication*: table, registrations and rows agree between calls; only its
  own handle or a new registration takes a publication down; calls return;
- *heartbeat*: an open registration that asked for one is beaten;
- *registry*: a running producer stays listed, a producer that has gone does
  not, and a grace period is a grace period;
- *server*: what counts as running is served, on the port that is advertised;
  a server that is stopped ends and takes no new work;
- *client*: a synchronous caller does not give up on a call that is still in
  time, whatever the server does;
- *providers*: no point that was sent is lost again, and in the end all points
  are published;
- *release*: one complete record for each release, however often its job failed.

## 2. Modules

| Module | What it is |
|---|---|
| `SnapshotService` | abstract: requests admitted for a provider and answered with its data, with no cache or threads |
| `SnapshotServer` | the provider table, cache, locks and requests of `server.py` |
| `SnapshotInvariant` | the inductive invariants of `SnapshotServer` |
| `SnapshotServerProofs` | its safety and its refinement of `SnapshotService`, proved |
| `Publication` | `producer.py` without the providers: registration, close, path, heartbeat |
| `Reconcile` | registry rows, producers that crash and return, sweeps |
| `LiveSystem` | composes `Reconcile` with registrations that sweep, the lock they hold, and the command line |
| `RowFollow` | row frontier, slice and a client that follows, through several runs |
| `SnapshotProviders` | the three providers between the measuring thread and the worker threads |
| `ServerLifecycle` | start, server threads, stop, and the globals between them |
| `ClientCall` | composes `ServerLifecycle` with clients and their requests |
| `ZenodoRelease` | the release job, its failures and the records it leaves |
| `PublicationProofs`, `ReconcileProofs`, `LiveSystemProofs`, `RowFollowProofs`, `SnapshotProvidersProofs`, `ClientCallProofs`, `ZenodoReleaseProofs` | theorems about these components; `ClientCallProofs` is also about `ServerLifecycle` |
| `MC...` | symmetry, and the statements of comments and tests that the code does not keep |

`SnapshotServer` refines `SnapshotService` (`ImplementsService`): the refinement
mapping forgets cache, locks, loop and worker threads, and shows a request as
`asked` until its response is ready and as `reply` until it is sent.

The inductive invariants stand at the end of each component's module, after the
properties they are for.

### SnapshotServer

A step runs from one point where another thread can come in to the next. The
event loop is `loop`: a request that owns it has begun a turn which the
producer thread may interrupt, and no other request moves. `change` is the
producer thread between the assignments of `_invalidate_snapshot`; while it is
not `NoChange`, `_PROVIDERS_LOCK` is taken. The table and the epoch are read
only under that lock and change in one step, the cache and the lock table are
read without it and change in steps of their own.

| Place (`pc`) | Code |
|---|---|
| `admitted` | 617-628, provider and epoch read, before the lock table |
| `waiting` | 436, in the queue of an `asyncio.Lock` |
| `holding` | 436-437, in the lock, with the loop |
| `building`, `built`, `broken` | 445-447, in a worker thread, returned, raised |
| `slicing` | 632, `_partial_snapshot` in a worker thread |
| `fetching`, `fetched`, `failed` | 648, 658, `get_data` and `get_zarr_array` |
| `answered`, `refused` | 643, 654, 666; 619, 669-671; before the send |

`ahead` holds, for each request, those that entered the queue of the same lock
object before it: `asyncio.Lock` is fair. Lock objects are numbered because a
re-registered measurement gets a new one while requests still wait for the old.
A dataset is its provider and the time its callback ran, so "newer" is a
comparison of numbers. `newest` is a history variable: the newest snapshot of
the published provider that a client has been given.

One loop is modelled: what 432 does about an entry of `_SNAPSHOT_LOCKS` made by
another loop, which outlives its server, is left out. A handler of the websockets library is not
cancelled when its connection is lost, so a request ends only by itself.

### Publication

`owner` is the registration lock. What is done under it is split only where
somebody without it can see or change the state: the stop event and the thread
variable, written by a `close` that has given the lock back, and the provider
table, which clients read. `MaxFailures` registry writes or server starts
raise. `Event.set` wakes the threads that wait at that moment (`woken`), even
if the event is cleared before they run; the others look at the event when
their round is over (`Wait`). `Join` needs the thread to be dead, or held up:
copying (it needs the lock) or stamping (it needs the database) for more than
two seconds. A new heartbeat thread is in the thread variable before it is
started (`MakeThread`, `StartThread`): a `close` in between takes it for the
running one and raises, since what has not been started cannot be joined
(`JoinRaises`), and one that forgets the variable makes the registration raise
(`ThreadForgotten`). The maintenance inside a registration is in `Reconcile`.

### Reconcile

One statement is one step; SQLite serializes statements of several processes.
`BeginSweep` reads the live rows with their liveness (561-564), `Sort` works
through those with a heartbeat, `Probe` asks one endpoint for what it lists,
`Judge` applies the answer to one row, and `Judge` and `Miss` are the two
statements of `_note_unreachable` with the decision. The clock stands while no
step needs it; `Tick` may not pass the time by which a running producer beats
(`Interval`), since the question is what sweeps do to producers that keep it.
`settling` is a registration between its row and its first stamp, when the row
looks like one without a heartbeat. `answered` and `due` are history variables.

### LiveSystem

`claim` is the identifier a producer registers; while it is set the producer
holds the registration lock: its heartbeat does not beat, except for a round
that has its copy of the identifiers already (`BeatOrClose`), and it closes
nothing. Inside, `maintain` is a sweep of `Reconcile` or nothing. A sweep may be
given up anywhere (`AbandonSweep`: an exception, or the command line being
interrupted). Time passes in a registration only while its sweep waits for an
endpoint, at most `ProbeTime` for each. `NoBeatOverdue` says that a heartbeat
thread that waits for the lock gets it before the next registration.

### RowFollow

A row is the set of its finite cells, over columns and variables. Values are
left out: a cell is measured once, so equal places have equal values.
`WholeRows` states the README's condition that the callback returns a
consistent view; `Shapes` are the datasets that are followed: with their full
length from the start or growing, with NaN for what is not measured or without.
`Republish` puts another run under the identifier. `latest` and `base` remember
which run the last response, and the last one with all rows, was about; the
client itself cannot know.

### SnapshotProviders

The points of a run come in order, so an array is its length; a Qanary dataset
has `Arrays` of them, read and written one after the other. `at` is the
measuring thread (`refreshing` is between the clock and the read, `publishing`
between the read and the assignment), `pc` each worker's call. `lastAdd`, `asOf`,
`newest`, `floor`, `overlapped` and `failed` are history variables: when a point
was recorded, when the snapshot was read, what calls have returned, and whether
the last refresh that was due raised (`FlushRaises`; `add_resultRaises` is a
point that is not recorded). `published` is set by the forced refresh of
`prepare`, without which a registration fails before it publishes the provider.

### ServerLifecycle and ClientCall

Server threads are numbered by their start and so are their servers and loops:
`SERVER = b` means the global holds the server of thread `b`. A step writes one
global. `Started` and `Forget` are the ends of the two-second waits, which may
come at any time; `abandoned` remembers the threads they did not wait for. A
stop schedules `server.close` only if server and loop are there and the loop is
running at that moment (`MayRun`, `MustRun`). After a start that was given up
on, loop and server may be of two threads: the close is then one of the
`strays`, which runs in a loop that is not the server's, reaches the server's
own loop only if that has something else to do, and is dropped when its loop
ends (`RunStray`, `Goes`). `NamePort` and `AwaitClosed` read the global `SERVER`
again, which may be another thread's by then.

A handler is a request under way in one loop. A client's call has three
timeouts, of the connection, the answer and the closing handshake; `timer` is
the time in the present step, `spent` in the call. A call is awaited, or its
caller waits for a worker thread that runs it (`caller`), for no longer than
`Budget`: the first two timeouts and the `Margin` of one second that `_run_sync`
adds. When that wait is over the caller still waits for the worker thread, which
is the executor's end (`WaitOver`, `Disconnect`). `Tick` may not pass the limit
of a client or a caller that waits.

### ZenodoRelease

A step is one request of the job; `Fails` follows a request that had its effect
(the answer is lost), `Crash` one that had not, `Exits` is an error that the
script or Zenodo reports. `records` is Zenodo's state: a record's concept,
version, committed files, announced files and whether it is published. What
Zenodo does is modelled from how the script uses it: it returns the draft of a
concept that has one, lets a new version inherit files or not, and refuses to
change a published record or to publish an unfinished one. `env` says whether
jobs overlap and whether the search lags; it stays as it is in a behaviour.

## 3. Runs

Passing runs:

| Run | Instance | Shows |
|---|---|---|
| `snapshot_safety` | 2 measurements, 2 connections, 3 registrations or removals, 2 clock values, TTL 1; row requests and `get_data` | `TypeOK`, `CacheIsCurrent`, `AnswerIsOwn`, `CurrentBuildIsExclusive`, `ImplementsService` |
| `snapshot_liveness` | 1 measurement, 3 connections, 2 changes, no clock; whole snapshots and row requests | `SafetyInvariant`, `EveryRequestIsAnswered` |
| `publication_concurrent` | 2 threads, 2 measurements, 2 registrations, 2 heartbeat threads, 1 failure | `TypeOK`, `PublicationIsConsistent`, `TakenDownByItsOwn` |
| `publication_sequential` | 1 thread, 2 measurements, 3 registrations, 3 heartbeat threads | `PathIsOwn`, `OpenIsBeaten`, `EveryCallReturns` |
| `reconcile_safety` | 2 producers, one with a heartbeat, 2 measurements, 1 sweeper, flaky probes | `TypeOK`, `RunningIsListed`, `SweepEndsWhatIsGone`, `GraceIsRespected` |
| `live_system` | 1 producer with a heartbeat, 3 measurements, its own sweeps and the command line's, flaky probes | `LiveTypeOK`, `RunningIsListed` |
| `follow` | 2 runs of 3 rows of 2 cells; a grid with NaN, growing datasets with and without | `TypeOK`, `FollowerIsExact`, `FollowerCatchesUp` |
| `connection` | 2 starts, 2 ports, 1 client with 1 call; timeouts of 1, 1 and 2, margin 1 | `TypeOK`, `RunningIsServed`, `AdvertisedIsListening`, `StoppedMeansAsked`, `WaitOutlastsCall`, `StoppedServerEnds` |
| `providers` | 2 workers, 3 points, 2 arrays, refresh interval 2, 5 clock values; all three providers | `TypeOK`, `NeverGoesBack`, `MissesOnlyRecent`, `EndIsPublished` |
| `zenodo` | 2 releases of 2 files, 2 failures; orderly, overlapping jobs, a search that lags | `TypeOK`, `OneRecordPerRelease`, `PublishedIsComplete`, `DoneIsArchived`, `RetryArchives` |

Every property of a passing run has a mutant: a definition with a plausible
fault, kept beside the original in the component's module, for which the run
finds the property violated.

Deadlock is not checked: with its bounds used up and nothing asked, every model
may stop, and a real process may be idle for ever. The liveness properties say
that nobody who has asked for something waits for ever.

### Why the bounds are enough

- *Snapshot*: the hazards need one request in each of two registrations of a
  measurement, a build of the first finishing after the second, and another
  measurement to move the epoch: two connections, two identifiers, three
  changes. Fairness of the queue needs three connections. With `TTL = 1` and two
  clock values a copy is found both fresh and expired. The safety results are
  also proved for all values.
- *Publication*: a superseded handle needs two handles; two heartbeat threads
  need two starts; the races are between two threads. Three handles let one
  thread close one of two and register again. For `EveryCallReturns` the
  opponent is the heartbeat thread, so one application thread is enough.
- *Reconcile*: with `Stale = Interval = 1`, a beat is met at both sides of its
  window; `Grace = 2` separates a first miss, a miss within the grace and one
  after it; four clock values let a row be missed, ended and deleted.
  Identifiers are used once in these runs: `reconcile_reuse` shows what
  happens otherwise.
- *Live system*: one measurement being registered, one open and one of a run
  that crashed are three. Two sweeps overlap, the producer's and the command
  line's. `Interval = 0` lets a beat be late by what a sweep takes and no more;
  with `Stale = 1` and `ProbeTime = 1` that is exactly the window.
- *Follow*: three rows are a complete, a partial and an empty one at once; two
  runs are the one that is followed and the one that replaces it.
- *Connection*: every race is between a thread and the next, so two starts; the
  second port is what the second start gets while the first still listens. One
  call is a handler that outlives its server or its client, which is all that
  the server's side sees of clients. No timeout is zero, so a step of a call may
  end before its limit and at it; with a `CloseTimeout` above the margin the
  caller's wait may end before the call.
- *Providers*: three points are one published, one throttled and one after it;
  two workers overlap. With an interval of 2 a refresh happens before, at and
  after the end of the interval.
- *Zenodo*: two releases meet in one draft; two failures are one in the job
  that leaves something and one in the job that takes it over.

### Fairness

- `SnapshotServer`: a thread with `_PROVIDERS_LOCK` runs on, a coroutine with
  the loop runs to its next await, a callback returns or raises (all weak).
  Coroutines that can continue stand in asyncio's first-in first-out ready
  queue, so each gets its turn although the loop is busy in between: `Resume`
  is strongly fair. Clients need not ask: `Arrive`, producers and the clock
  have no fairness.
- `Publication`: threads run, and one that waits for the lock is not passed
  over for ever (strong): `threading.RLock` does not promise an order, but the
  holder works for a bounded time and gives it back.
- `RowFollow`: the client keeps polling and the snapshot it is given is rebuilt
  once its lifetime is over (weak).
- `ServerLifecycle`: server threads run (weak). Handlers need not end, since
  they wait for callbacks of the application, and nobody need start or stop.
  A close that went to another server's loop is promised nothing: no other
  thread wakes that server's loop for it.
- `ZenodoRelease`: a job that has been started takes its steps (weak); nobody
  need start one, and `RetryArchives` speaks of the jobs that are started once
  no more requests fail.
- `Reconcile`, `LiveSystem` and `SnapshotProviders` have safety properties only.

### Where the code and its documents differ

Two of the differences are runs that end in a violation; `PROJECT.json` quotes
the lines.

| Run | What the code does |
|---|---|
| `publication_unbeaten` | A close that has counted no registrations stops the heartbeat thread that another thread's registration has made since; the new measurement has no heartbeat, and after 15 s consumers drop it. |
| `reconcile_reuse` | A sweep ends the row of a run registered after it read the rows; the row does not come back. |

The `MC` modules state more that TLC refutes, to be checked by naming the
statement in the configuration of the run, with the constants in parentheses;
no run is spent on them.

| Statement | What the code does |
|---|---|
| `OldEpochMeansReplaced` | The epoch is global: any registration makes all cached snapshots old. Costs a rebuild. |
| `OneBuildPerMeasurement` | A build in flight when its measurement is registered again runs beside a build of the new provider. |
| `OneHeartbeatThread` | After the only publication is registered again, two heartbeat threads run, for a time or for good. |
| `StopsWithoutLock` | `stop_heartbeat` is called with the lock held that its docstring forbids, at the price of its two-second timeout. |
| `FailedRegistrationLeavesNothing` | A first stamp that fails raises and leaves the measurement published. |
| `ClosedMeansEnded` | A close that failed to end the row does nothing when it is tried again. |
| `ElapsedSinceLastAnswer` | Overlapping sweeps measure the grace period from before the last answer (two sweepers, no heartbeat). |
| `LocksReleasedWithMeasurement` | A request admitted before a close puts the measurement's lock back, where a test expects none. |
| `HeldRowsAreComplete` | A row counts as written with its first finite cell; the rest of it is never sent to a follower (`WholeRows = FALSE`). |
| `FollowingEndsComplete` | A preallocated grid of integers (`Shapes = {"integer_grid"}`) has no missing rows from the start. |
| `NeverMixesRuns` | A new run with as many rows as the client holds of the old one is sent as its continuation. |
| `BusyProducerIsListed` | A registration whose sweep waits longer than the window for silent endpoints lets the process's own measurements go stale (`ProbeTime = 2`). |
| `RunningMeansSucceeded` | After a start that gave up, the late thread's event makes the next start count as running. |
| `AdvertisedIsAPort` | A registration after such a start may advertise port 0. |
| `BudgetKept` | A synchronous call also waits for the closing handshake, which is in no budget. |
| `StoppedServerEndsAnyway` | After a start that was given up on, a stop may find nothing to close, or schedule the close on another server's loop; the server serves on. |
| `NeverGoesBackFromAnyThread` | Two overlapping reads of a Quantify run assign in either order (`Kinds = {"quantify"}`). |
| `SnapshotIsAtomic` | A Qanary read that the sweep overtakes mixes two points (`Kinds = {"qanary"}`). |
| `EndIsPublishedAnyway` | Without a forced refresh the last points of a QCoDeS run stay unpublished (`Kinds = {"qcodes"}`, `Final = FALSE`). |
| `PublishedIsCompleteAnyway`, `DoneIsArchivedAnyway` | Two release jobs at once share one draft. |
| `OneConceptAnyway` | A search that lags makes a second concept. |
| `NewestIsLatest` | A job run again late publishes an older release as the newest version. |

## 4. Proofs

Everything a passing run checks as an invariant or an action property is also a
theorem, but for one: `RunningIsListed` of the live system. The theorems hold
for every value of the constants within the `ASSUME`s of the modules (bounds are
natural numbers, `None` is not an identifier, sets that select a variant are of
known variants) and the hypotheses named here.

| Module | Theorem | States | Hypotheses |
|---|---|---|---|
| `SnapshotServerProofs` | `SafetyInvariantHolds` | `SafetyInvariant` | |
| | `TypeCorrect`, `CacheCorrect`, `AnswersCorrect`, `BuildsExclusive` | `TypeOK`, `CacheIsCurrent`, `AnswerIsOwn`, `CurrentBuildIsExclusive` | |
| | `ServiceImplemented` | `ImplementsService` (refinement), from `ServiceInvariantHolds` | |
| `PublicationProofs` | `TypeCorrect`, `PublicationConsistent`, `TakenDown` | `TypeOK`, `PublicationIsConsistent`, `TakenDownByItsOwn` | |
| | `PathOwn`, `OpenBeaten` | `PathIsOwn`, `OpenIsBeaten` | `OneThread` |
| `ReconcileProofs` | `TypeCorrect` | `TypeOK` | |
| | `RunningListed` | `RunningIsListed` | `RegisteredOnce`, `BeatsInTime` |
| | `GoneAreEnded` | `SweepEndsWhatIsGone` | `OneSweeper` |
| | `GraceRespected` | `GraceIsRespected` | `OneSweeper`, `RegisteredOnce` |
| `LiveSystemProofs` | `LiveTypeCorrect` | `LiveTypeOK` | |
| `RowFollowProofs` | `TypeCorrect` | `TypeOK` | |
| | `FollowerCorrect` | `FollowerIsExact` | `WholeRows`, no `integer_grid` |
| `SnapshotProvidersProofs` | `TypeCorrect`, `NothingGoesBack`, `RecentOnly`, `EndPublished` | `TypeOK`, `NeverGoesBack`, `MissesOnlyRecent`, `EndIsPublished` | |
| `ClientCallProofs` | `TypeCorrect`, `WaitOutlasts` | `TypeOK`, `WaitOutlastsCall` | |
| | `RunningServes`, `AdvertisedListens`, `StoppedAsked` | `RunningIsServed`, `AdvertisedIsListening`, `StoppedMeansAsked` | |
| `ZenodoReleaseProofs` | `TypeCorrect`, `ReleasedOnce`, `PublishedComplete`, `DoneArchived` | `TypeOK`, `OneRecordPerRelease`, `PublishedIsComplete`, `DoneIsArchived` | |

The runs have instances in which the hypotheses are true. Where the code does not
ensure one, section 3 says what may happen without it.

- `OneThread`: one application thread; the heartbeat thread and failures are
  there all the same. With two, `publication_unbeaten` is the counterexample.
- `RegisteredOnce` (`MaxRuns <= 1`): an identifier is registered once, as one is
  that names a run in the framework's own database. With reuse, `reconcile_reuse` is the counterexample.
- `BeatsInTime` (`Interval <= Stale`, `Grace > 0`): the code beats every 5 s
  for a window of 15 s, with a grace period that is not zero.
- `OneSweeper`: no two sweeps interleave. `RunningListed` does not need it; the
  grace period does (`ElapsedSinceLastAnswer`).
- `WholeRows`, no `integer_grid`: the README's condition on callbacks, and a
  dataset in which a missing value can be told from a measured one
  (`HeldRowsAreComplete`, `FollowingEndsComplete`).

### Inductive invariants

To see one on an instance, name it as an INVARIANT in the configuration of a run
of its module: `SafetyInvariant`, `ServiceInvariant` (`snapshot_safety`),
`PublicationInvariant` (`publication_concurrent`), `SequentialInvariant`
(`publication_sequential`), `RegistryInvariant`, `ListedInvariant`, `DueIsAtHand`,
`MissesAreSince` (`reconcile_safety`), `LiveInvariant` (`live_system`),
`FollowInvariant` (`follow`), `ProvidersInvariant` (`providers`), `LifeInvariant`,
`CallInvariant` (`connection`), `ReleaseInvariant` (`zenodo`).

*Snapshot server, safety.* `CacheIsCurrent` is not inductive: that a build may
write the cache depends on the epoch of its admission naming the provider that
is published now. `EpochNamesEntry` says so for requests and for the cache: one
epoch names at most one provider of an identifier, and the present epoch names
the present one, unless a change of that identifier is in progress.
`AnswerIsOwn` follows from it with `RequestShape`, which says what a request's
variables hold at each place. Exclusive building needs the locks: `LockQueue`
orders the requests of one lock object totally, with the one inside at the
head; `LockOfCurrent` says that requests for the published provider share the
lock in the table, because a change of the table also drops the lock before
another request can be admitted. Two builders of the published provider would
have one lock, and each would be ahead of the other.

*Snapshot server, refinement.* `SnapshotService` demands that an answer is no
older than what a client already had when it was asked (its `floor`). A build
begins after its request was admitted, so its data reaches the floor; a copy
need not. It does because requests queue for a lock in the order of their epochs
(`EpochsAreOrdered`): a copy found under one's own epoch, in the present epoch,
is as new as any answer given so far, and so is what a build is about to deliver
(`NewestIsAtHand`), since while it was under way no other build of that provider
was. `FloorIsReached` carries this from the admission to the answer. Each action
is then a step of the service or a stutter.

*Publication.* `CallsAreShaped` says who holds the lock: `owner = t` exactly
while `t` registers. With it, `TablesAgree` gives provider table, registrations and rows
for every place of a registration. For one thread, `HandlesAreOpen` says that a
handle that is not closed is the registered one, and `HeartIsSteady` that the
remembered heartbeat thread has not been asked to stop, or that the call that
asks is about to forget it, and that a thread that has been made is about to be
started.

*Reconcile, running producers.* That a sweep does not end a row depends on what
it read when it began. For identifiers registered once, what it holds of an open
measurement is about its present run (`PresentRun`). A producer with a heartbeat
is found without one only before its first beat, and no time passes until that
beat (`FoundUnbeaten`, `FoundInTime`): the row's miss, if there is one, is of
the same instant, so the time unanswered is 0, less than the grace period.
Sweeps that overlap in that state have begun at the same time.

*Reconcile, gone producers and grace.* What was due when the sweep began stays
`AtHand`: among the rows still to be sorted, or to be judged with an endpoint
that does not list it, or being missed with an old enough miss. A recorded miss
is at or after the last answer (`MissesAreSince`), except while the sweep that
has the answer is about to clear it (`Clearing`).

*Live system.* A claim belongs to one producer and no producer has published it
(`ClaimsAreOwn`); every step of the composition is one of `Reconcile`, or an
abandoned sweep, and keeps `RegistryInvariant`, whose lemmas are used again.

*Following.* Rows are measured in order, and a snapshot is the measurement up to
some row that is complete (`SnapshotOf`), so what is sent is final.

*Providers.* Nothing is cached or returned that was not recorded
(`OnlyRecorded`), what a call is about to return or cache is as new as what had
been returned before it began (`NothingIsLost`), and a refresh that was skipped
is less than an interval old, or the one before it raised (`RefreshIsRecent`).

*Server and client.* As long as no wait gave up, the globals belong to the
current thread as far as it has come (`GlobalsAreOwn`), other threads have been
told to end (`OthersAreAsked`), and the application thread may rely on what it
has seen (`ApplicationKnows`). Those waits are the premise `Attended` of the
properties. No close strays then either. A call has taken no longer than the
limits of the steps behind it and its time in the present one (`StepIsTimed`),
so a caller whose wait is over finds it closing.

*Release.* With one job at a time the draft is the job's own (`DraftIsOwn`):
its version, its announced files and its committed ones are as far as the job
has come, whatever an earlier job left. With a search that knows every record,
the concept found is the only one (`ConceptIsKnown`, `ConfiguredIsKnown`).

### Only model-checked

- Liveness (`EveryRequestIsAnswered`, `EveryCallReturns`, `FollowerCatchesUp`,
  `StoppedServerEnds`, `RetryArchives`): the prover has no fairness and no
  `ENABLED`.
- `RunningIsListed` of the live system: a beat may be late by what a sweep takes,
  which is `ProbeTime` for each endpoint it probes. That this stays within
  `Stale` is a sum over the endpoints of the rows found, a proof by induction
  over a set.
- The statements that TLC refutes (section 3).

## 5. Not modelled

- Encoding, decoding and framing: pure functions over arrays and strings.
  A dataset that cannot be serialized is a request that raises.
- The age of a cached snapshot in seconds, and the number of worker threads.
- The dropping of the whole cache and of the lock table when a server starts or
  stops, and the lock table's use from a second loop (430-434): the entry is
  compared with the running loop and used in one turn of that loop.
- The database's path and schema migration, argument checks, logging.
- How the Quantify example finds the identifier of its run, and Zenodo metadata
  other than the version.

## 6. Plan

Done: all modules of section 2, and the theorems of section 4.

Left: `RunningIsListed` of the live system for one endpoint beside the
producer's own, where the sum is a single `ProbeTime`; theorems under which the
hypotheses `OneSweeper` and `RegisteredOnce` can be weakened to conditions on
the behaviour (no other sweep meanwhile, no second registration of this
identifier).
