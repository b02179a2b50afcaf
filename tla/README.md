# Verification of legal-collection-framework

TLA+ models of the collection framework: a TypeScript kernel that downloads
legal documents from portals, archives their bytes in a content-addressed store,
numbers their versions in a SQLite index, and decides from run to run which
documents have disappeared and which sources have gone silent. The modules are
translated from the source; each definition's lines are in `PROJECT.json`
(`map`). `K/` stands for `packages/kernel/src/` below.

## 1. Inventory

| Part | State it keeps | Operations | What is hard |
|---|---|---|---|
| Content store (`K/storage`) | one directory per hash: object file and descriptor; `tmp/<run>/*.part` | `store`, `attachReference`, `purge`, `has`, `verify`, `list`, `scan`, `cleanupTmp` | two writers of the same content, a crash or a power loss between any two of its nine steps, a purge between two collections |
| Document collection (`CollectionRunner.#collectOne`, `K/download`) | none of its own: a `currentVersion` read before the download and used after it | discover, download, store, touch, commit, attach | stale version number, a crash between commit and attachment |
| SQL repository (`K/db`) | documents, versions, content objects, runs, sources, checkpoints | `commitVersion`, `touchDocument`, `recordDiscovery`, `markDocumentFailed`, `withdrawUnseen`, `emptyFullRunStreak`, `startRun`, `closeRun`, `failStaleRuns` | replay and conflict of a commit, WAL with `synchronous = NORMAL`, one connection for all runs |
| Run life cycle (`CollectionRunner.run`) | lock per source, stop flags, budget of the shared HTTP client, state of the plugin | `run`, `requestStopAll`, `#retryFailed`, `#maybeQuarantine` | the phases that follow the release of the lock, a query that throws before the `try`, a crash half way through a quarantine |
| Sweeps (`K/db`, `plugin-toolkit/paginated-index.ts`) | document status, time last seen, cursor, high water mark | the enumeration by pages and its resumption, withdrawal, silence | interrupted, truncated, capped and failed runs that must not be taken for complete sweeps; an index that moves while it is read; a portal without end |
| Scheduler (`K/scheduling/scheduler.ts`, `cron.ts`, `blackout.ts`) | last minute triggered per source, time of the last checks, stop flag | `start`, `stop`, `tick`, `backgroundWork` | ticks longer than a minute or repeated in one, failing sources, a signal at any await |
| Process lock (`K/scheduling/process-lock.ts`) | `lcf.lock` | `acquire`, `release` | a file created in one step and written in another, several processes that take over a dead one's lock, a removal that hits another file than the one that was read |
| Network (`K/net`) | slots, waiting queue, last request and last minute's departures per host; delay, quota, number of slots, breaker and budget per source; robots cache | `acquire`, `release`, `send` | requests that wake together, checks made before a wait, a slot that an error path forgets |
| Plugins (`K/plugins`) | loaded plugins, their state | `load`, `quarantine`, `dispose` | a source that stays loaded |
| Reindexing, integrity scanner (`K/orchestration`) | rebuilt index, integrity status | `reindexFromStore`, `scan`, `scanAll` | what the descriptors do not say, a rebuild killed half way, a scan by pages of an index that grows |
| Migrations (`K/db/migrations.ts`) | `schema_migrations` | `migrate` | commands that migrate at the same time without the lock, a failing migration, an edited file, a release installed in between |
| Events (`K/events`, `K/observability`) | ring buffer, event file | `publish` | no decision depends on them |
| Command line, daemon, dashboard (`packages/cli`) | the open application | commands, `runDaemon`, `startRun` | start-up recovery against live runs |

Interactions. A run enumerates references through the plugin (a generator whose
HTTP client belongs to the source, not to the run), and for each reference calls
`recordDiscovery`, the download manager, which calls `store`, then
`commitVersion` and at last `attachReference`. Runs of different sources
interleave at every `await`, on the same store, connection and host policies.
What must hold: the index never points to bytes that are not there (I-2 of the
architecture volumes), the store alone is enough to rebuild the index (I-4), no
document is withdrawn because a run was cut short, one run per source, a stopped
or quarantined source stays so, and sources that share a host do not add up the
load that each may put on it.

## 2. Modules

| Module | Models | Composition |
|---|---|---|
| `ContentStore` | E1–E9 of `store()`, `attachReference()`, `verify()`, `cleanupTmp()`, restarts, crashes, power losses | |
| `StorePurge` | `purge()`, `has()` | extends `ContentStore`, purges between its steps |
| `Archive` | abstract specification: contents held, numbered history per document | |
| `Collection` | `#collectOne` and `commitVersion` | extends `ContentStore`; implements `Archive` |
| `Maintenance` | `reindexFromStore()`, `scanAll()`, the loss of the index and the decay of files | extends `Collection` |
| `SourceRuns` | `run()` from the lock to the last event, quarantine, resume, restart | |
| `Sweep` | successive runs of one source, seen from the index of the store | |
| `Pagination` | the same runs, seen from the portal: pages, guards, cursor, high water mark | stands alone; what `Sweep` abstracts as reading a page |
| `Daemon` | `lcf daemon`: scheduler, loading and disposal of plugins, signals, restarts | a run of `SourceRuns` is one step of it |
| `Schedule` | cron expressions, exclusion windows, `preflight()`, the tick over a calendar | the `Due` and `Blackout` that `Daemon` takes as sets |
| `ProcessLock` | `lcf.lock`: `acquire()`, `release()`, takeover | |
| `Migrations` | `migrate()` by several processes on one SQLite file | |
| `Startup` | the life of a command: lock, `store.init()`, `migrate()`, work, `close()` | extends `ProcessLock` and `Migrations` |
| `HttpClient` | `send()` with the limiter of a host, the breakers, budgets and retries | a request of `SourceRuns` in detail; stands alone |
| `StoreProofs` | theorems about `ContentStore` and `StorePurge` | extends both |
| `CollectionProofs` | theorems about `Collection`, its refinement of `Archive`, and `Maintenance` | extends `Maintenance` and `StoreProofs` |
| `SweepProofs` | theorems about `Sweep` and `Schedule` | extends both |
| `RunsProofs`, `HttpProofs`, `StartupProofs`, `PaginationProofs`, `DaemonProofs` | theorems | each extends the module it is about |
| `MC…` | model values, symmetry, sets of references for TLC | |

**ContentStore.** `dir[h]` is the leaf directory of a hash as the process sees
it, `bytes` (absent, torn, whole) and `desc`. `survivors[h]` is the set of
states in which it may be found after a power loss: every change adds a state
(`SetDirectory`), `#fsyncDir` leaves only the current one (`Sync`), `PowerLoss`
picks one. A writer's `stage` is the `await` it stands at, so that any other
writer may run between two stages. `UpsertRead`/`UpsertWrite` and
`AttachRead`/`AttachWrite` are the two halves of a read-modify-write of the
descriptor. `Abort` is the `catch` of `#writePart`: the part file is unlinked;
`IoError` is an operation of the disk that fails. Assumed: `fsync` is enabled
(it is unless a test disables it), the platform synchronises directories, and a
leaf directory that has been synchronised is durable with its parents, which are
created only once. The second assumption is one about the machine: `#fsyncDir`
goes on without a word when the platform answers `EPERM`, `EISDIR`, `EACCES`,
`ENOTSUP` or `EINVAL`, as NTFS does, and nothing here says what a power loss
leaves there.
Abstracted: the hash function (a hash is a model value), sizes, compression.

**StorePurge.** `purging` is the hash being purged. The tombstone replaces the
descriptor first (`PurgeMark`), the directory is synchronised, then the bytes
are removed. A purge starts while no collection runs (`NoWriter`) and none
starts until it ends: no command of the program calls `purge()`, and the tests
that do call it alone. A purge may be interrupted anywhere, and a content of
which the purge is over, or was cut short, may be collected again.

**Collection.** A collection's `phase` follows `#collectOne`. `known` is the
current version read at its beginning; `NextVersion` is computed from it.
`index` holds the current version and the rows of each document and the content
objects; `indexSurvivors` is the set of indexes that a power loss may bring
back, cut by `Checkpoint`. `Commit`, `CommitReplayed` and `CommitConflict` are
the three ends of the transaction. `StoreWork` is a step of the store inside a
collection, so every behaviour of the collection is one of the store
(`CollectionRunsStore`, proved). `Archive` is what it promises: the contents
held, and for each document a numbered history to which versions are only
added, each with a content that is held, and from which nothing but a power cut
takes, and then only the end (`PowerCut`).

**Maintenance.** Reindexing holds the lock of the store, so it excludes
collections; it reads one descriptor per step, in any order, then corrects one
document per step (`ReindexDocument`), and may be killed between any two and
started again, over an empty index (`lost`) or over the one in use. The status
`stored` that it gives to each document is left out.
`replaced` is the index that it has to give back. Verification takes no lock:
collections go on between its steps, and objects enter the index before and
behind `cursor`. `atStart` is what the index held when it began, and which of it
has been damaged all along: a writer that stood before its rename when the
verification began may put whole bytes over damaged ones before their turn
comes. The report of unindexed objects is advisory: an object committed
after its batch was read is reported although it is in the index by then.

**SourceRuns.** A call is one invocation of `run()`; `at` is the `await` it
stands at. The points of `LockedPoints` are those between `tryAcquire` and the
`finally` clause. `EndEnumeration` is the whole of that clause: the budget, the
stop flag, the plugin's state and the lock. `Throw` is a query that fails outside
of the `try`. `Restart` and `FailStaleRuns` are `App.loadSource` and
`App.migrate`.

**Sweep.** `missed[d]` abstracts `last_seen_at`: the complete full sweeps that
started after the document was seen. `CompleteSweep` is the condition that
`withdrawUnseen` puts on the runs it counts. `cursor` is in memory, `saved` in
the checkpoint of the last run that did not fail.

**Pagination.** A document is its date of publication, `index` the list that the
portal shows, from the newest on, cut into pages of `PageSize`. `Publish` moves
every document, also while a run stands between two pages; `Withdraw` takes an
entry out, after which the sweep under way owes nothing, since what follows may
have moved to a page already read. `beyond` is what the
portal answers past its last page: nothing, empty pages, the last page again, or
the first ones. Each guard of `discover()` that ends the enumeration is an
action: `EmptyPages`, `SamePage`, `StopAtPage` (incremental), `StalePages`,
`PageLimit`, `LastPage`; those of them that call `#sweepCompleted()` go through
`SweepCompleted`, the others through `Interrupted`, as does the consumer that
leaves at a `yield` (`LeaveAtYield`) and the budget exceeded by the reading of a
page (`LeaveAtRead`), both of which end the run as completed. `Fail` is a page
that cannot be read or a document that fails the run in mid-page. `owed` and `vain` are history variables: what the sweep
under way has still to yield, and the pages read in a row for nothing since the
portal last changed. Only
full and incremental runs that follow one another are modelled, not what they do
with the references.

**Schedule.** A calendar of days (date and month of each), hours and minutes are
parameters, time is a minute of that calendar, which comes round again. The
parsers are given texts cut where the code cuts them, so that what they accept
(an empty word is 0, what follows a second mark is ignored) is modelled and what
they do not look at is not. `Due` and `NextRunAfter` are functions over the
calendar; `NextRuns` is the loop of the preflight. The refusal of the preflight,
the exception of `register()` and the ticks are actions. A tick awaits the
collections of every source that is due, one after the other, and the background
work: it lasts up to `LongestTick` minutes (`Lasts`), and those that it spans have
no tick of their own. There is
no time zone but a fixed offset: no change to summer time.

**ProcessLock.** The path and the file are distinct. `CreateLock` and
`WriteLock` are two awaits; the writing goes to the file that the process
created, even when the path leads to another by then. `RemoveLock` and
`ReleaseRemove` remove whatever the path leads to. `challenged` is a history
variable: the processes whose file was exposed to a removal that was decided
before it, or for its emptiness. `EndProcess` may happen at any await.
`PidsReturn` says whether a new process may have the pid that a lock left by a
dead one still names. Abstracted: the host name (there is one).

**Migrations.** `directory` is the files present, `records` the journal
`schema_migrations`, `schema` what has been executed and committed, `writer` the
process that holds the write lock of SQLite. A process reads the version, reads
the directory, compares it with the journal, reads the directory again and applies
in separate steps, so that another may have migrated, or an operator edited a file
or installed a release, in between; `files[p]` is what it goes by, the texts that
it verified below the version it read and those that it found pending above. One
`load()` reads the directory at once, since it takes each file by itself and keeps
nothing that relates two of them. A text is a model value, and a
migration that fails or damages is one of `Failing` or `Damaging`.

**Startup.** `at` is the stage of a command between its launch and its exit.
`LaunchExclusive` is `run`, `daemon` and `reindex`; `LaunchShared` is every
other command that migrates, without the lock. `Kill` takes the connection to
SQLite along and leaves the lock file.

**Daemon.** `at` is the `await` of the single process. Time is a clock of
minutes that wraps round after `Cycle` (two at least) and advances while the process awaits;
`elapsed` dates the tick, whose instant (`TickMinute`) is read once. Cron
expressions and exclusion windows are sets of minutes (`Due`, `Blackout`).
`Instantiate`, `InitEnds`/`InitFails` and `Register` are the awaits of
`PluginManager.load()` and `App.loadSource()`; `instances` counts the plugins
initialised and not disposed of. `registered` is the sources that have a row in
the index: the silence check passes over the others, such as a source that has
never been loaded. A run may put its source in quarantine whether it fails or
completes: the scheduler asks for incremental runs, and one that is promoted to a
full one may find that the source has listed nothing for several of them.
`WakeUpEarly` is a timer that fires before the
minute is over, the case that `lastTriggeredMinute` is there for. The two steps
of a quarantine are one here; `SourceRuns` separates them.

**HttpClient.** One host and the requests that several sources send it. The state
of the host is one for all sources, but `acquire()` is given the capability of the
caller, into which `capabilities.ts` has merged its own grant: `Politeness`,
`Quota` and `limit` are functions of the source, and the slots, the departures and
the queue they are compared with are those of everybody. A
request's `at` is the `await` it stands at: `robots`, `queued` (the promise that
`release()` resolves), `woken` (resolved, but its continuation has not run, so
that a newcomer may take the slot first), `spacing` (the sleep inside
`acquire()`), `sent`, `obeying` (the sleep of `Retry-After`, which keeps the
slot), `backoff`. `TakeSlot` computes the wait once, from what departed before,
as the code does; `Depart` is the end of `acquire()`. `Release` is the `finally`
clause. `State` is the getter that turns an open circuit into a half-open one.
Time is kept as ages (`idle`, `stamps`, `rest`) and remaining delays, so `Tick`
may go on for ever in a finite model. `hammered` is a history variable: what a
source has sent since its circuit opened. `ExceedBudget` is either limit of the
budget, the number of requests or the duration. Abstracted: the averages behind
`slowdownFactor()` (any of its values may come out), the jitter (any of
`Backoffs`), addresses, headers and bodies.

## 3. Runs

Every run is exhaustive over the bounds of its `.cfg`. Deadlock is checked in
all of them but `schedule`, where a daemon that refuses to start has stopped.

| Run | Question | Bounds and why they are enough |
|---|---|---|
| `store` | do descriptors ever promise bytes that are missing or may vanish, can a purge, cut anywhere, leave a hole, does every write end? | 2 writers, 2 hashes, every fault: two writers meet on one hash at every pair of stages, a purge passes between any two of them, while the other hash stands by |
| `collection` | is the index consistent, does it implement `Archive`, what does a power loss cost? | 2 collections of 1 document, 2 contents, 2 versions, every fault: a replay, a conflict, an unchanged content and a version lost with the index all occur |
| `maintenance` | do the descriptors give the index back, does a verification skip anything? | 2 documents that may share their content, 2 versions, batches of one object: an insertion before and after the cursor both occur, and so does a reindexing killed between its two last updates |
| `runs` | exclusion, budget, stop flag, quarantine; are rows closed and locks released (`RunsAreWoundUp`)? | 2 calls on 2 sources: every property relates at most two calls of one source, or one call and a restart |
| `sweep` | can a listed document be withdrawn, is what left withdrawn and what came back shown (`VisibilityFollowsListing`)? | 2 pages with a document each, a page limit above them or of one page, failed runs, crashes; 2 missed sweeps |
| `pagination` | has a sweep that ends read everything, do interrupted ones get there, is what is published seen, is an endless portal left? | 3 pages, the second of which repeats the first in another order, so that a page is stale in a healthy portal; one document comes, one may go, and all four ways to go on past the end; limits of 2 empty and 3 stale pages, a page limit of 10, three times the pages there are |
| `http` | is a slot lost or taken twice, the load on a host bounded, a failing source at rest, does every request end? | 3 requests of 2 sources, each source with 1 slot or 2: one holds, one waits in the queue and one arrives in between; one source with a delay of 1 and a quota of 2 per 3 units of time, the other with a delay of 2 and a quota of 1, so that either may depart within the delay and the quota of the other; 2 attempts each, a breaker that opens at 2 failures, a budget of 4 |
| `daemon` | do failures stay with their source, is a stop obeyed, the silence of a source that has a row reported? | 2 sources due in the same minute, a cycle of 3 minutes with one excluded, ticks of up to 2 minutes, one kill or failing query |
| `schedule` | are windows intervals, also over midnight, over the end of the week and in two clocks; is an accepted cadence collected, unless long ticks miss its minutes for ever? | a year of 6 days in 2 months, days of 3 hours of 2 minutes, weeks of 3 days, local time 1 minute ahead; 8 expressions and 7 lists of windows, each with a form that the parsers treat apart; started at every minute; ticks of 1 to 8 minutes, more than a day of 6 |
| `startup` | do exclusive commands exclude one another, is an abandoned lock taken over, is the schema what its journal says, does a start end? | 2 processes, killed at any await, of either kind; 2 releases, one edited file whose SQL fails, at any moment of a start, I/O errors. The safety properties are proved for any number of processes |
| `sweep_capped`, `daemon_again` | see below | the smallest bounds that show it |

Bounds. `MaxVersion` bounds the version numbers and `Calls` the invocations of
`run()`; `MissedSweeps` and `SilentSweeps` are 2 in place of the program's 3 (3
in the runs where the difference matters); `missed` and `streak` are capped at
these values, and the ages of `Daemon` at `OldestSuccess` and `OldestCheck`,
beyond which the code does not tell them apart. `MaxFaults` bounds the kills and
failing queries of a daemon, without which nothing could be promised of it.
`Requests` bounds the calls of `send()`; a unit of time of `HttpClient` is the
shortest politeness delay, and the minute of the quota and the cooldown last 3 and
2 of them, so that each of the waits of `acquire()` is the longest in some state.
`LongestTick` is the longest tick of `Schedule`: the minutes that it spans are
among those of its day and the next. `Newest`
bounds the publications of a portal and `MaxPages` the pages of an enumeration;
`Oldest` and `Newest` of `Startup` the releases. `Horizon` is a whole round of
the calendar, so `nextRunAfter()` gives up only on what never comes, and
`Occurrences` is 3 for the program's 5.

Each property of a passing run has a mutant: a copy of one definition with a
plausible bug (a flush left out, a stale read, a counter that is not reset),
kept next to that definition and headed "Mutation of". No specification uses
them. With the mutated definition in place TLC finds the property violated.

### Disagreements between the code and its own statements

Two runs check one statement each that a comment or a document makes, and TLC
finds a behaviour of the code that breaks it.

| Run | Statement | What the code does |
|---|---|---|
| `daemon_again` | the daemon collects each source daily, automatically | nothing unloads a source after its collection, and a loaded source is refused: it is collected once in the life of the process |
| `sweep_capped` | only a completed sweep may notice an absence | `maxPages` ends a run like a complete one |

Other statements fail too; they are stated in their modules, and a
configuration that differs from an existing one as said shows it.

| Property | Statement | Where TLC finds it violated |
|---|---|---|
| `NoReferenceLost` (`ContentStore`) | a shared object never loses a provenance | `maintenance` with two writers: two interleaved read-modify-writes of a descriptor keep one reference |
| `PurgedStaysEmpty` (`StorePurge`) | a purged content is gone | `store` with one hash, one writer, no fault: `store()` renames before it looks at the tombstone |
| `StoreSelfSufficient` (`Collection`) | the store is self-sufficient (I-4) | `maintenance` with `"crash"` among the faults: a crash between commit and attachment is never repaired; a reindexing then sets the current version back |
| `ReferencesUnambiguous` (`Collection`) | the index is reconstructible, so `NORMAL` is enough | `collection`: after a power loss two contents claim one version number |
| `NoConcurrentRuns` (`SourceRuns`) | no two runs of a source at once | `runs` with its two calls on one source: the lock is released before the retries and the closing of the row |
| `RequestsAreBudgeted` (`SourceRuns`) | the budget lasts as long as the collection | `runs`: the retries run after its removal |
| `QuarantineIsPersisted` (`SourceRuns`) | a quarantine survives a restart | `runs`: it is in memory before it is on disk |
| `StoredHasVersion` (`Sweep`) | a stored document has a valid content | `sweep`: a document withdrawn before its first collection returns as stored |
| `SilentSourceOnly` (`Sweep`) | silence is several *complete* sweeps without a document | `sweep`: interrupted sweeps count |
| `AnyGoneIsWithdrawn` (`Sweep`) | what N complete sweeps have not seen is withdrawn | `sweep`: the failure of a retry counts as having seen the document |
| `NewsAreSeenAlways` (`Pagination`) | what is new at the top of the index is seen again | `pagination`: the guard against identical pages and the page limit end a run without resetting its cursor, and every later run begins there |
| `SweepResumesAlways` (`Pagination`) | an interrupted sweep resumes where it stopped | `pagination` with an index of 5 single-document pages: an incremental run takes up the cursor, finds its page old and resets it |
| `OldPagesAreKnown` (`Pagination`) | a page at which an incremental run stops is already known | the same: a run cut short has moved the high water mark past documents that it did not read |
| `RefusedForGood` (`Schedule`) | a refused cadence would never be collected | `schedule`: the preflight looks at the next occurrences only, which may all be excluded while a later one is not |
| `NeverDueIsSaid` (`Schedule`) | a cadence that never comes is reported at the start | `schedule`: the preflight skips what has no occurrence |
| `ManifestIsCollected` (`Schedule`) | the same of the cadence of a manifest | `schedule`: the preflight reads the configuration only |
| `AcceptedIsCollectedAnyway` (`Schedule`) | a cadence that the preflight accepts is collected ("sinon cette source ne collecterait jamais") | `schedule`: a tick awaits its collections in sequence (`scheduler.ts:133`), each for up to six hours (`collection-runner.ts:55`), and the minutes it spans have no tick; nothing catches up with a source that was due in one of them. `deploy/lcf.config.vps.json` has its six sources due at 02:00, 02:30, 03:00, 03:30, 03:40 and 03:50 (lines 50 to 85), so that a collection of an hour costs the next source its day, and every day if it is as long every night. |
| `ReadAsWritten` (`Schedule`) | what is not understood is refused, never read as something else | `schedule`: an empty word is read as 0 |
| `TmpIsPrivate` (`Startup`) | nothing touches `tmp/` unless no other process works there | `startup`: `init`, `status`, `serve` and the other commands without the lock empty it too |
| `RefusedByHolder` (`ProcessLock`) | an abandoned lock is taken over | `startup` with `PidsReturn = TRUE`: a pid in use again makes the lock of a dead process look alive |
| `LoadedAsVerified` (`Migrations`) | what a start applies or goes on with is the release it verified; "deux installations declarant la meme version de schema doivent avoir exactement le meme schema" (`migrations.ts:231`) | `startup`: a file edited between the two readings of `migrate()` (lines 235 and 271) is neither refused nor applied; the process works with the schema of the text it verified, and only the next start refuses |
| `ReadyIsUndamaged` (`Migrations`) | a migration that breaks an invariant stops the start | `startup` with a migration in `Damaging`: it is committed before the invariants are read, and the next start finds nothing pending and does not read them |
| `SignalIsObeyed` (`Daemon`) | a signal ends the daemon after the current tick | `daemon`: `start()` resets the flag of a signal received during the first heartbeat |
| `EverySilenceIsReported` (`Daemon`) | "une source qui ne renvoie plus rien ne declenche aucune alarme naturelle", so the check raises one for each | `daemon`: `#checkSilence` passes over a source without a row (`scheduler.ts:212`), and `loadSource()` writes the row last (`app.ts:251`): a source whose loading fails from the start is silent for ever and never reported |
| `BlackoutIsRespected` (`Daemon`) | no collection bothers a source in an exclusion window | `daemon`: the windows are read once per tick, then at each document but not before the first page |
| `PolitenessIsKept` (`HttpClient`) | the politeness delay separates two requests to one host | `http`: with two slots, two requests compute their wait from the same last departure and leave together. One source with two slots is enough to break the delay of another that has one |
| `QuotaIsKept` (`HttpClient`) | a sliding quota per minute | `http`, for the same reason |
| `OwnQuotaIsKept` (`HttpClient`) | the quota of a source bounds what the host sees when that source sends | `http`, with one slot each too: `acquire()` waits until the oldest departure has left the minute (`policy.ts:174`), which is one less than there were, while a source with a larger quota has made more |
| `NoSendWhileOpen` (`HttpClient`) | no request while the circuit is open | `http`: the breaker is read before the wait for a slot |
| `CooldownIsKept` (`HttpClient`) | an open circuit rests for its cooldown | `http`: the late success of a request sent before closes it |
| `RetryAfterIsRespected` (`HttpClient`) | `Retry-After` is always respected | `http`: by the request that received it only; another slot goes on |

## 4. Fairness

- `PurgeFairSpec`, `RunsFairSpec`: weak fairness of the steps of each writer or
  call. An `await` whose operation has completed is resumed by the event loop;
  file and database operations end. Faults, I/O errors, purges, restarts asked by
  the operator and new calls are not fair. `RunsFairSpec` is also fair to the
  start-up recovery, which the program runs each time it opens the index.
- `SweepFairSpec`, `PaginationFairSpec`: weak fairness of the steps of a run that
  has begun. That runs begin, that full runs come to an end by themselves
  (`Sweeps`, `RunsEnd`), or get past a page (`Advance`), is not assumed of the
  code: it is the premise of the properties concerned.
- `DaemonFairSpec`: weak fairness of the loop and of the steps of an entry
  (`init()` and a run have time limits), strong fairness of the clock, which is
  not disabled by what the process does. Booting, signals and faults are not fair.
- `ScheduleFairSpec`: weak fairness of the one step that is enabled: the loop
  of a daemon that lives, with a clock that advances. How long a tick lasts is not
  bounded by it, and ticks that are short enough are not assumed of the code: that
  in the end none spans a minute at which the source should have been collected is
  the premise of `AcceptedIsCollected`.
- `HttpFairSpec`: weak fairness of the clock and of the steps of each request.
  Timers fire, the event loop resumes what is resolved, and the transport ends:
  it has limits of time for the connection, the headers and an idle body. New
  requests are not fair.
- `StartupFairSpec`: weak fairness of the steps of each process. A wait for the
  write lock of SQLite ends by the lock or by `busy_timeout`. The end of a
  command's work, kills, launches and the operator are not fair.

## 5. What is proved

Every invariant and every action property of the passing runs is a theorem, for
every set of hashes, references, writers, documents, sources, requests and
processes, every bound and every subset of the faults, under the assumptions
named in the modules (null values are not elements of the sets they complete,
limits are positive) and the hypotheses given here. TLC refutes each of these
statements without its hypotheses.

| Module | Theorems | Hypotheses |
|---|---|---|
| `StoreProofs` | `StoreIsInvariant`, `StoreTypes`, `DescribedAlwaysHasBytes`, `StoredAlwaysDurable`, `DurableStays` of `Spec` | |
| | `PurgeIsInvariant`, `StoredDurableBesidePurges`, `HolesAreExplained`, `PurgesAloneRemove`, `TombstoneStays` of `PurgeSpec` | |
| `CollectionProofs` | `CollectionIsInvariant`, `CollectionTypes`, `IndexedAlwaysHasBytes`, `IndexAlwaysConsistent`, `NoReferenceIsInvented` | |
| | `CollectionRunsStore` (`CollectionSpec => Spec`), `CollectionImplementsArchive` | |
| | `VerificationMissesNothing` of `MaintenanceSpec` | |
| | `StoreAlwaysSelfSufficient`, `ReindexingRestoresIndex` of `MaintenanceSpec` | one collection at a time, not cut short: see `NoReferenceLost` and `StoreSelfSufficient` in section 3 |
| `RunsProofs` | `RunsAreInvariant`, `RunsTypes`, `OneCollector`, `EnumerationAlwaysBudgeted`, `StopsAreContained`, `QuarantineStays` | |
| `SweepProofs` | `SweepTypes` | |
| | `ListedStays` | two missed sweeps at least, and a page limit that covers the index or is one page (`LimitsSpareListed`): see `sweep_capped` |
| | `ScheduleTypes`, `WindowsAlwaysIntervals` of `ScheduleSpec` | |
| `PaginationProofs` | `ReadIsInvariant`, `SweepsReadAll`, `EndlessPortalsAreLeft` | |
| `DaemonProofs` | `DaemonIsInvariant`, `DaemonTypes`, `PluginsAlwaysDisposed`, `FailuresAlwaysIsolated`, `QuarantineSurvivesRestarts` | |
| `HttpProofs` | `SlotsAreInvariant`, `SlotsAlwaysBalanced`, `FailingSourcesRest` | |
| | `LoadAlwaysShared` | one source at least has a delay of at most the minute for which departures are kept. What is proved is a bound by the most permissive source: see `PolitenessIsKept`, `QuotaIsKept` and `OwnQuotaIsKept` for what no source can count on |
| `StartupProofs` | `LockIsInvariant`, `HoldersExclude` of `LockSpec`; `StartupIsInvariant`, `ExclusiveCommandsExclude`, `SchemaAlwaysRecorded`, `ReadyAlwaysKnows`, `RecordsStay` of `StartupSpec` | |
| | `OnlyHoldersRefuse` | pids do not return: see `RefusedByHolder` |

### Arguments

*Store.* `StoredIsDurable` is not inductive: it says nothing of a directory
that a writer has renamed into but not synchronised, nor of a fast path taken on
such a directory. `StoreInvariant` adds three facts: the part file that is about
to be renamed has been flushed (`PartIsSynced`); the present directory is among
its survivors, and whole bytes once synchronised are in all of them
(`SurvivorsAreSound`); what each stage of a writer knows of its hash
(`WriterKnows`). One lemma per action shows that each step keeps them.

*Purge.* `PurgeUnderWay` adds the order of a purge: while its bytes are still to
go, every survivor of its directory holds the tombstone. No writer is between the
reading and the writing of a descriptor while a purge goes on, so the descriptor
that a later one writes back is the tombstone itself.

*Collection.* `CollectionInvariant` adds that a collection that has come to its
commit comes from a writer at `stored` (so its bytes are durable by
`WriterKnows`), and that each possible survivor of the index is sound: versions
without a gap, each with its content object, each durable. A commit extends a
sound index by one version of a durable object; the conflict of a stale version
number is caught by the check inside the transaction, which is why no property
of the caller is needed. The refinement of `Archive` needs two more facts, that
every survivor of the index holds the beginning of each present history
(`HistoriesOnlyGrow`) and that a directory that may have its bytes after a power
loss has them now (`BytesOnlyCome`). Each step of the
collection is then a step of the archive or a stutter, and a power loss is its
`PowerCut`. That no reference is invented (`ReferencesAreCommitted`) holds
although two attachments may overwrite each other: beside references that the
index backs, a copy holds just those that the descriptor itself holds
(`CopiesInventNothing`).

*Verification.* Its state is a cursor and a batch taken from a list that grows.
`VerifyIsUnderWay` says where an object of the beginning is: verified already, in
the batch, or after both the cursor and the batch. An object that is inserted
behind the cursor was not there at the beginning; that a batch takes the first
objects after the cursor (`BatchIsFirst`), and that nothing remains after an
empty one (`NothingAfterEmptyBatch`), are facts of finite sets of ranks.

*Reindexing.* `RebuildInvariant` joins three parts. `DescriptorsAgree`: the
references of a descriptor and the rows of the index with its content are the
same, apart from the row that a collection has just committed. `WriterIsAlone`:
that row belongs to the one collection that stands between its commit and its
attachment. `RebuildIsUnderWay`: what the references already read give, with
those that are still to be read, is the promised index. Reading a descriptor
moves its references from one side to the other, and the greatest version that is
kept does not depend on the order; of the documents that are corrected one by one
at the end, each has either its former current version or the promised one. A
power loss during a reindexing is not modelled.

*Runs.* `EnumerationIsBudgeted` says nothing of a call that has installed its
budget and not begun to enumerate. `RunsInvariant` adds `HolderIsBudgeted`: from
the installation to the `finally` clause, the budget of the source is that of the
call. It holds together with `OneCollectorPerSource`, for the only steps that
touch the budget, the flag or the lock are made by their holder; what a call
does after its lock is released (`OutsideKeepsInvariant`) touches none of them.

*Sweeps.* A listed document is missed by one complete sweep at most, by one that
took up the enumeration beyond its page (`MissedOnceAtMost`). That sweep forgets
its place, so the next begins with the first page, and until the document has been
seen no place beyond it is remembered, in memory or in a checkpoint. A limit of
one page is harmless because nothing beyond the first is ever discovered
(`FirstPageOnly`).

*Pages.* `ReadInvariant` places what a sweep owes: ahead of its cursor, or in
what the page under way has still to yield. A publication moves the documents
ahead of the cursor further ahead, a page that is empty or stale owes nothing,
and the last page is the quotient of a division, whose properties are lemmas. The
guard against stale pages is excepted: when the portal publishes a whole series of
pages during a sweep, each shows only what was seen, and the sweep is taken for
complete.
`VainInvariant` bounds the pages read for nothing by the two counters of
`discover()`: beyond the index the counter of stale pages stands still and that of
empty pages grows, until it stops the run.

*Windows.* The hour at which a window begins came once in the last day, and on the
day before exactly when it is later than the hour of the clock (`MinutesAgo`). The two tests of `matchingWindow()` are these
two cases, once the day of the week is known to be counted on through the rounds
of the calendar (`WeekdayOf`) and over the end of the week (`DayBefore`). That the
calendar is a whole number of weeks is an assumption; the real one goes on for
ever, and its weeks with it.

*Daemon.* `PluginsAreDisposed` and `FailuresAreIsolated` need to know, of the
entry that the tick has come to, whether its plugin has been loaded
(`EntryInProgress`), and of the entries that it has passed, that those due in
its minute were triggered (`PassedAreTriggered`): by this tick, or by an
earlier one of the same minute. In a cycle of one minute the next minute would be
this one, hence the assumption on `Cycle`.

*Requests.* `SlotsAreBalanced` counts the holders of slots, so each step that
changes the place of a request adds it to, or takes it from, a finite set. That
`release()` wakes a request that has no slot needs `QueueIsSound`: each request
in the queue stands at the promise, and is there once. `FailingSourceRests`
needs the requests that may still depart without looking at the circuit to be
counted with those that have (`FailuresInvariant`): a departure moves one from the
first number to the second. `LoadIsShared` counts the departures of the last
shortest delay together with the sleeps that will end within it: all of them had a
slot at one time (`DeparturesAreSpaced`), under the limit of whichever source came
last, hence under the largest. With one slot each, the departure a largest quota ago
has left the minute, or will have when the sleep of the next one ends
(`MinuteIsRationed`), and the sleep of a request goes on until the delay of its own
source is over (`DelayIsSlept`), since nobody else departs meanwhile.

*Starting.* That one process holds the lock (`OneHolder`) says nothing of the
file, which a third process may be about to remove. `FileIsSafe` says why it
holds: a process that nobody has challenged and that has come past the creation
of its file is the one that the path names, and no process stands before a
removal; a process that creates its file while one does is challenged from then
on, so the exception grows with the code's own window and with nothing else.
`WorksUnderLock` ties the stages of a command to the lock. The schema is another
matter, since most commands migrate without it: `SchemaIsRecorded` (the journal
and the executed migrations are one sequence) is kept by the transaction, because
the record is inserted under the key of its version. `ReadyKnowsSchema` needs
`KnowsJournal`: what a process goes by agrees with the journal up to the
version it stands at, which later commits of others cannot change, since records
are only appended. It goes by two readings of the directory, joined at the version
that it read first (`LoadedTexts`): below it by the texts that it compared with the
journal, from it on by those of the second reading, which it executes itself. Files
may change at any moment; what the second reading finds changed below is not looked
at, which is the point of `LoadedAsVerified`.

The inductive invariants were checked by TLC on the instances of the runs before
they were proved; the runs list the properties that follow from them. The type
invariants are proved, and no run spends time on them again.

Only model-checked: liveness (`WriterReturns`, `RunsAreWoundUp`,
`VisibilityFollowsListing`, `SweepResumes`, `NewsAreSeen`, `StopIsObeyed`,
`SilenceIsReported`, `AcceptedIsCollected`, `EveryRequestEnds`, `StartEnds`),
because the prover handles neither fairness nor `ENABLED`. What the parsers of
`Schedule` return for all texts is not stated: `parseCron()` is checked through
the runs of its eight expressions. No module here declares a recursive operator.

## 6. Not modelled, and the plan

Left out: HTML extraction, manifest validation, robots.txt parsing, sockets,
output, conversions of identifiers, the journals, on which no decision depends.
`requestStop()` and `PluginManager.reactivate()` have no caller in the program.
In `Maintenance`, the hourly batch of `scan()` and descriptors that cannot be
read; in `Daemon`, the heartbeat, on which nothing depends; in `HttpClient`, the cache
of robots.txt and the bytes charged to the budget; in `Schedule`, the change to summer time; in `Migrations`,
the guard of the backup, which the application configures to let everything pass.

Next, in this order:

1. The background batch of `IntegrityScanner.scan()`, with a descriptor that
   cannot be read: `verify()` then throws, the batch ends, and the same object,
   never dated, is first in every later batch. The question is the one
   `scheduler.ts` answers yes to: is the whole store covered in turn?
2. `Transactions` of the SQL driver shared by two runs of one process: the
   statements of one that join the open transaction of the other.
3. The dashboard, whose runs may load one source twice, as an extension of
   `SourceRuns`.
4. The cache of robots.txt, where a refusal by error lasts as long as the
   process, as an extension of `HttpClient`.
5. Proofs: every invariant and action property that a run checks is proved.
   What is left is to weaken hypotheses: `StoreAlwaysSelfSufficient` for several
   collections that share no content, and a reindexing that a power loss cuts
   short.
