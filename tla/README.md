# mlsgrid-sync: verification project

`mlsgrid-sync` replicates the listings of an MLS Grid OData feed into a
Postgres database. This directory holds TLA+ modules translated from its Go
source (`src/internal/...`), the configurations that model-check them with TLC,
and theorems about them proved with TLAPS.

## 1. Inventory

| Component | State it keeps | Operations | Hard behaviours |
|---|---|---|---|
| Backfill (`engine/backfill.go`) | the run: watermark, URL, page, rebuild flag, page count; durable: `sync_state` | fresh / resumed / forced / refused start, page loop, 400 rebuild, `--max-pages` stop, completion | crash between the page transaction and the cursor; records changing while pages are read; equal timestamps across pages; a service that rejects deep offsets |
| Incremental sync (`engine/sync.go`) | the run; durable: `sync_state`; the daemon's health | gate, page loop, hard delete of revoked records, daemon loop with backoff, health | the boundary timestamp; a revocation older than the watermark; a second process; a failing resource; a timeout taken for a cancellation |
| Reconcile (`engine/reconcile.go`) | swept key set, purge and re-fetch lists | sweep, diff, chunked purge, chunked re-fetch, stamp | the store and the feed change during the sweep; partial failure; the stamp rewrites the cursor row; another profile's rows |
| Store (`store/postgres`) | rows, children, `media`, `sync_state`, `rate_budget` | one transaction per call | several writers |
| Change capture (`upsert.go`, `fieldmap.go`, `mlsgrid/record.go`, `fieldscope`) | `listing_event` | compare a page with the rows that were there, log, replace row and children; delete and log | events read from a row that another transaction replaces; a page written twice; fields absent, null, renamed or not requested |
| Rate limiter (`ratelimit/limiter.go`) | four windows, consecutive 429s, circuit | `Wait`, `RecordResponse`, `Snapshot`, `Restore` | concurrent waiters; window roll-over; restore in a live process |
| Pager and client (`mlsgrid`) | one request | attempts, backoff, `Retry-After` | retries against the limiter and the breaker |
| Media downloader (`media`, `store/postgres/media.go`) | queue rows, worker pool, files | claim a page, download, store, mark, fail, retry | crash between file and row; deletion of the listing meanwhile; failure budget |
| Migrations (`store/postgres/migrate.go`) | `schema_migrations`, the advisory lock | advisory lock, one transaction per migration | several processes and builds; death between two statements; a session that outlives its process |
| Command line (`cli/commands.go`) | one job per process | loops over the resources of a profile; the daemon under systemd | the first error ends the loop; commands beside a daemon |
| Configuration, test clock, deployment files | none | pure data | |

The engines call the pager (which waits on the limiter) for a page, then the
store for the page's transaction, then the store for the cursor. They share
nothing in memory: the only state two runs share is the database, and nothing
in the code locks it for the length of a run. So every call that leaves the
process is a step of the models, and anything may happen between two steps.

Properties that make each component correct:

- *Backfill and sync*: nothing licensed falls behind the watermark unstored
  (which `$skip` links do not grant; what they cost is stated exactly);
  whatever a crash leaves, some command goes on; the cursor row is always one a
  later command can start from, and moves only as the abstract cursor allows;
  revoked records are deleted; the import gets past a service's depth limit.
- *Reconcile*: deletes only what the feed no longer licenses, leaves nothing
  whose license had ended, and keeps the cursor.
- *Together*: once the feed rests, the store equals the licensed feed.
- *Change capture*: the events alone give the store back, are linked, and a
  page written again adds none (but for null prices); children are replaced by
  what a record lists, and survive one that does not list them.
- *Rate limiter*: no window's limit is exceeded, and over restarts by no more
  than what was not persisted; an open circuit stays open.
- *Media*: a downloaded row has its file and the other way round; each item is
  tried at most its budget of times per queueing.
- *Migrations*: they are applied in order, whoever applies them and wherever he
  dies; nobody fails because of another.
- *Commands*: success is reported only when everything was done; the health
  endpoint tells the last outcome; the daemon keeps serving.

## 2. Modules

| Module | Models | State | Actions |
|---|---|---|---|
| `Feed` | the MLS Grid service, external: modelled from what `mlsgrid/urls.go`, `client.go`, `record.go` and the engines ask of it; its next links are `$skip` offsets | `feed` (a record per key: timestamp, MlgCanView, still returned), `now` | `Modify`, `Revoke`, `Expire` |
| `Engine` | what the three engines share: the store (`rows`, `syncState`), the local variables of a run (`run[p]`), page handling, failure | | `FetchPage`, `UpsertPage`, `DeletePage`, `Abort` (building blocks) |
| `Backfill` | `Backfill.Run` | | `BackfillStart`, `-Cap`, `-Fetch`, `-Reject`, `-Upsert`, `-Delete`, `-Persist`, `-Complete` |
| `Sync` | `Sync.runResource` | | `SyncStart`, `-Fetch`, `-Reject`, `-Upsert`, `-Delete`, `-Persist` |
| `Reconcile` | `Reconcile.runResource`, `sweep`, `chunks` | | `ReconcileStart`, `-Sweep`, `-Diff`, `-Purge`, `-Pick`, `-Fetch`, `-Upsert`, `-Delete`, `-Advance`, `-Stamp` |
| `Replication` | the composition, the properties, fairness | | `Next` |
| `Offsets` | `Replication` with the account of what the offsets of the links cost, and the properties that need it | the history variable `slid` | (as `Replication`) |
| `CursorLifecycle` | abstract: what the `sync_state` row promises, a phase and a watermark | `phase`, `wm` | `Restart`, `Continue`, `Finish`, `Follow` |
| `Outcomes` | how a run may leave its `sync_state` row | (operators) | |
| `RunSummary` | abstract: a run over one resource as one step | `op`, `phase`, `stamp`, `faults` | `Starts`, `Succeeds`, `Fails`, `GoesOn` |
| `DeepPaging` | `Replication` against a service that rejects a `$skip` above `MaxSkip` | (as `Replication`) | `HitsWall`, and `Replication`'s below the limit |
| `FieldMap` | `mlsgrid.Record`'s accessors, aliases, the field map, the scopes | (operators on a record) | |
| `ChangeCapture` | the page transaction and the delete transaction of `upsert.go` | `scope`, `feed`, `now`, `rows`, `log`, `writer` | `Edit`, `Fetch`, `Purge`, `Begin`, `Execute`, `Commit`, `Delete`, `Rollback` |
| `RateLimiter` | `ratelimit/limiter.go` | (operators on the state of a limiter) | |
| `RateBudget` | processes that send requests through a limiter each and share `rate_budget`: `engine/resource.go`, `Pager.Fetch`, the request side of `Downloader.Run` | `limit`, `proc`, `work`, `stored`, the server's account `served`, `hour`, the history variable `hidden` | `Launch`, `StartRun`, `Take`, `Admit`, `Refuse`, `Cancelled`, `Send`, `Respond`, `Lose`, `JudgePage`, `JudgeFile`, `EndBatch`, `Crash`, `Interrupt`, `Tick` |
| `MediaPipeline` | the media rows of a listing, its files, `media download`, `media retry`, upsert and deletion of the listing | `rows`, `files`, `feeder`, `pass`, `job` | `Upsert`, `DeleteCollect`, `-Rows`, `-File`, `-Done`, `FeederFails`, `Requeue`, `RunStart`, `Claim`, `Assign`, `StoreFile`, `MarkDownloaded`, `MarkFailed`, `Systemic`, `Abandon`, `RunEnd`, `DownloadCrash` |
| `Migrate` | `Store.Migrate` in processes of several builds | `lock`, `applied` (the ledger), `objects` (what is there), `mig` | `InitDB`, `AcquireLock`, `ReadApplied`, `MigrateOne`, `Migrated`, `StatementFails`, `Unlock`, `Dies`, `SessionEnds` |
| `Commands` | `backfill`, `sync`, `reconcile`, `sync --daemon` with its health, over the resources of a profile; systemd | `ready`, `cursor`, `held`, `age`, `job`, `last`, `health` | `InitDB`, `Tick`, `RepeatBackfill`, `FancyBackfill`, `BackfillResource`, `-Refused`, `-Fails`, `StartCommand`, `StartDaemon`, `Restart`, `SyncResource`, `-Fails`, `ReconcileResource`, `-Fails`, `Wake`, `Cancel` |
| `MCReplication`, `MCDeepPaging`, `MCChangeCapture`, `MCRateBudget`, `MCMediaPipeline`, `MCMigrate`, `MCCommands` | instances for TLC | | |
| `ReplicationProofs`, `NoGapProofs` | theorems about `Replication`, the second about `Offsets` and `DeepPaging` | | |
| `BudgetProofs`, `MediaProofs`, `MigrateProofs`, `CommandsProofs`, `CaptureProofs` | theorems about `RateBudget`, `MediaPipeline`, `Migrate`, `Commands`, `ChangeCapture` | | |
| `Greatest` | lemmas: a nonempty set of naturals has a least element, and below a bound a greatest one | | |

`Backfill`, `Sync` and `Reconcile` extend `Engine`, which extends `Feed`;
`Replication` composes them and instantiates `CursorLifecycle` and `RunSummary`;
`Offsets` and `DeepPaging` extend `Replication`. `ChangeCapture` extends `FieldMap`, `RateBudget`
extends `RateLimiter`. `Commands` takes a whole run of an engine over one
resource, which `Replication` takes step by step, as one step, so that several
resources, several profiles and the daemon fit into a model. How such a step
may leave the cursor is written once, in `Outcomes`: `Commands` uses it, and
`Replication` is shown to implement it through `RunSummary`.

How the state corresponds to the code:

- `rows[k]` is `modification_timestamp` of the stored record, 0 when there is
  no row. The version of a record is its timestamp, so "current version stored"
  is `rows[k] = feed[k].ts`. The other columns follow from the record (that is
  what `ChangeCapture` is about).
- `syncState` is the `sync_state` row. NULL is 0 or `NoURL`. A missing row
  reads as four NULLs, which every reader treats alike.
- `run[p]` holds the locals of the running command: `st` is the row as it was
  read at the start (the code writes the other columns back from it), `wm` the
  `watermark` variable, `url`, `page` and `next` the loop's variables, `rebuilt`
  the `rebuiltAfter400` flag, `remote`, `purge` and `refetch` those of a reconcile.
- A URL is the query it denotes plus an offset: the repository's fixtures
  (`property_page1.json:83`), tests and comments (`backfill.go:98-99`) show next
  links with `$skip`. The result is computed again when a link is followed. So a
  record that is modified moves to its end, one that is revoked or expires
  leaves it, and those behind it move up: an unread record may slide past the
  offset of the link in hand, or of the resume link. `Offsets!slid` collects
  these records, in the version that slid, and those that lose their place on a page
  to a revoked record the filter let through; a record leaves it when it
  changes, or when a run ends with the record right in the store.
- `Abort` is an error returned to the caller, a cancelled context or a crash:
  in each the run ends where it stands, with what it had committed.
- The abstract cursor (`Replication!Lifecycle`) is `complete` when
  `backfill_completed_at` is set, `importing` when a resume link is, `unfinished`
  otherwise; its watermark is the row's. `Replication!Summary` sees the row as it
  was when the run under way began, and as it is between two runs.
- In `ChangeCapture` a record maps the fields it carries to JSON values, so
  that an absent field, a null, an empty string and a value of another type
  differ as they do for the accessors. A row is the columns extracted, the raw
  fields kept and the keys of the children. `Begin` is the read of the prior
  rows, `Execute` the statements of one item (which lock its row), `Commit`
  the end. A scope is the fields of the model it matches; `Response` is what the
  service answers to its `$select` and `$expand`.
- In `RateBudget` time is the UTC hour: windows begin and end with it. What a
  worker does between two holds of the limiter's mutex is one step: it is
  counted (`Admit`), sleeps for the requests-per-second delay, sends (`Send`),
  and records the answer (`Respond`). `served` counts what reaches the server,
  account the limits are about. Backoff sleeps are just time between steps.
  `hidden` bounds what was sent in the current hour and day and never reached
  the table: a batch or a page (`AtRisk`) for each run cut off before its
  snapshot and each snapshot that failed, the limits once more for a start that
  could not read the table.
- In `MediaPipeline` a media key is its place in the key order, a file is
  stored in one step (the disk sink renames a complete file), and a row's path
  is only whether it has one: the path follows from the key. (The extension
  follows from the content type; an image that changes type between two
  attempts is not modelled.) An `items` member is the row as it was claimed,
  with a failure count that may be stale when it is used. `tried` of a pass is
  history: the rows its workers have started on.
- In `Migrate` a migration is a version and a checksum, `applied` the rows of
  `schema_migrations`, `objects` what the SQL made. The advisory lock belongs
  to a session: `Dies` leaves it behind with the lock, and with the transaction
  that was sent, until `SessionEnds`.
- In `Commands` `cursor[f][r]` is what the `sync_state` row says (`unfinished`
  is a row with neither a link nor an end), `held[f][r]` whether the table has
  rows of the profile, `age[f][r]` the time since the last reconcile, up to the
  point where one is due; `health[u]` keeps only the order of the endpoint's
  two instants.

Assumptions about the feed: results come in timestamp order, a change gets a
timestamp later than all that were visible, records carry a key and a
timestamp. `Lags` lets a `MlgCanView eq true` filter deliver revoked records,
the case backfill.go's comment describes.

## 3. What the runs check

Each run of `PROJECT.json` asks one question. Deadlock is not checked where the
bounds end the changes (`MaxTime`, `MaxHour`, `MaxChanges`, `MaxEvents`) or
where commands are run by an operator: there the system may rest. `Operation`
checks it.

| Run | Configuration | Checks | Shows |
|---|---|---|---|
| `single` | `Single.cfg` | `TypeOK`, `CursorWellFormed`, `NoGap`, `RevokedGone`, `ResumeLosesNothing`, `PurgesOnlyWithdrawn`, `CursorFollowsLifecycle` | one command at a time, in any order, one failure or 400 anywhere, a changing feed with `$skip` links: nothing is lost, kept or purged wrongly but what slid past an offset; the cursor refines `CursorLifecycle` |
| `converge` | `Converge.cfg` | `CutImportGoesOn`, `ReconcileClean`, `RunsAreSummarized`, `Converges` | imports cut by `--max-pages` go on without `--force`; a finished purge left nothing unlicensed; every run refines `RunSummary`; the store ends up equal to the licensed feed, whatever failed before, but for records that slid past an offset and are not stored |
| `deep` | `Deep.cfg` | `WholeFeedImported`, `ImportPassesWall` | a feed larger than what one query may page through is imported whole, query after query |
| `budget` | `Budget.cfg` | `BudgetTypeOK`, `WindowsHonoured`, `SuspensionRespected`, `ServerHonoured` | a feed process or a download with two workers at a time, with retries, interruptions, crashes, restores into a live process and a table that cannot be reached: the windows hold, an open circuit is not hammered, the server sees no more than the limits and what a failure hid |
| `media` | `Media.cfg` | `MediaTypeOK`, `DownloadedHasFile`, `BudgetKept`, `OncePerPass`, `DownloadedForGood`, `QueueDrains` | one download, run again and again, beside a feed process that upserts and deletes the listing |
| `capture` | `Capture.cfg` | `CaptureTypeOK`, `LogReplays`, `HistoryLinked`, `ColumnsComplete`, `ChildrenCurrent`, `ReplaySilent`, `ChildrenSurvive` | pages, purges and rollbacks over records that lack, null, rename or mistype fields, under two scopes: the events give the store back, link up, and repeat for null prices only; children are replaced, or survive |
| `migrate` | `Migrate.cfg` | `MigrateTypeOK`, `InitNeverFails`, `InitDelivers`, `MigratesInOrder`, `InitEnds` | two `init-db` of three builds, failing statements, dead processes whose sessions live on: migrations are applied in order, under the lock |
| `operation` | `Operation.cfg` | `CommandsTypeOK`, `HealthTellsOutcome`, `BackfillTellsTruth`, `DaemonServes` | a daemon under systemd beside an operator, two resources, every kind of failure |
| `revoked_behind` | `RevokedBehind.cfg` | `NoRevokedBehindCursor`: violated | a revocation during the import is never seen by sync |
| `two_profiles` | `TwoProfiles.cfg` | `ProfilesApart`: violated | a reconcile of one profile deletes the rows of the others |
| `quiet_exit` | `QuietExit.cfg` | `NoQuietEnd`: violated | a request that times out ends the daemon with status 0 |
| `missed_record` | `Missed.cfg` | `EverythingBeforeStored`: violated | an unread record slides past the offset of a link while an import runs, and falls behind the watermark |

The four violations are disagreements between the code and what its comments
and documents say; `PROJECT.json` quotes the lines. A revoked record stored
behind the watermark is repaired by the next complete reconcile. A record that
`missed_record` leaves out is stored when it is modified again, or by a
reconcile with `--include-missing`; until then nothing reports it but the count
of missing records of a reconcile. Rows that
`two_profiles` deletes come back when they are modified, or by a reconcile of
their own profile with `--include-missing`. After `quiet_exit` systemd does not
restart the unit.

### More configurations

The properties above hold under hypotheses. The following configurations, which
are not runs of `PROJECT.json`, show what happens without them.

| Configuration | Module | What TLC finds |
|---|---|---|
| `TwoPurge.cfg` | `MCReplication` | `PurgesOnlyWithdrawn` fails: a reconcile beside a sync or a backfill purges a licensed record that came after its sweep |
| `Stranded.cfg` | `MCReplication` | `Recoverable` fails: a first import that fails between its first page and its first checkpoint leaves rows and no cursor, and goes on only with `--force` |
| `SameStamp.cfg` | `MCDeepPaging` | `ImportPassesWall` fails when as many records as a query returns share a timestamp: the import reads the same pages for ever |
| `NullPrice.cfg` | `MCChangeCapture` | `ReplayHarmless` (`ReplaySilent` without its exception) fails when `ListPrice` is null: the comparison reads it as 0 (`record.go:70-80`), the column holds NULL, so every replay logs a price change (`schema-contract.md:233` calls replays harmless) |
| `TwoWriters.cfg` | `MCChangeCapture` | `VersionsAdvance` fails: with two writers the page fetched first may be written last, and an old version replaces a new one; `LogReplays` and `HistoryLinked`, put in its place, fail too |
| `ResumeBlocked.cfg` | `MCCommands` | `ResumeReached` fails: with the first resource complete and the second interrupted, `backfill` is refused at the first and never reaches the resume cursor (`commands.go:196`) |
| `SharedBudget.cfg` | `MCRateBudget` | `NothingLaundered` (`ServerHonoured` without what is `hidden`) fails: a download beside a feed process, each counts only its own requests and overwrites the persisted count of the other |
| `LiveRestore.cfg` | `MCRateBudget` | `NothingLaundered` (`ServerHonoured` without what is `hidden`) fails: the restore at the start of every pass of a live daemon forgets what a failed pass did not persist (`resource.go:90`) |
| `CrashLoop.cfg` | `MCRateBudget` | `NothingLaundered` (`ServerHonoured` without what is `hidden`) fails: a download that crashes within its batch spends the budget again |
| `MediaOrphan.cfg` | `MCMediaPipeline` | `NoOrphans` fails: a listing deleted while its image is in flight leaves a file |
| `MediaTwoDownloads.cfg` | `MCMediaPipeline` | `DownloadedForGood` fails: the failure of one download requeues what another has downloaded (`media.go:57`) |
| `MediaTwoParked.cfg` | `MCMediaPipeline` | `BudgetKept` fails: two downloads judge the last attempt by the counts they claimed |

### Bounds

*Replication.* Two records with pages of one, so that every query has a page boundary,
records on both sides of it, and equal timestamps across it (`MaxBatch` 2).
`MaxTime` 3 allows two changes of the feed after the start, enough for a record
to be edited or revoked and another to push the watermark over it. One fault
(a 400 or a failed run) suffices for every single-failure scenario. The same
invariants were also checked with three records and with `MaxTime` 4. With
`ChunkSize` and `PurgeChunk` 1 the chunked loops run more than once.
`RevokedBehind.cfg` takes three records: the link that is followed after a revocation
must still have one to deliver. `TwoPurge.cfg` uses both processes as a symmetry
set (no definition tells them apart). `ReconcileClean` needs `Slips` FALSE:
if the filter of the sweep lets a revoked record through, the sweep counts it
as remote, as the code does.

*Deep paging.* Four records in pages of one, queries cut after three
(`MaxSkip` 2), at most two records under one timestamp (`Crowd`): every import
hits the limit at least once, and the next query begins among records that
share the timestamp it begins at. `MaxTime` 3 lets the feed change once.
`WholeFeedImported` speaks of a feed at rest: with `$skip` links a changing one
may lose records (`Missed.cfg`).

*Budgets.* `budget` takes limits of one request an hour and two a day and one
unit of bytes, so that each window is exhausted, in either order, a circuit that
opens at two 429s, and a clock that crosses a day. A feed process and a download
with two workers and batches of two follow each other (`OneAtATime`), each may
be launched or start a run again in the window it has filled, and one fault of
any kind hits one of them. `MaxServed` 4 admits more requests in an hour than
`ServerHonoured` does without a fault, so that the bound is really met. The
excess it allows (`Pool`) is what the delay between being counted and being sent
can carry over the end of a window.

*Media.* Three images, two workers, batches of two and three rows a
pass (`--max-files 3`, so that a pass claims twice) and two attempts
per image, three changes of the listing and one crash: enough for a row to be
claimed, deleted, entered again and claimed again while its first download is
on its way.

*Change capture.* Two listings, so that a page holds a stored and a new
listing, or a revoked and a licensed one; six records chosen so that each
field `classifyEvents` and `extractValue` look at is present, absent, renamed,
null (the price, too) and of another type; `MaxTime` 3, so that a listing is entered, changed and
withdrawn; `MaxEvents` 6 ends the log. The narrowest and the widest scope: the
two between differ from them only in the raw columns kept.

*Migrations.* Two processes, three builds (a release, its successor, and one
whose first file was edited), two faults: a holder of the lock may die, and the
one after it too.

*Commands.* One daemon and one operator, two resources, a reconcile due after
one tick, two faults (failures, signals, needless `--force` or `--max-pages`):
one may break the import and one the pass after it.

### Fairness

`Replication!Fairness`, and `DeepFairness` likewise: a run that started takes
its next step (weak fairness of `Step`: the process runs, requests end). `sync` and `reconcile` are
started again and again (strong fairness, since a running command disables
them): `RunDaemon` starts a pass every interval and a reconcile when one is due.
While no import is complete, `backfill` is repeated, forced when it is refused:
that is the operator, and it is what the refusal messages ask for. Nothing is
assumed of the feed, and failures are bounded.

`MediaPipeline!MediaFairness`: a running download takes its next step, and
`media download` is run again after it ends (a timer or the operator). Whether
a request succeeds is left open; changes and crashes are bounded.

`Migrate!MigrateFairness`: a process takes its next step, the server ends dead
sessions (weak), and grants the advisory lock to the waiting ones in turn
(strong fairness of `AcquireLock`: Postgres queues lock requests).

`Commands!CommandsFairness`: processes run on, `init-db` is run, the unit is
started, and restarted after a failure (`Restart=on-failure`; an operator where the
start limit is reached), and the operator repeats `backfill` while the import
is incomplete (strong: the operator's other commands disable it).

## 4. What is proved

For every value of the constants that the assumptions below allow:

- `ReplicationProofs!TypeCorrect`: `Spec => []TypeOK`.
- `ReplicationProofs!CursorAlwaysWellFormed`: `Spec => []CursorWellFormed`, for
  any set of processes. The invariant is not inductive: `sync` and `reconcile`
  write back `backfill_completed_at` as they read it. `CursorInv` adds that a
  running `sync` or `reconcile` holds a well-formed `st` that was complete, a
  running sync a non-NULL watermark, and a backfill in its `complete` step a
  start time, which makes the fallback watermark non-NULL.
- `ReplicationProofs!CursorImplementsLifecycle`: with one process,
  `Spec => Lifecycle!LifecycleSpec` (the refinement; the watermark of a complete
  import never falls back is part of it). `LifeInv` says what
  a run knows of the row it is going to write: a sync or reconcile that the row
  is as it was read, a backfill that its watermark is not behind the row's. It
  holds because nobody else writes the row meanwhile.
- `ReplicationProofs!CutImportsGoOn`: with one process, imports that nothing but
  `--max-pages` cuts go on without `--force`. `ReconcileLeavesClean`: with one
  process and `~Slips`. `CleanInv`: all the pass asks for is viewable, what it
  swept or holds was licensed when it began or has changed since, and from the
  diff on so is every row it is not about to purge.
- `ReplicationProofs!RunsImplementSummary`: with one process,
  `Spec => Summary!SummarySpec` (the second refinement). `SummaryInv` says that
  at any point of a backfill the row is as a failure there may leave it, and
  that the stamp of the last reconcile is the one the run read. With `LifeInv`
  it follows that the cap of `--max-pages` finds a resume link saved, and that a
  sync or reconcile ends, well or not, in a complete import.
- `NoGapProofs!NoGapSingleProcess` and `ResumeSingleProcess`: with one process,
  `OffsetSpec => []NoGap` and `OffsetSpec => []ResumeLosesNothing`, for `$skip`
  links, every feed and every failure. (`TwoPurge.cfg` shows why one process.)
  The inductive invariant `GapInv` says where everything is that is not stored: at
  or after the offset of the URL the run fetches next (`Ahead`), on the page in
  hand, in `slid`, or, for a reconcile, neither swept nor purgeable; that every link asks
  at or before the watermark it belongs to (`Reaches`), and that no watermark
  is ahead of the clock (`Bounded`). A change of the feed changes the ranks of
  the records of every query in use; `FeedSlides` says that what was ahead of a
  link and is not any more is in `slid` then, and the lemmas on ranks, that a
  page read moves the offset by no more than the records it holds.
- `NoGapProofs!RevokedRecordsGo`: with one process and `Since <= InitTime`,
  `OffsetSpec => []RevokedGone`. `RevokedInv` follows a revoked record that is
  still stored: during a sync it lies ahead of the link, on the page in hand,
  beyond the watermark to be written, or has slid; no other run stores one
  it knows to be revoked. A `--since` in the future, with
  `--include-missing`, would let a reconcile store what sync then passes.
- `NoGapProofs!PurgesSpareTheLicensed`: with one process,
  `OffsetSpec => PurgesOnlyWithdrawn`. Call a row current that holds a licensed
  record as it stands and has not slid. `PurgingRun` says that a pass has swept every current row
  or has it still ahead, and that no row it is about to purge is current. A
  change of the feed makes no row current, since it gives the record a later
  timestamp than any stored one (`PastInv`: nothing stored or in hand is later
  than the clock). `TwoPurge.cfg` shows that one process is needed.
- `NoGapProofs!WallLosesNothing`: `DeepSpec => []WholeFeedImported`, for any number of processes. `RestInv` speaks of
  the time before the feed first changes: what the import of a run has not
  stored is what remains of its query from the skip it asks for next
  (`Remaining`), or is on the page in hand; the place the resume link keeps is
  one such skip; and every row stored is the record as it stands. Other
  processes cannot disturb it, because while the feed rests nobody takes a row
  out of the store that the feed still shows.
- `CaptureProofs!CaptureTypeCorrect`: `CaptureSpec => []CaptureTypeOK`, for any
  writers and finitely many listings.
- `CaptureProofs!TheLogReplays` and `TheHistoryIsLinked`: with one writer and
  finitely many listings, what `listing_event` says of a listing, replayed, is
  the row that stands, and each event takes up where the one before it left
  off. `LivesInv` says it twice: of the log and rows as committed, and of the log
  with the events the open transaction holds against the rows it would leave
  (`LifeRun`). With two writers the second diffs against a row the first is
  about to replace (`TwoWriters.cfg`).
- `CaptureProofs!ColumnsAreComplete` and `ChildrenAreCurrent`: for any number of
  writers, whichever order their transactions take. `CaptureInv` says that a
  page in hand is what the feed delivered unless the listing has changed
  since (in which case its timestamp is older); `ResponseColumns` that a request
  under any scope yields the columns the whole record yields, and
  `ResponseViewable` that it shows a revocation.
- `CaptureProofs!ReplaysAreSilent`: with one writer and finitely many listings,
  whatever the records. `ReplayInv` says that the rows the page is
  compared with are the rows it will replace, and that the events gathered so
  far are price changes of null prices (`Repriced`); a record compared with the
  row it left shows no other change, because `classifyEvents` and the field map read
  everything else alike.
- `BudgetProofs!BudgetTypeCorrect`, `SuspensionIsRespected` and
  `WindowsAreHonoured`: for any set of feed processes and downloads, any number
  of workers and every value of the limits, faults of every kind included
  (`Abrupt` TRUE). `BudgetInv` is the inductive invariant. A response adds to
  what the limiter has counted after `Wait` has looked, so a bound on the
  counter must also count the requests in flight (`InFlight`): `SuspInv` says
  that once the circuit is open, refusals and requests in flight together stay
  below `Threshold` plus the workers, `BytesInv` the same of bytes. A restore
  may replace the counter by a larger one, which keeps `BytesInv` only because
  nothing is in flight between two runs (`QuietInv`), and because the table
  holds no more than a limiter could have counted.
- `BudgetProofs!ServerIsHonoured`: as long as processes come one after the other
  (`OneAtATime`, and there is one), `BudgetSpec => []ServerHonoured`: feed
  processes and downloads, crashes, failed reads and writes of the table,
  interruptions and restores into live processes included. `AccountInv` keeps the
  account (`HourKept`, `DayKept`): what the server has seen, with the requests
  admitted and not yet sent, is within what the table holds, what the process
  that is up may lose (`Risked`: at most the batch in hand, or the attempts the
  retries and 429s of a page can still cost), what is `hidden`, and the pool.
  Two processes at once are
  beyond any such bound: `SharedBudget.cfg`.
- `MediaProofs!MediaTypeCorrect` and `PassAttemptsOnce` for any processes; with
  one process that writes the listing and one download, `DownloadsHaveFiles`,
  `AttemptsBudgeted` and `DownloadsStay`, for every number
  of images, workers, batch sizes and failure budgets. `FilesInv` says that
  what a download is about is not downloaded yet and is attempted by one worker
  (`AttemptInv`), and that a deletion removes only files of rows that are gone
  and that nobody downloads (`DeleteInv`). `CountInv` says that the failure
  count a worker judges by, read when the row was claimed, is never behind the
  row's.
  `OrderInv` says that a pass has not started on what it has claimed, and that
  all it has started on lies at or before its cursor, from where it claims.
  `MediaTwoDownloads.cfg` and `MediaTwoParked.cfg` show that one download is
  needed.
- `MigrateProofs!MigrateTypeCorrect`, `InitAppliesInOrder`, `NoInitFails` and
  `InitKeepsPromise`: for any set of processes and builds. `MigrateInv` says
  that only the session that holds the lock is past waiting for it, that what
  it read is still in the tables but for what it added itself, and that what
  it has looked at is there; a dead session counts as a holder until the
  server ends it. `OrderInv` adds that what is left of a run is what comes last.
- `CommandsProofs!CommandsTypeCorrect` and `EndpointTellsOutcome` for any number
  of daemons, operators, profiles and resources: `HealthInv` ties the
  verdict of the endpoint to what the job records of the pass so far.
  `SuccessMeansImported` with one operator (`ImportInv`: the resources before
  the one at hand are complete): two operators, one with `--force`, undo each
  other's imports.

Assumptions: `FeedConstants`, `EngineConstants`, `DeepConstants`,
`CaptureConstants`, `LimiterConstants`, `BudgetConstants`, `MediaConstants`,
`MigrateConstants` and `CommandsConstants`, which TLC evaluates in the runs of
the modules that declare them. The proofs use no fact that is not proved or in
the standard theorem modules.

Every invariant and every action property of the passing runs but
`ChildrenSurvive` is stated by one of these theorems, under the hypotheses given.
Only model-checked are `ChildrenSurvive` and the liveness properties `Converges`, `ImportPassesWall`, `QueueDrains`, `InitEnds`
and `DaemonServes`: liveness under fairness is beyond the proof system.

Each property of a passing run has a mutant in `PROJECT.json`: a definition
replaced by a plausible bug (the operators whose comment begins with "Mutant"),
under which TLC finds the property violated.

## 5. Not modelled, and the plan

Not modelled, and why:

- log lines, counters and the `status` command: they change nothing;
- rendering of URLs, JSON decoding, time formats: data formatting, no control
  (what the accessors make of a null, an absent or a mistyped field is in
  `FieldMap`);
- custom scope and alias files and the glob matcher: a scope is the set of the
  fields it matches;
- configuration loading and flag parsing: pure data, whose values are the
  constants of the modules;
- the S3 protocol, paths and permissions of the sinks: a sink stores or removes
  a file in one step;
- the `open_house` table beyond its timestamps, the test clock, packaging.

What is left, in order:

1. The scopes' globs and the alias files as operators, checked against a
   reference definition over bounded names.
2. `RunSummary` with the rows a run leaves and, for `Commands`, with several
   resources: today the two share the outcomes of the cursor only.
