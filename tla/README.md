# DistriMax in TLA+

DistriMax is a Go service that mirrors MaxMind GeoLite databases: it downloads
builds, validates and stores them, publishes them to clients through an
authenticated HTTP API, keeps superseded versions for a while and then purges
them. This directory holds TLA+ models of its core logic, the TLC
configurations that check them, and TLAPS proofs of the main invariants.
`PROJECT.json` maps every definition to the source lines it models and lists
runs, mutants, hazards, findings and theorems.

## 1. Inventory

| component | state | operations | properties that make it correct |
|---|---|---|---|
| catalogue (`internal/db/products.go`) | table `product_versions` | publish, roll back, mark deleted, queries | at most one current version per product; a deadline exactly on superseded rows |
| sync engine (`internal/syncer`) | one mutex per product, locals of a call, `sync_runs` | `SyncProduct`: lock, read the current row, conditional download, validate, store, publish, notify, record | publications never regress; 304 is believed only when it is right; the product catches up with upstream |
| filesystem storage (`internal/storage/filesystem.go`) | files under `artifactRoot`, staging directories | store (stage, then rename), open, delete | a file at its final path is whole |
| cleanup (`internal/workers/cleanup.go`) | the list of expired versions it read | delete the file, mark the row; expired sessions, tokens, audit rows | the current version is never purged; what has expired goes |
| download handler (`internal/api/handlers_download.go`) | the row it read | look up, open, serve with an ETag | the body is the requested version, and the one the ETag names |
| manifest cache and handler (`internal/cache`, `handlers_manifest.go`) | cached manifests, 60 s TTL | get, set, invalidate on publication | no stale manifest after a publication; staleness ends |
| admin users, sessions, setup, recovery (`internal/ui`, `internal/db/users.go`, `handlers_recover.go`) | `users`, `sessions`, `setup_completed` | setup, login, logout, create, disable, enable, change password, recover | setup happens once; an active administrator remains; recovery ends a lock-out |
| client authentication and limiter (`internal/api/middleware.go`) | `api_keys`, `download_tokens`, a channel of slots | create, revoke, expire, authenticate, limit | slots are neither leaked nor doubled; a token opens only what it names; a revoked key opens nothing in the end |
| scheduler (`internal/workers/scheduler.go`) | one goroutine, three tickers that start with the process | runs cleanups, syncs and backups in turn | no ticker is starved; a process that stays up for a day catches up with upstream; what has expired goes, however short the process lives |
| storage manager, S3 (`internal/storage`, `ReloadStorage` in `internal/ui`) | the active driver, the S3 driver once registered, settings, objects of both drivers | save settings, register, switch, store, open with fallback, delete on both | callers see one store; rows name the place of their artifact; what is purged is gone |
| webhook (`internal/workers/webhook.go`) | a goroutine per delivery, `webhook_deliveries` | up to five attempts with backoff inside a context, one row at the end | every publication leaves a row, the row is true, a final answer is final |
| migrator, database handle (`internal/db`) | `schema_migrations`, the schema | verify, apply in a transaction, refuse | every script of the release is recorded and applied once while it serves; it comes up after starts that broke off |
| backup (`internal/workers/backup.go`, `VacuumInto`) | snapshot files named by the second | remove, VACUUM INTO, list, rotate | success means a snapshot; rotation keeps the newest |
| audit log, settings, crypto, configuration, pages | tables, files | see `PROJECT.json` | see section 8 |

How they interact. The scheduler's goroutine and HTTP requests call the same
`SyncProduct` and `RunCleanup`; they meet in the database, in the artifact
tree and in the per-product mutexes. After its transaction `SyncProduct` calls
`onPublish`, a closure of `main.go`, which invalidates the manifest cache and
starts a webhook goroutine. Handlers read a row first and use it later, when
the file or the cache may have changed. The admin UI writes the catalogue on a
rollback, without a lock and without the cache, and switches the storage driver
while syncs, cleanups and downloads use it. `main.go` runs the migrations first
and starts the scheduler before it restores the driver.

What is hard. Everything is concurrent; the database (one connection,
`SetMaxOpenConns(1)`) serializes single statements and transactions but not
sequences of them; file and row are two writes with a crash possible between
them; several errors are ignored on purpose; and time (deadline, TTL, token
expiry) passes between a check and a use. The list of hazards, with lines and
properties, is in `PROJECT.json`.

## 2. Modules

    Catalog               product_versions: queries and transactions as operators
      Distribution        sync, cleanup, rollback, download as processes
        DistributionInv   the inductive invariants
        Scheduling        composes Distribution with the scheduler's goroutine
                          and its tickers
        ManifestServing   composes Distribution with the cache and its readers
      StorageManager      two drivers, their switch, the calls; implements
                          ArtifactStore, the abstract store
        ArtifactPlacement composes it with sync, cleanup and download
    AdminAccess           users, sessions, setup, recovery
    ClientAccess          keys, tokens, limiter
    Webhook               deliveries, attempts, the receiver, the delivery rows
    Operations            migrations at a start, backups and their rotation

    MCDistribution, MCScheduling, MCManifest, MCAdmin, MCPlacement, MCWebhook,
    MCOperations
                          values for TLC
    CatalogProofs, DistributionProofs, ManifestProofs, AdminProofs,
    ClientProofs, PlacementProofs, WebhookProofs, OperationsProofs

**Catalog.** `rows[p]` is a function from versions to rows, which is what
`UNIQUE (product_id, version)` makes of the table. A build is a number (its
build epoch), and stands for its digest and for its release time; a version is
the UTC date of a build, so two builds of one day share a version, a path and a
row. The insert keeps the `released_at` of the row it conflicts with, as the
SQL does. Deadlines are `null`, `pending` or `passed`.

**Distribution.** Each call of `SyncProduct`, `RunCleanup` or the download
handler is a process; a step ends at each call that others can observe. The
actions follow the code: `SyncBegin` (TryLock), `SyncLoad`, `SyncNotModified` /
`SyncDownload`, `SyncValidate` (extraction and validation, then the staging file
is opened), `SyncStage`, `SyncCommit` (rename), `SyncPublish`, `SyncRecord`;
`SyncLoadFails` and `SyncFails` are the error paths without and with a record.
`CleanupList`, `CleanupDelete` (whose error is ignored), `CleanupMark`,
`CleanupMarkFails`, `CleanupEnd` are `RunCleanup`; `Rollback` is one transaction;
`DownloadLookup`, `DownloadOpen`, `DownloadDone` the handler. The environment
releases builds (`UpstreamRelease`), lets deadlines pass (`DeadlinePasses`) and
stops the process at any point (`Crash`), which keeps database and artifacts and
loses everything else. `SpecWithoutRollback` leaves out `Rollback`.

**Scheduling.** Extends Distribution, in which calls start at any time, with the
one goroutine of `Scheduler.Start`: `scheduler` says where it is and which products
`runScheduledSync` has yet to visit, `ticks` which channels hold a tick. It makes
one call at a time, first a cleanup, then what `HourPasses` and `DayPasses` have put
into the channels, and a tick that arrives while one waits is dropped. `NextProduct`
passes over a product that is disabled or whose mutex an administrator's sync
holds. `Restart` is `Crash` and starts the timers anew: a sync needs a day of uptime
(`scheduler.go:31,49`), a cleanup does not (line 39).

**ManifestServing.** Extends Distribution, all of whose steps it has, with `entries` (the cache), `reader`
(manifest requests) and `notifying` (syncs between the commit of a publication
and the callback). `Publish` is `SyncPublish` with the callback now due,
`OnPublish` invalidates, and `SyncRecord` has to wait for it. Two history
variables, `overtaken` and the reader's `crossed`, say that a fill came from a
row read before an invalidation; no guard reads them.

**AdminAccess.** One action per statement or transaction of a request. The
setup transaction relies, as the code does, on the primary key `admin-1` and on
the unique username. `Abort` stands for a failed statement, a disconnect or a
crash of the request; `RecoverEnableFails` for the ignored error.

**ClientAccess.** A download takes a slot, then authenticates; a key is looked
up, verified with Argon2 and admitted in separate steps. `Resolve` is the choice
of version in the handler. `Finish` is the deferred release.

**StorageManager.** `settings`, `manager` and `objects` are the table, the Go
struct and what the drivers hold. A storage path tells the driver that made it,
as `artifacts/p/v/f` and `p/v/f` do, so a driver never finds a path of the other.
`SaveBucket` and `SaveBackend` are `handleSettingsSave`; `ReloadStorage`,
`SetS3Storage` and `SetActiveDriver` the reload, in which a cancelled request
reads every setting as empty. A call takes its two backends once (`Begin`), then
asks one driver at a time: `StoreArtifact`, `OpenArtifact` and `OpenGet` (S3 needs
two requests), `DeleteArtifact`. `DriverFails` is an outage; an S3 request whose
answer is lost has taken effect and fails (`Answers`). `Restart` comes back with
the filesystem driver alone and main on its way to `ReloadStorage`.

**ArtifactStore** is what callers of `StorageBackend` may rely on: a map from
paths to contents, each call taking effect once between its start and its
answer. Under the mapping (`StoredNow`, `RequestOf`) a call belongs to the place
where its path is kept, seen when it starts: primary, secondary or unknown. The
store promises everything on the primary driver, all but the deletion on the
secondary one, and nothing where the driver is not registered. The mapping lets a
call take effect at the driver of its path: a deletion stays pending until that
driver has been asked, and an open that this driver denied is decided already.

**ArtifactPlacement** puts the catalogue of one product on top: `SyncStore`,
`SyncStoreStep` and `SyncPublish`; `CleanupList`, which reads the storage paths into
`todo`, `CleanupDelete` and `CleanupMark`, which work through them and never look at
the row again, also during the boot, as the scheduler's first pass does;
`DownloadOpen`; and `Rollback`. A sync may download the current build again. The
history variable `revived` holds the versions that came back (were stored again,
published again or rolled back to) when their deadline had passed: a cleanup may
have them on its list, and the properties say what they leave open for them.
`changes` counts stores and rollbacks for the bound `MaxChanges`, which is a
constant of the theorems like any other.

**Webhook.** One process per event, publication or test. Time is counted in
tenths of a second inside a delivery; an attempt takes nothing or all that the
client allows. `NewRequest` is refused when the saved `webhook_url`, which nobody
has validated (`ui.go:903-914`), does not parse. `Receive` is the receiver (external), `Lose` a lost request or
answer, `Attempted` the return of `client.Do` with the decision that follows,
`Wait` the select, `Delivered` and `GiveUp` the rows, whose INSERT uses the same
context and may fail.

**Operations.** `Boot`, `VerifyMigration`, `ApplyMigration`, `MigrationRefused` and
`Serve` are a start, `Install` a change of release while nothing runs, `Crash` an
end at any point. `CreateBackup`, `RemoveTarget`, `VacuumBegin`, `VacuumEnd`,
`VacuumFails`, `RotateList`, `RotateDelete` and `Return` are a backup; the single
connection admits one VACUUM at a time. That a failed VACUUM leaves what it has
written, and refuses a file that is not empty, is an assumption about SQLite.
`taken` is history: it tells that two calls chose the same name.

Definitions whose comment starts with "Mutant:" are not used by any
specification: they are plausible bugs, each of which makes TLC find the
property that `PROJECT.json` names with it violated.

## 3. Runs that pass

Sizes are distinct states; each ends within three minutes.

| configuration | states | instance | checks |
|---|---|---|---|
| DistributionSafety | 2.4M | 2 syncs, 2 cleanups, 1 download, builds of days 1, 1, 2, rollbacks | `TypeOK`, `Inv`, `AtMostOneCurrent`, `SupersededIsScheduled`, `ArtifactsAreWhole`, `ServedIsRequested`, `PublishNeverRegresses`, `SkipIsSound` |
| SchedulingLive | 34k | the scheduler with its sync and its cleanup, 2 days, rollbacks, restarts | `SchedulingTypeOK`, `TicksAreTaken`, `AgainFresh`, `ExpiredIsPurged` |
| ManifestNoRollback | 2.3M | 2 syncs, 2 cleanups, 2 manifest requests, days 1, 1, 2, no rollback | `CacheTypeOK`, `StaleOnlyWhenOvertaken`, `SupersededStaysBehind`, `CurrentIsKept` |
| ManifestLive | 109k | 1 sync, 1 download, 1 manifest request, 2 days, rollbacks | `ManifestConverges` |
| AdminLive | 14k | 2 requests, 2 users | `AdminTypeOK`, `SetupOnce`, `LockoutEnds` |
| ClientAccess | 882k | 2 requests, 1 key, 1 token, 2 versions, limit 1 | `ClientTypeOK`, `SlotsAreHeld`, `TokenScopeHolds`, `RevokedKeyDrains` |
| StoragePlacement | 709k | 1 sync, 1 cleanup, 1 download, 1 settings request, main's reload, days 1, 1, 2; at most three stores or rollbacks, and at most two of the four at a time | `PlacementTypeOK`, `RowsArePlaced`, `ServedIsPlaced`, `OnlyExpiredIsNotFound`, `ImplementsStore`, `LeftOnlyWhenNotActive` |
| WebhookDelivery | 5k | 1 event, of a publication or of a test | `WebhookTypeOK`, `LogIsTruthful`, `GivesUpLate`, `AnswerIsFinal`, `EveryPublicationIsLogged` |
| OperationsAll | 285k | 3 releases (the second adds two scripts, the third edits one), 2 backups at once, 3 seconds, 1 snapshot kept | `OperationsTypeOK`, `ServesVerified`, `SuccessIsASnapshot`, `KeepsTheNewest`, `ComesUp` |

What they show, in words: whatever interleaves, a product has at most one
current version, superseded rows and only they have a deadline, a file is whole,
a download gets a file of its version that is no older than its ETag, no sync
publishes something older than what is there, and a sync is skipped only when
the current version is upstream's. Without rollbacks the current version is
never purged, and the cache is stale only between a commit and its callback or
after one race. A process that again and again stays up for a day catches up with
upstream, the one goroutine starves none of its tickers, expired versions go even
when no process lives for an hour, staleness ends.
Setup commits once and recovery ends a lock-out. Slots are exact, tokens open
what they name, and a revoked key drains. Across switches of the driver, outages
and restarts the manager is one store, a row names the place of its artifact until
it expires, only versions that have expired, or came back after they had, are not
found while both drivers are registered, and a purge leaves an artifact behind
only after an error, when it was not on the active driver, or when the version
came back. A delivery row is true of the receiver, a delivery ends early only on a
rejection, and each publication leaves its row, unless no webhook is set, the
configured URL does not parse, the row cannot be written or the process stops.
While the service serves, each script of its release is recorded and applied once
(scripts of a newer one may be there too, after a downgrade); it comes up however
often starts break off, and rotation removes a snapshot only while enough newer
ones exist.

Why these bounds are enough for the cases of interest:

- Two syncs are the least that contend for a mutex, two cleanups the least that
  work from different lists. One product suffices because products share
  nothing but the cleanup's list; the proofs cover any number.
- Builds 1 and 2 share a day, so the file and the row of a published version are
  replaced; build 3 supersedes it, after which it expires and is purged while
  other lists are still being worked on.
- Two manifest requests are the least in which one fills what the other has
  found missing.
- A limit of 1 with two requests reaches the full limiter; two versions let a
  token be used for the wrong one. A token for another product is covered by the
  theorem `TokenScope`, for any number of products.
- One settings request changes bucket and backend in turn; two at once change the
  same two settings in another order, and the theorems on storage are for any
  number of them.
- Deliveries share nothing but the table, so one event suffices; all five attempts
  and both contexts are in reach (`MaxRetries`, `ClientTimeout` and `Deadline` are
  the code's own numbers).
- Two backups at once are the least that share a second or rotate from different
  lists; with one snapshot kept, three seconds make two rotations delete. Three
  releases give an upgrade by two scripts, a downgrade and an edited script.
- Three stores or rollbacks (`MaxChanges`) are enough to publish, supersede, expire
  and roll back while a cleanup, a download or a switch is under way. `TwoAtATime`, a
  state constraint of MCPlacement, takes no step from a state in which three of
  the sync, the cleanup, the download and the settings request are under way: each
  pair interleaves in every way, over any driver state that earlier ones left.
  The theorems on storage have neither bound.
- One product and one call of each kind are what the scheduler's goroutine has at a
  time; an administrator's sync of the product shows in Scheduling as a product
  passed over, and interleaves with it in DistributionSafety.
- Session tokens are random and never reused, so their number bounds the logins
  of a behaviour; when they are used up the other requests go on.
- `MaxBuild` bounds upstream's releases, `MaxSecond` the clock of Operations.
  Nothing else is capped, and no other run has a state constraint.

Symmetry is used only in runs that check invariants or action properties, over
sets whose elements are not told apart (calls, requests, users).

## 4. Runs that find a disagreement

Each checks one property that a document or a comment of the repository states.

1. `DistributionRollbackPurge`, `CurrentIsKept`: a cleanup lists an expired
   version, a rollback makes it current, the cleanup deletes it. The product is
   left with a current row that is marked deleted, so the API answers 404 until
   the next publication.
2. `AdminLastAdmin`, `ActiveAdminRemains`: two administrators are disabled by
   two requests at once.
3. `StorageReachable`, `CurrentIsReachable`: a version is published to S3, the
   driver is switched back to the filesystem, and the fallback still reads S3. The
   next start registers no S3 driver, because `ReloadStorage` does so only while
   `storage_backend` is `s3`: the current version answers 404.

What is positive about 1 and 3 is also checked and proved: without rollbacks the
current version is never purged; and while both drivers are registered only
versions that have expired, or that came back after they had, are not found.
Item 1 is why the second half of that is there: in ArtifactPlacement too a version
that a cleanup has listed can be rolled back to or published again, is then
current without a deadline, and loses its artifact and its row, whichever driver
is active. From then on the properties of StoragePlacement leave such a version
(`revived`) out.

More differences from what documents and comments say are visible in the models,
or were met on the way, without a run of their own:

- Syncs: the second build of a day is renamed over the first before the row
  changes, so that a download in between, or every one when the publication
  fails, gets new bytes under the old ETag (`syncer.go:145`; "Never overwrite an
  already published artifact.", `Plan/maxmind-geolite-distribution-server.md:103`).
  `ServedIsRequested` says what does hold. A 304 to `If-Modified-Since` uses the
  `released_at` that ON CONFLICT keeps from the first build of the day.
- Cache: a request that read the old row fills the cache after the invalidation
  (`handlers_manifest.go:73`). `StaleOnlyWhenOvertaken` says that this is the only
  way, `ManifestConverges` that the TTL ends it. `Rollback` leaves the cache alone
  ("Invalidate the affected product after rollback", same plan, line 365).
- Cleanup: `CleanupMark` follows a deletion that failed ("mark metadata deleted only
  after storage deletion succeeds", line 684), and the first pass after a start
  deletes nothing on S3, whose driver is not registered yet.
  `LeftOnlyWhenNotActive` says when an artifact is left. A change of `s3_bucket`
  orphans what the old bucket holds.
- Setup and recovery: `SetupCommit` does not look for users that `/recover` has made
  ("verify that `setup_completed` is false and no user exists", line 257); a login
  that verified the old password opens its session after the eviction.
- Audit: the API key is put into the context of a copy of the request, so that
  `api_key_id` is NULL in every row (`middleware.go:96`; line 546 lists "API-key ID,
  not the raw key.").
- Webhook: the row of a failure says five attempts also after a rejection at the
  first; a `statusCode` survives an attempt without answer; URL and secret are read
  in two statements; a crash loses the delivery; a test may end without a row; and
  `webhook_url` is saved as it was typed (`ui.go:903-914`), so that one which does not
  parse ends every delivery without a row (`webhook.go:66-69`), unlike any other
  failure.
- Scheduler: the daily sync waits for a tick of a timer that starts with the process
  (`scheduler.go:31,49`), so a service restarted more often than daily never syncs by
  itself. `AgainFresh` assumes the uptime (`StaysUp`).
- Backups: two of one second share a name, and the second removes the file of the
  first while both report success (without `Reused`, `SuccessIsASnapshot` is
  violated); what a failed VACUUM left counts in the rotation; manual snapshots
  push out daily ones ("Retains the last 7 daily backup snapshots",
  `Plan/architecture-blueprint.md:583`); "non-blocking" (`db.go:72`) is not what a
  single connection gives; both callers pass a nil S3 backend.

## 5. Fairness

- `Scheduling!SchedulingFairness`: an hour passes unless the process dies before, the
  goroutine keeps running (the HTTP client's timeout ends every download), and Go's
  `select` does not pass over a ready ticker for ever. A query, a deletion or a mark
  that keeps being reached does not fail, or meet a crash, every time, and a product
  that comes up again and again is, again and again, synced without an error. Days
  are not assumed to pass: `AgainFresh` has the uptime as its premise, `StaysUp`,
  that again and again the goroutine comes to a tick for the syncs.
  `ExpiredIsPurged` needs no uptime, since every start cleans up. Crashes,
  rollbacks and releases are not assumed to happen or to stop. `AgainFresh` is
  therefore recurrence, not stability: a rollback puts an older version in force
  until the next sync.
- `ManifestServing!CacheLiveSpec`: the clock advances, requests end.
- `AdminAccess!LiveSpec`: requests end, and a locked-out operator calls
  `/recover` until one call has gone through.
- `ClientAccess!LiveSpec`: handlers return, since `net/http` ends the request of
  a client that has gone.
- `Webhook!WebhookFairness`: a goroutine that can go on does; the client's timeout
  ends every request and the context every wait. The receiver need not answer.
- `Operations!OperationsFairness`: a supervisor starts the process again, and starts
  do not break off at the same script for ever (strong fairness per script and
  for `Serve`). Nothing is assumed of operators, backups or the clock.
- StorageManager and ArtifactPlacement state no fairness: their properties are
  safety properties.

## 6. Proofs

All are checked by TLAPS for every value of the constants. The assumptions are
`MaxBuildAssumption` (at least one build), `BuildDateAssumption` (later builds
do not have earlier dates), `ProductsAssumption` and `NamesAssumption` ("none" is
not an identifier), `LimitAssumption` (the channel has a capacity) and
`RequestsAssumption` (finitely many requests at once), `SavesAssumption` and
`CallersAssumption` (the names of the callers; "main" is not a settings request),
`ScriptsAssumption` (versions are numbers, and each script has a digest),
`DigestsAssumption` ("none" is not a digest), `MaxSecondAssumption` and
`KeepAssumption` (some time passes, and at least one snapshot is kept), and
`ChangesAssumption` (the bound of ArtifactPlacement is a number). `ManagerImplements`
does not use `CallersAssumption`: it holds for any callers. `SchedulerAssumption`
names the calls of the scheduler, and no theorem uses it.

| theorem | module | states |
|---|---|---|
| `TypeCorrect` | DistributionProofs | `Spec => []TypeOK` |
| `ServiceInvariant` | DistributionProofs | `Spec => []Inv` |
| `CatalogIsSound`, `RetentionIsScheduled` | DistributionProofs | `Spec => []AtMostOneCurrent`, `Spec => []SupersededIsScheduled` |
| `StoredFilesAreWhole`, `DownloadsAreSound` | DistributionProofs | `Spec => []ArtifactsAreWhole`, `Spec => []ServedIsRequested` |
| `SkipsAreSound` | DistributionProofs | `Spec => SkipIsSound` |
| `PublicationIsMonotone` | DistributionProofs | `Spec => PublishNeverRegresses` |
| `SupersededIsForGood`, `CurrentIsNeverPurged` | DistributionProofs | `SpecWithoutRollback => []SupersededStaysBehind`, `... => []CurrentIsKept` |
| `CacheTypeCorrect` | ManifestProofs | `CacheSpec => []CacheTypeOK` |
| `OnlyTheRaceIsStale` | ManifestProofs | `CacheSpecWithoutRollback => []StaleOnlyWhenOvertaken` |
| `AdminTypes`, `SetupHappensOnce` | AdminProofs | `Spec => []AdminTypeOK`, `Spec => SetupOnce` |
| `ClientTypes`, `LimiterIsExact`, `TokenScope` | ClientProofs | `Spec => []ClientTypeOK`, `Spec => []SlotsAreHeld`, `Spec => []TokenScopeHolds` |
| `ManagerImplements` | PlacementProofs | `ManagerSpec => ImplementsStore` |
| `PlacementImplements` | PlacementProofs | `PlacementSpec => ImplementsStore` |
| `PlacementTypes`, `RowsPlaced`, `DownloadsPlaced`, `NotFoundIsExpired`, `LeftBehind` | PlacementProofs | `PlacementTypeOK`, `RowsArePlaced`, `ServedIsPlaced`, `OnlyExpiredIsNotFound`, `LeftOnlyWhenNotActive` |
| `EnoughTime`, `LogTruth`, `GivingUp`, `FinalAnswer` | WebhookProofs | `WebhookTypeOK /\ NeverCancelled`, `LogIsTruthful`, `GivesUpLate`, `AnswerIsFinal` |
| `OperationsTypes`, `ServerIsVerified`, `SnapshotsAreMigrated` | OperationsProofs | `OperationsSpec => []OperationsTypeOK`, `... => []ServesVerified`, `... => []SnapshotIsMigrated` |
| `SuccessIsTrue`, `RotationKeepsTheNewest` | OperationsProofs | `OperationsSpec => []SuccessIsASnapshot`, `OperationsSpec => KeepsTheNewest` |

**Distribution.** None of the properties is inductive. `TypeInv` adds to the
types that a running call has a product and, once it has downloaded, a build.
`Inv` adds
- `OneSyncPerProduct`: a running sync holds its product's mutex, so there is one;
- `CatalogOK`: one current row, deadlines where they belong, rows and files hold
  builds of their date, a file is never older than its row, and nothing is newer
  than upstream;
- `NewestInFlight`: a build between download and publication is at least as new
  as every row and file of its product. This is what the mutex is for: without it
  another sync could publish something newer in the meantime.

`CatalogProofs` states what each transaction does to `OneCurrent` and
`Scheduled`; `DistributionProofs` shows action by action that `Inv` is kept.

A download reads its row and opens its file in two steps. `DownloadsOK` says what
survives in between: the digest of that row only grows, so it is at least the
announced ETag, and by `CatalogOK` the file is at least as new as the row.
`SkipIsSound` is about the step that decides; it needs `OutcomeIsLast` (a sync has
no outcome before its last step) to know that the step is the 304 answer, and from
`CatalogOK` that the row the sync had read is of no newer build than upstream's.

**Retention.** `CurrentIsKept` does not follow from `Inv`, since a cleanup works
from a list read earlier. `SupersededStaysBehind` says that, without rollbacks,
a superseded version and every listed version is older than the current one, and
that a sync about to publish finds its file in place. It is kept because a
publication is at least as new as the current version (`NewestInFlight`) and
dates grow with builds, so current versions only move forward. A rollback
breaks exactly this, which is item 1 of section 4.

**Manifest cache.** Each step of ManifestServing is a step of Distribution or
leaves its variables alone (lemma `CacheIsTransparent`), so that what is proved of
Distribution can be used here. For
staleness `CacheInv` adds `CallbacksOK` (a callback is due only while its sync
is about to record its run) and `FillsOK`: a request between query and fill
that no invalidation has crossed, of a product with no callback due, holds what
is current. A cleanup cannot change what is current, by `SupersededStaysBehind`,
which is why the theorem, like the run, is about behaviours without rollbacks.

**Admin.** `setup_completed` holds exactly when the row `admin-1` exists; hence a
second transaction fails on the primary key whatever it checked before.

**Client.** A request that is idle holds no slot; with that, each action changes
the number of holders and the channel by the same amount, by the cardinality
theorems for adding and removing an element of a finite set.

`TokenScope` needs (`ScopeInv`) that a request its token has admitted is and stays
in the token's scope, from the middleware's check to the handler's choice of a
version, that the rows of tokens in use keep product and version, and that a
request on the key's way through the middleware is never one with a token.

**Storage.** `StorageInv` adds to the types how a call's `pc`, status, body and
backends go together (`CallOK`). With it each action of the manager is one action
of ArtifactStore or leaves the mapped variables alone, one lemma per action.
PlacementProofs then argues on the mapped variables only: `RowsOK` (rows come from
builds of their date), `StoredOK` (objects are of their date, and present until the
version expires, unless it is `revived`) and one conjunct per caller on what its
request is about. What a cleanup has on its list or is deleting is `Doomed`: overdue,
deleted or `revived`. A version enters the list overdue, and it can lose its
deadline only in a step that makes it `revived`; so no other version's artifact is
ever deleted, although the cleanup never looks at a row again.

**Webhook.** `DeliveryOK` relates attempts, time and row of one delivery. The core
is a budget: the time spent is at most ten seconds per attempt and the waits so
far (`Spent`), which five attempts bring to 51.5 of 120 seconds, so the context of a
publication never ends first; and the receiver got at most as many requests as
there were attempts, one fewer before the present one is sent.

**Operations.** `BootInv` ties the two halves of the migrator's transaction together:
a script is recorded exactly when it has taken effect, and the scripts a start has
behind it are recorded with the digests of its release. Once no script is left
this is `ServesVerified`, and, as backups run only while the process serves
(`CallsOK`), it is what a snapshot contains. For the rotation, `Enough(s)` says
that `Keep` names after `s` exist or were shared. `RotationOK` claims it of
every name on every list, however old. A deletion of `n` takes a name from the
count of each older `s`, and `Enough(s)` holds afterwards because the names after `n`,
which are `Keep` already, come after `s` too: the argument does not need lists to be
up to date, or deletions to succeed or to come in any order. `NamesOK` accounts for
names: whoever finds a file, or another call, under its name is the second to take it.
`CallKeeps` states once what a step of a call may do; each action is shown to be
such a step.

Not proved, only model-checked: all liveness (`AgainFresh`, `ExpiredIsPurged`,
`TicksAreTaken`, `ManifestConverges`, `LockoutEnds`, `RevokedKeyDrains`, `EveryPublicationIsLogged`,
`ComesUp`; out of the prover's reach), and `SchedulingTypeOK`, which says that the
goroutine makes one call at a time. Every other safety property of a passing run is
a theorem. `SnapshotIsMigrated` is proved and not a property of a run: it says
little, as `main.go` starts the scheduler after the migrations, but the induction
carries it.

## 7. Plan

Done: Catalog, Distribution, Scheduling, ManifestServing, AdminAccess, ClientAccess,
ArtifactStore, StorageManager, ArtifactPlacement, Webhook, Operations, their runs
and the theorems above. Left: a proof that
the staged file store of Distribution implements ArtifactStore, as StorageManager
does, so that both compositions rest on one contract.

## 8. What is not modelled

- Archive extraction and MMDB validation are functions of the downloaded bytes:
  a sync succeeds with the build or fails.
- Distribution has one artifact store with staging and rename, StorageManager two
  drivers with atomic operations; no module has both. The S3 service is external,
  and there is one bucket.
- Hashing, encryption, random tokens, configuration, proxy resolution, health
  checks and page rendering keep no state that the properties depend on.
- Range requests and 304 answers of the download handler change no state.
- Usage statistics (`last_used_at`, `download_count`) and audit rows are written and
  never read by the logic; the purge of old audit rows is one DELETE.
- Payload and signature of a webhook: the receiver's verdict stands for them.
- The upload of backups to S3, which no caller enables.
- `VerifyArtifact` and `CheckCapabilities` leave nothing behind.
- `geoipupdate` is an alternative downloader that nothing calls, and
  `InvalidateAll` of the cache has no caller.
- Table `products` is fixed: an update of its defaults changes only the retention
  period of later publications, and a deadline may pass at any time here.
