---------------------------- MODULE Distribution ----------------------------
(***************************************************************************)
(* From upstream to the clients' files: SyncProduct (internal/syncer)      *)
(* fetches, validates, stores and publishes builds, RunCleanup             *)
(* (internal/workers) purges expired versions, the admin UI rolls back,    *)
(* and the download handler (internal/api) serves artifacts.               *)
(*                                                                         *)
(* Each call of SyncProduct, RunCleanup or the download handler is a       *)
(* process with its own local state.  The scheduler's goroutine and every  *)
(* HTTP request can start one, so any number run at once; a step ends      *)
(* where the code makes a call that another process can observe.           *)
(***************************************************************************)
EXTENDS Catalog, FiniteSets

CONSTANTS Products,   \* the product ids
          Syncers,    \* concurrent calls of SyncProduct
          Cleaners,   \* concurrent calls of RunCleanup
          Clients     \* concurrent download requests

ASSUME ProductsAssumption == "none" \notin Products

VARIABLES
    upstream,    \* the build MaxMind offers for each product
    rows,        \* table product_versions
    artifacts,   \* content of artifactRoot/<product>/<version>/<filename>
    locks,       \* Syncer.locks: the products whose mutex is held
    sync,        \* local state of each SyncProduct call
    sync_runs,   \* status of the last row written to table sync_runs
    cleaner,     \* local state of each RunCleanup call
    client       \* local state of each download request

vars == <<upstream, rows, artifacts, locks, sync, sync_runs, cleaner, client>>
----------------------------------------------------------------------------
(* What a file may hold: a whole build, a prefix of one, or no file.       *)
Partial == MaxBuild + 1
Content == Builds \cup {NoBuild, Partial}

Statuses == {"none", "SUCCESS", "SKIPPED", "FAILED"}

IdleSync == [pc |-> "idle", product |-> "none", current |-> {}, build |-> NoBuild,
             staging |-> NoBuild, status |-> "none"]

SyncState ==
    [pc      : {"idle", "load", "download", "validate", "stage", "commit",
                "publish", "record"},
     product : Products \cup {"none"},
     current : SUBSET Versions,            \* currentVersion: empty for nil
     build   : Builds \cup {NoBuild},      \* the build in the response body
     staging : Content,                    \* the file in the staging directory
     status  : Statuses]                   \* what recordSyncRun will write

Listed == [product : Products, version : Versions, storage_path : {"", "stored"}]

CleanerState == [pc : {"idle", "scan", "mark"}, todo : SUBSET Listed, at : SUBSET Listed]
IdleCleaner  == [pc |-> "idle", todo |-> {}, at |-> {}]

ClientState ==
    [pc      : {"idle", "open", "served"},
     product : Products \cup {"none"},
     version : Versions \cup {0},
     etag    : Builds \cup {NoBuild},
     body    : Content]
IdleClient == [pc |-> "idle", product |-> "none", version |-> 0, etag |-> NoBuild,
               body |-> NoBuild]

TypeOK ==
    /\ upstream  \in [Products -> Builds]
    /\ rows      \in [Products -> Table]
    /\ artifacts \in [Products -> [Versions -> Content]]
    /\ locks     \in SUBSET Products
    /\ sync      \in [Syncers -> SyncState]
    /\ sync_runs \in [Products -> Statuses]
    /\ cleaner   \in [Cleaners -> CleanerState]
    /\ client    \in [Clients -> ClientState]

Init ==
    /\ upstream  = [p \in Products |-> 1]
    /\ rows      = [p \in Products |-> EmptyTable]
    /\ artifacts = [p \in Products |-> [v \in Versions |-> NoBuild]]
    /\ locks     = {}
    /\ sync      = [s \in Syncers |-> IdleSync]
    /\ sync_runs = [p \in Products |-> "none"]
    /\ cleaner   = [c \in Cleaners |-> IdleCleaner]
    /\ client    = [c \in Clients |-> IdleClient]
----------------------------------------------------------------------------
(* SyncProduct.                                                            *)

(* Mutant: the lock is not respected.                                      *)
SyncBeginUnlocked(s, p) ==
    /\ sync[s].pc = "idle"
    /\ locks' = locks \cup {p}
    /\ sync' = [sync EXCEPT ![s].pc = "load", ![s].product = p]
    /\ UNCHANGED <<upstream, rows, artifacts, sync_runs, cleaner, client>>

(* TryLock; a call that loses returns an error and changes nothing.        *)
SyncBegin(s, p) ==
    /\ sync[s].pc = "idle"
    /\ p \notin locks
    /\ locks' = locks \cup {p}
    /\ sync' = [sync EXCEPT ![s].pc = "load", ![s].product = p]
    /\ UNCHANGED <<upstream, rows, artifacts, sync_runs, cleaner, client>>

(* The product is unknown or disabled, or the credentials are missing: the *)
(* call returns before it records anything, and the deferred Unlock runs.  *)
SyncLoadFails(s) ==
    /\ sync[s].pc = "load"
    /\ locks' = locks \ {sync[s].product}
    /\ sync' = [sync EXCEPT ![s] = IdleSync]
    /\ UNCHANGED <<upstream, rows, artifacts, sync_runs, cleaner, client>>

(* The row whose released_at becomes If-Modified-Since; nil when there is  *)
(* no current version or the query fails.                                  *)
SyncLoad(s) ==
    /\ sync[s].pc = "load"
    /\ \/ \E v \in GetCurrentVersion(rows[sync[s].product]) :
             sync' = [sync EXCEPT ![s].pc = "download", ![s].current = {v}]
       \/ sync' = [sync EXCEPT ![s].pc = "download", ![s].current = {}]
    /\ UNCHANGED <<upstream, rows, artifacts, locks, sync_runs, cleaner, client>>

Fail(s, pc) ==
    /\ sync[s].pc = pc
    /\ sync' = [sync EXCEPT ![s].pc = "record", ![s].status = "FAILED",
                            ![s].staging = NoBuild]
    /\ UNCHANGED <<upstream, rows, artifacts, locks, sync_runs, cleaner, client>>

(* An error at a later step is recorded; a staging directory is removed by *)
(* StoreArtifact's deferred RemoveAll.                                     *)
SyncFails(s) ==
    \E pc \in {"download", "validate", "stage", "commit", "publish"} : Fail(s, pc)

(* Mutant: the newest retained version instead of the current one.         *)
NewestReleasedAt(s) ==
    {rows[sync[s].product][v].released_at : v \in Versions}

IfModifiedSince(s) == {rows[sync[s].product][v].released_at : v \in sync[s].current}

(* Mutant: a status the table does not know.                               *)
SyncNotModifiedUnknown(s) ==
    /\ sync[s].pc = "download"
    /\ \E ims \in IfModifiedSince(s) : ims >= upstream[sync[s].product]
    /\ sync' = [sync EXCEPT ![s].pc = "record", ![s].status = "NOT_MODIFIED"]
    /\ UNCHANGED <<upstream, rows, artifacts, locks, sync_runs, cleaner, client>>

(* 304: upstream has nothing newer than If-Modified-Since.                 *)
SyncNotModified(s) ==
    /\ sync[s].pc = "download"
    /\ \E ims \in IfModifiedSince(s) : ims >= upstream[sync[s].product]
    /\ sync' = [sync EXCEPT ![s].pc = "record", ![s].status = "SKIPPED"]
    /\ UNCHANGED <<upstream, rows, artifacts, locks, sync_runs, cleaner, client>>

(* 200: the archive of the build that upstream offers now.  Upstream may   *)
(* answer so even when that build is not newer than If-Modified-Since,     *)
(* since a file's Last-Modified follows the build epoch inside it.         *)
SyncDownload(s) ==
    /\ sync[s].pc = "download"
    /\ sync' = [sync EXCEPT ![s].pc = "validate",
                            ![s].build = upstream[sync[s].product]]
    /\ UNCHANGED <<upstream, rows, artifacts, locks, sync_runs, cleaner, client>>

(* Mutant: the copy goes straight to the artifact's final path.            *)
SyncValidateInPlace(s) ==
    /\ sync[s].pc = "validate"
    /\ artifacts' = [artifacts EXCEPT ![sync[s].product][BuildDate[sync[s].build]] = Partial]
    /\ sync' = [sync EXCEPT ![s].pc = "stage", ![s].staging = Partial]
    /\ UNCHANGED <<upstream, rows, locks, sync_runs, cleaner, client>>

(* The archive is extracted in memory and validated, and StoreArtifact     *)
(* opens a staging file of its own and begins to copy into it.             *)
SyncValidate(s) ==
    /\ sync[s].pc = "validate"
    /\ sync' = [sync EXCEPT ![s].pc = "stage", ![s].staging = Partial]
    /\ UNCHANGED <<upstream, rows, artifacts, locks, sync_runs, cleaner, client>>

(* The copy ends with all the bytes: a short one is a size mismatch.       *)
SyncStage(s) ==
    /\ sync[s].pc = "stage"
    /\ sync' = [sync EXCEPT ![s].pc = "commit", ![s].staging = sync[s].build]
    /\ UNCHANGED <<upstream, rows, artifacts, locks, sync_runs, cleaner, client>>

(* Mutant: a file that is there is not replaced.                           *)
SyncCommitOnce(s) ==
    LET p == sync[s].product
        v == BuildDate[sync[s].build]
    IN  /\ sync[s].pc = "commit"
        /\ artifacts' = [artifacts EXCEPT ![p][v] = IF @ = NoBuild THEN sync[s].staging ELSE @]
        /\ sync' = [sync EXCEPT ![s].pc = "publish", ![s].staging = NoBuild]
        /\ UNCHANGED <<upstream, rows, locks, sync_runs, cleaner, client>>

(* os.Rename onto <product>/<version>/<filename>, replacing what is there. *)
SyncCommit(s) ==
    LET p == sync[s].product
    IN  /\ sync[s].pc = "commit"
        /\ artifacts' = [artifacts EXCEPT ![p][BuildDate[sync[s].build]] = sync[s].staging]
        /\ sync' = [sync EXCEPT ![s].pc = "publish", ![s].staging = NoBuild]
        /\ UNCHANGED <<upstream, rows, locks, sync_runs, cleaner, client>>

SyncPublish(s) ==
    LET p == sync[s].product
        b == sync[s].build
    IN  /\ sync[s].pc = "publish"
        /\ rows' = [rows EXCEPT ![p] = PublishNewVersion(@, BuildDate[b], b)]
        /\ sync' = [sync EXCEPT ![s].pc = "record", ![s].status = "SUCCESS"]
        /\ UNCHANGED <<upstream, artifacts, locks, sync_runs, cleaner, client>>

(* recordSyncRun ignores the error of its INSERT: a request whose context  *)
(* was cancelled leaves no record.  The deferred Unlock follows.           *)
SyncRecord(s) ==
    LET p == sync[s].product
    IN  /\ sync[s].pc = "record"
        /\ \E written \in {sync[s].status, sync_runs[p]} :
              sync_runs' = [sync_runs EXCEPT ![p] = written]
        /\ locks' = locks \ {p}
        /\ sync' = [sync EXCEPT ![s] = IdleSync]
        /\ UNCHANGED <<upstream, rows, artifacts, cleaner, client>>
----------------------------------------------------------------------------
(* RunCleanup.                                                             *)

CleanupList(c) ==
    /\ cleaner[c].pc = "idle"
    /\ cleaner' = [cleaner EXCEPT ![c] =
         [pc   |-> "scan",
          todo |-> UNION {{[product |-> p, version |-> v,
                            storage_path |-> rows[p][v].storage_path] :
                              v \in GetExpiredVersions(rows[p])} : p \in Products},
          at   |-> {}]]
    /\ UNCHANGED <<upstream, rows, artifacts, locks, sync, sync_runs, client>>

(* DeleteArtifact of the next version; an error is ignored.                *)
CleanupDelete(c) ==
    \E e \in cleaner[c].todo :
        /\ cleaner[c].pc = "scan"
        /\ \E left \in IF e.storage_path = "" THEN {artifacts[e.product][e.version]}
                       ELSE {NoBuild, artifacts[e.product][e.version]} :
              artifacts' = [artifacts EXCEPT ![e.product][e.version] = left]
        /\ cleaner' = [cleaner EXCEPT ![c] =
                         [pc |-> "mark", todo |-> cleaner[c].todo \ {e}, at |-> {e}]]
        /\ UNCHANGED <<upstream, rows, locks, sync, sync_runs, client>>

(* MarkVersionDeleted by id, with no look at what the row says now.        *)
CleanupMark(c) ==
    \E e \in cleaner[c].at :
        /\ cleaner[c].pc = "mark"
        /\ rows' = [rows EXCEPT ![e.product] = MarkVersionDeleted(@, e.version)]
        /\ cleaner' = [cleaner EXCEPT ![c].pc = "scan", ![c].at = {}]
        /\ UNCHANGED <<upstream, artifacts, locks, sync, sync_runs, client>>

(* Its error only leaves the version uncounted.                            *)
CleanupMarkFails(c) ==
    /\ cleaner[c].pc = "mark"
    /\ cleaner' = [cleaner EXCEPT ![c].pc = "scan", ![c].at = {}]
    /\ UNCHANGED <<upstream, rows, artifacts, locks, sync, sync_runs, client>>

CleanupEnd(c) ==
    /\ cleaner[c].pc = "scan"
    /\ cleaner[c].todo = {}
    /\ cleaner' = [cleaner EXCEPT ![c] = IdleCleaner]
    /\ UNCHANGED <<upstream, rows, artifacts, locks, sync, sync_runs, client>>
----------------------------------------------------------------------------
(* handleProductRollback.  The manifest cache is modelled elsewhere.       *)
Rollback(p, v) ==
    /\ IsLive(rows[p][v])
    /\ rows' = [rows EXCEPT ![p] = RollbackToVersion(@, v)]
    /\ UNCHANGED <<upstream, artifacts, locks, sync, sync_runs, cleaner, client>>

(* The download handler reads a row, of the current version when no other  *)
(* is named, takes the ETag from it, and then opens the file.              *)
DownloadLookup(c, p, v) ==
    /\ client[c].pc = "idle"
    /\ v \in GetCurrentVersion(rows[p]) \cup GetProductVersion(rows[p], v)
    /\ rows[p][v].storage_path # ""
    /\ client' = [client EXCEPT ![c] =
         [pc |-> "open", product |-> p, version |-> v, etag |-> rows[p][v].sha256,
          body |-> NoBuild]]
    /\ UNCHANGED <<upstream, rows, artifacts, locks, sync, sync_runs, cleaner>>

DownloadOpen(c) ==
    LET file == artifacts[client[c].product][client[c].version]
    IN  /\ client[c].pc = "open"
        /\ \/ /\ file # NoBuild
              /\ client' = [client EXCEPT ![c].pc = "served", ![c].body = file]
           \/ client' = [client EXCEPT ![c] = IdleClient]   \* 404 without the file, or 500
        /\ UNCHANGED <<upstream, rows, artifacts, locks, sync, sync_runs, cleaner>>

DownloadDone(c) ==
    /\ client[c].pc = "served"
    /\ client' = [client EXCEPT ![c] = IdleClient]
    /\ UNCHANGED <<upstream, rows, artifacts, locks, sync, sync_runs, cleaner>>
----------------------------------------------------------------------------
(* MaxMind releases its next build; it never goes back to an older one.    *)
UpstreamRelease(p) ==
    /\ upstream[p] < MaxBuild
    /\ upstream' = [upstream EXCEPT ![p] = @ + 1]
    /\ UNCHANGED <<rows, artifacts, locks, sync, sync_runs, cleaner, client>>

DeadlinePasses(p, v) ==
    /\ rows[p][v].cleanup_deadline = "pending"
    /\ rows' = [rows EXCEPT ![p][v].cleanup_deadline = "passed"]
    /\ UNCHANGED <<upstream, artifacts, locks, sync, sync_runs, cleaner, client>>

(* The process dies and is started again: the database and the artifacts   *)
(* stay.  A staging directory that is left behind is never read again,     *)
(* its name being unique.                                                  *)
Crash ==
    /\ locks' = {}
    /\ sync' = [s \in Syncers |-> IdleSync]
    /\ cleaner' = [c \in Cleaners |-> IdleCleaner]
    /\ client' = [c \in Clients |-> IdleClient]
    /\ UNCHANGED <<upstream, rows, artifacts, sync_runs>>

SyncStep(s) ==
    \/ SyncLoadFails(s) \/ SyncLoad(s) \/ SyncFails(s) \/ SyncNotModified(s)
    \/ SyncDownload(s) \/ SyncValidate(s) \/ SyncStage(s) \/ SyncCommit(s)
    \/ SyncPublish(s) \/ SyncRecord(s)

CleanupStep(c) ==
    CleanupDelete(c) \/ CleanupMark(c) \/ CleanupMarkFails(c) \/ CleanupEnd(c)

DownloadStep(c) == DownloadOpen(c) \/ DownloadDone(c)

NextWithoutRollback ==
    \/ \E s \in Syncers : SyncStep(s) \/ \E p \in Products : SyncBegin(s, p)
    \/ \E c \in Cleaners : CleanupList(c) \/ CleanupStep(c)
    \/ \E c \in Clients : \/ \E p \in Products, v \in Versions : DownloadLookup(c, p, v)
                          \/ DownloadStep(c)
    \/ \E p \in Products : \/ UpstreamRelease(p)
                           \/ \E v \in Versions : DeadlinePasses(p, v)
    \/ Crash

Next ==
    \/ NextWithoutRollback
    \/ \E p \in Products, v \in Versions : Rollback(p, v)

Spec == Init /\ [][Next]_vars

(* The service as long as no operator rolls a product back.                *)
SpecWithoutRollback == Init /\ [][NextWithoutRollback]_vars
----------------------------------------------------------------------------
(* No product ever has two current versions, whatever publications,        *)
(* rollbacks and purges interleave: GetCurrentVersion's LIMIT 1 never has  *)
(* to choose.                                                              *)
AtMostOneCurrent ==
    \A p \in Products : \A v, w \in Versions :
        rows[p][v].is_current /\ rows[p][w].is_current => v = w

(* Retention is never lost and never hits the wrong row: a version has a   *)
(* cleanup deadline exactly when it is not the current one, also after it  *)
(* was superseded, promoted again by a rollback and superseded once more.  *)
SupersededIsScheduled ==
    \A p \in Products : \A v \in Versions :
        Exists(rows[p][v]) =>
            (rows[p][v].is_current <=> rows[p][v].cleanup_deadline = "null")

(* What is at an artifact's final path is a whole build of that date, even *)
(* while it is replaced and after a crash at any step of StoreArtifact.    *)
ArtifactsAreWhole ==
    \A p \in Products : \A v \in Versions :
        artifacts[p][v] # NoBuild =>
            artifacts[p][v] \in Builds /\ BuildDate[artifacts[p][v]] = v

(* A digest that is written to a row is never older than one the product   *)
(* already has: with the per-product lock no sync publishes a download     *)
(* that a later sync has overtaken.                                        *)
PublishNeverRegresses ==
    [][\A p \in Products : \A v, w \in Versions :
          rows'[p][v].sha256 # rows[p][v].sha256 =>
              rows'[p][v].sha256 >= rows[p][w].sha256]_vars

(* A sync that ends as SKIPPED had read, as the current version, the very  *)
(* build that upstream offers, although a republished row keeps its old    *)
(* released_at and a rollback may have put an older version in force.      *)
SkipIsSound ==
    [][\A s \in Syncers :
          sync[s].pc = "download" /\ sync'[s].status = "SKIPPED" =>
              \E v \in sync[s].current :
                  rows[sync[s].product][v].sha256 = upstream[sync[s].product]]_vars

(* The current version is kept: it is not marked deleted, and a file of    *)
(* its date, no older than its digest says, is in storage.                 *)
CurrentIsKept ==
    \A p \in Products : \A v \in Versions :
        rows[p][v].is_current =>
            /\ IsLive(rows[p][v])
            /\ artifacts[p][v] \in Builds
            /\ artifacts[p][v] >= rows[p][v].sha256

(* A client receives a whole file of the version it looked up, and never   *)
(* one older than the ETag it was sent with, whatever replaced the file    *)
(* between the look-up and the open.                                       *)
ServedIsRequested ==
    \A c \in Clients : client[c].pc = "served" =>
        /\ client[c].body \in Builds
        /\ BuildDate[client[c].body] = client[c].version
        /\ client[c].body >= client[c].etag
============================================================================
