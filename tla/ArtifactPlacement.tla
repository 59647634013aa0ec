------------------------- MODULE ArtifactPlacement -------------------------
(***************************************************************************)
(* The catalogue of one product over the storage manager: which driver     *)
(* keeps the artifact of a row while an administrator switches drivers and *)
(* rolls back.  SyncProduct stores and publishes, RunCleanup lists,        *)
(* deletes and marks, the download handler opens.  The per-product mutex   *)
(* allows one sync; the interleavings of several cleanups are in           *)
(* Distribution, which has one store.                                      *)
(***************************************************************************)
EXTENDS StorageManager

CONSTANT MaxChanges     \* stores begun and rollbacks in a run (bound)

ASSUME CallersAssumption == Callers = {"sync", "cleanup", "download"}
ASSUME ChangesAssumption == MaxChanges \in Nat

VARIABLES
    upstream,    \* the build MaxMind offered to the last sync
    rows,        \* table product_versions
    location,    \* the driver that the storage_path of each row names
    todo,        \* the storage_path of each version that RunCleanup has yet to delete
    revived,     \* history: versions that were stored, published or rolled back
                 \* to when their deadline had passed already
    changes      \* stores begun and rollbacks so far

catalogVars   == <<upstream, rows, location, todo, revived, changes>>
placementVars == <<settings, manager, phase, objects, call, save, catalogVars>>

PlacementTypeOK ==
    /\ StorageTypeOK
    /\ upstream \in Builds
    /\ rows     \in Table
    /\ location \in [Versions -> Drivers]
    /\ todo     \in SUBSET StoragePath
    /\ revived  \in SUBSET Versions
    /\ changes  \in 0..MaxChanges

PlacementInit ==
    /\ ManagerInit
    /\ upstream = 1
    /\ rows     = EmptyTable
    /\ location = [v \in Versions |-> "filesystem"]
    /\ todo     = {}
    /\ revived  = {}
    /\ changes  = 0

PathOf(v) == [driver |-> location[v], version |-> v]

(* The deadline has passed, at which a cleanup may be at work on it.       *)
Overdue(v) == rows[v].cleanup_deadline = "passed"

Changed == changes < MaxChanges /\ changes' = changes + 1

Renewed(v) == revived' = IF Overdue(v) THEN revived \cup {v} ELSE revived
----------------------------------------------------------------------------
(* Syncs are started by requests or after a day, so never during the boot. *)
(* By now upstream offers some build, never one older than it did before;  *)
(* the one that is current may be downloaded once more.                    *)
SyncStore(build) ==
    /\ phase = "serving"
    /\ build >= upstream
    /\ upstream' = build
    /\ BeginStore("sync", BuildDate[build], build)
    /\ Changed
    /\ UNCHANGED <<rows, location, todo, revived>>

(* The store at work.                                                      *)
SyncStoreStep ==
    /\ CallStep("sync")
    /\ Renewed(call["sync"].path.version)
    /\ UNCHANGED <<upstream, rows, location, todo, changes>>

(* Mutant: the row gets a path of the driver that is active by then.       *)
SyncPublishActive ==
    LET r == call["sync"]
        v == r.path.version
    IN  /\ r.status = "ok"
        /\ Return("sync")
        /\ rows' = PublishNewVersion(rows, v, r.data)
        /\ location' = [location EXCEPT ![v] = Active]
        /\ Renewed(v)
        /\ UNCHANGED <<upstream, todo, changes>>

(* The row gets the path that StoreArtifact returned.                      *)
SyncPublish ==
    LET r == call["sync"]
        v == r.path.version
    IN  /\ r.status = "ok"
        /\ Return("sync")
        /\ rows' = PublishNewVersion(rows, v, r.data)
        /\ location' = [location EXCEPT ![v] = r.path.driver]
        /\ Renewed(v)
        /\ UNCHANGED <<upstream, todo, changes>>

(* The store or the transaction failed.                                    *)
SyncFails == Return("sync") /\ UNCHANGED catalogVars

(* The scheduler's first pass runs while main is still booting.            *)
CleanupList ==
    /\ call["cleanup"].pc = "idle" /\ todo = {}
    /\ todo' = {PathOf(v) : v \in GetExpiredVersions(rows)}
    /\ UNCHANGED <<managerVars, upstream, rows, location, revived, changes>>

(* Mutant: the path is built again, for the driver that is active now.     *)
CleanupDeleteActive(p) ==
    /\ p \in todo
    /\ Begin("cleanup", "delete", [p EXCEPT !.driver = Active], NoBuild)
    /\ todo' = todo \ {p}
    /\ UNCHANGED <<upstream, rows, location, revived, changes>>

(* With no look at what the row says by now.                               *)
CleanupDelete(p) ==
    /\ p \in todo
    /\ Begin("cleanup", "delete", p, NoBuild)
    /\ todo' = todo \ {p}
    /\ UNCHANGED <<upstream, rows, location, revived, changes>>

(* MarkVersionDeleted whatever DeleteArtifact answered.                    *)
CleanupMark ==
    LET v == call["cleanup"].path.version
    IN  /\ Return("cleanup")
        /\ rows' = MarkVersionDeleted(rows, v)
        /\ UNCHANGED <<upstream, location, todo, revived, changes>>

CleanupMarkFails == Return("cleanup") /\ UNCHANGED catalogVars

(* handleProductRollback asks only whether the row is live.                *)
Rollback(v) ==
    /\ phase = "serving"
    /\ IsLive(rows[v])
    /\ rows' = RollbackToVersion(rows, v)
    /\ Renewed(v)
    /\ Changed
    /\ UNCHANGED <<managerVars, upstream, location, todo>>

(* Mutant: the digest is that of the current version, whichever is opened. *)
DownloadCurrentDigest(v) ==
    /\ phase = "serving"
    /\ IsLive(rows[v])
    /\ \E w \in GetCurrentVersion(rows) :
          Begin("download", "open", PathOf(v), rows[w].sha256)
    /\ UNCHANGED catalogVars

DownloadOpen(v) ==
    /\ phase = "serving"
    /\ IsLive(rows[v])
    /\ Begin("download", "open", PathOf(v), rows[v].sha256)
    /\ UNCHANGED catalogVars

DownloadEnd == Return("download") /\ UNCHANGED catalogVars

DeadlinePasses(v) ==
    /\ rows[v].cleanup_deadline = "pending"
    /\ rows' = [rows EXCEPT ![v].cleanup_deadline = "passed"]
    /\ UNCHANGED <<managerVars, upstream, location, todo, revived, changes>>

ManagerStep ==
    /\ \/ \E c \in Callers \ {"sync"} : CallStep(c)
       \/ \E a \in Saves, bucket \in BOOLEAN : SaveBucket(a, bucket)
       \/ \E a \in Reloaders : SaveStep(a)
    /\ UNCHANGED catalogVars

Reboot == Restart /\ todo' = {} /\ UNCHANGED <<upstream, rows, location, revived, changes>>

PlacementNext ==
    \/ \E build \in Builds : SyncStore(build)
    \/ SyncStoreStep \/ SyncPublish \/ SyncFails
    \/ \E v \in Versions : DownloadOpen(v) \/ DeadlinePasses(v) \/ Rollback(v)
    \/ CleanupList \/ \E p \in StoragePath : CleanupDelete(p)
    \/ CleanupMark \/ CleanupMarkFails \/ DownloadEnd
    \/ ManagerStep \/ Reboot

PlacementSpec == PlacementInit /\ [][PlacementNext]_placementVars
----------------------------------------------------------------------------
Held(v) == objects[location[v]][v]

(* A row names the place of its own artifact: until a version expires, the *)
(* driver that its storage_path belongs to holds a build of its date, no   *)
(* older than its digest, also when the driver was switched between the    *)
(* store and the publication, a second build of the day went elsewhere, or *)
(* an operator rolled back.  Nothing is said of a version that came back   *)
(* after its deadline: a cleanup may have it on its list.                  *)
RowsArePlaced ==
    \A v \in Versions :
        IsLive(rows[v]) /\ ~Overdue(v) /\ v \notin revived =>
            /\ Held(v) \in Builds
            /\ BuildDate[Held(v)] = v
            /\ Held(v) >= rows[v].sha256

(* A download across a switch never gets what the other driver keeps for   *)
(* the same date: its body is no older than the digest of the row it read. *)
ServedIsPlaced ==
    LET r == call["download"]
    IN  r.op = "open" /\ r.status = "ok" =>
            BuildDate[r.body] = r.path.version /\ r.body >= r.data

(* With both drivers registered a download answers 404 only for a version  *)
(* that has expired, or that was rolled back to or published again after   *)
(* it had, however the active driver is switched meanwhile.                *)
OnlyExpiredIsNotFound ==
    LET r == call["download"]
    IN  r.op = "open" /\ r.status = "notfound" /\ PlaceOf(r) # "unknown" =>
            Overdue(r.path.version) \/ r.path.version \in revived

(* A row is marked deleted while its artifact is still there only when the *)
(* deletion reported an error, when the artifact was not on the active     *)
(* driver, whose answer is the only one that DeleteArtifact returns, or    *)
(* when the version came back after its deadline.                          *)
LeftOnlyWhenNotActive ==
    [][\A v \in Versions :
          ~rows[v].is_deleted /\ rows'[v].is_deleted /\ Held(v) # NoBuild =>
              \/ call["cleanup"].status = "error"
              \/ PlaceOf(call["cleanup"]) # "primary"
              \/ v \in revived]_placementVars

(* OpenArtifact falls back to the secondary driver: whenever requests are  *)
(* served and no reload is under way, the manager knows the driver that    *)
(* keeps the current version.                                              *)
CurrentIsReachable ==
    phase = "serving" /\ (\A a \in Reloaders : save[a] = "idle") =>
        \A v \in GetCurrentVersion(rows) :
            location[v] = "filesystem" \/ manager.s3Storage
============================================================================
