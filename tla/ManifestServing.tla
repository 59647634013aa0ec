--------------------------- MODULE ManifestServing ---------------------------
(***************************************************************************)
(* The manifest endpoint: ManifestCache (internal/cache) in front of the   *)
(* catalogue, filled by ManifestHandler (internal/api) and emptied by the  *)
(* onPublish callback that main.go gives to the syncer.  The module        *)
(* composes the cache and its readers with Distribution: every step of     *)
(* that module is a step here, and the two meet at                         *)
(*                                                                         *)
(*   - publication: SyncProduct calls onPublish after the transaction that *)
(*     publishes, and before it records the run;                           *)
(*   - rollback: handleProductRollback changes the rows and nothing else;  *)
(*   - a crash: the cache is memory and is lost with the process.          *)
(*                                                                         *)
(* The fields of a manifest that come from table products never change     *)
(* while the service runs; what is left is the version and its digest.     *)
(***************************************************************************)
EXTENDS Distribution

CONSTANT Readers          \* concurrent manifest requests

VARIABLES
    entries,     \* ManifestCache.entries: the entry of each product
    reader,      \* local state of each manifest request
    notifying,   \* SyncProduct calls between the publication and onPublish
    overtaken    \* history: products whose entry was filled by a reader that
                 \* had read its row before the product's last invalidation

cacheVars == <<entries, reader, notifying, overtaken>>
allVars   == <<vars, cacheVars>>
----------------------------------------------------------------------------
Manifest   == [version : Versions, sha256 : Builds]
NoManifest == [version |-> 0, sha256 |-> NoBuild]

NoEntry == [manifest |-> NoManifest, age |-> "none"]
Entry   == {NoEntry} \cup [manifest : Manifest, age : {"young", "old"}]

IdleReader  == [pc |-> "idle", product |-> "none", manifest |-> NoManifest,
                crossed |-> FALSE]
ReaderState == [pc       : {"idle", "query", "fill", "served"},
                product  : Products \cup {"none"},
                manifest : Manifest \cup {NoManifest},
                crossed  : BOOLEAN]  \* history: an invalidation came after the query

CacheTypeOK ==
    /\ TypeOK
    /\ entries   \in [Products -> Entry]
    /\ reader    \in [Readers -> ReaderState]
    /\ notifying \in SUBSET Syncers
    /\ overtaken \in SUBSET Products

CacheInit ==
    /\ Init
    /\ entries   = [p \in Products |-> NoEntry]
    /\ reader    = [r \in Readers |-> IdleReader]
    /\ notifying = {}
    /\ overtaken = {}
----------------------------------------------------------------------------
(* Mutant: an entry older than the TTL still counts.                       *)
FoundAtAnyAge(p) == entries[p].age # "none"

(* ManifestCache.Get finds an entry no older than the TTL.                 *)
Found(p) == entries[p].age = "young"

(* A hit: the cached manifest is the answer.                               *)
ServeCached(r, p) ==
    /\ reader[r].pc = "idle"
    /\ Found(p)
    /\ reader' = [reader EXCEPT ![r].pc = "served", ![r].product = p,
                                ![r].manifest = entries[p].manifest]
    /\ UNCHANGED <<vars, entries, notifying, overtaken>>

(* A miss: the handler goes on to the database.                            *)
Miss(r, p) ==
    /\ reader[r].pc = "idle"
    /\ ~Found(p)
    /\ reader' = [reader EXCEPT ![r].pc = "query", ![r].product = p]
    /\ UNCHANGED <<vars, entries, notifying, overtaken>>

(* GetCurrentVersion, and the manifest built from its row.                 *)
Query(r) ==
    LET p == reader[r].product
    IN  /\ reader[r].pc = "query"
        /\ \E v \in GetCurrentVersion(rows[p]) :
              reader' = [reader EXCEPT ![r].pc = "fill",
                           ![r].manifest = [version |-> v, sha256 |-> rows[p][v].sha256]]
        /\ UNCHANGED <<vars, entries, notifying, overtaken>>

(* No current version (404), or a query fails (404 or 500).                *)
QueryFails(r) ==
    /\ reader[r].pc = "query"
    /\ reader' = [reader EXCEPT ![r] = IdleReader]
    /\ UNCHANGED <<vars, entries, notifying, overtaken>>

(* ManifestCache.Set, whatever the cache holds by now.                     *)
Fill(r) ==
    LET p == reader[r].product
    IN  /\ reader[r].pc = "fill"
        /\ entries' = [entries EXCEPT ![p] =
                         [manifest |-> reader[r].manifest, age |-> "young"]]
        /\ overtaken' = IF reader[r].crossed THEN overtaken \cup {p}
                                             ELSE overtaken \ {p}
        /\ reader' = [reader EXCEPT ![r].pc = "served", ![r].crossed = FALSE]
        /\ UNCHANGED <<vars, notifying>>

ServeDone(r) ==
    /\ reader[r].pc = "served"
    /\ reader' = [reader EXCEPT ![r] = IdleReader]
    /\ UNCHANGED <<vars, entries, notifying, overtaken>>

(* 60 seconds pass over an entry.                                          *)
TTLPasses(p) ==
    /\ entries[p].age = "young"
    /\ entries' = [entries EXCEPT ![p].age = "old"]
    /\ UNCHANGED <<vars, reader, notifying, overtaken>>
----------------------------------------------------------------------------
(* Publication, with the callback that is now due.                         *)
Publish(s) ==
    /\ SyncPublish(s)
    /\ notifying' = notifying \cup {s}
    /\ UNCHANGED <<entries, reader, overtaken>>

Crossing(p) ==
    [r \in Readers |->
        IF reader[r].pc = "fill" /\ reader[r].product = p
        THEN [reader[r] EXCEPT !.crossed = TRUE]
        ELSE reader[r]]

(* Mutant: the callback forgets the cache.                                 *)
OnPublishKeepsEntry(s) ==
    /\ s \in notifying
    /\ notifying' = notifying \ {s}
    /\ reader' = Crossing(sync[s].product)
    /\ UNCHANGED <<vars, entries, overtaken>>

(* onPublish: ManifestCache.Invalidate.  The webhook goroutine it starts   *)
(* touches neither the cache nor the catalogue.                            *)
OnPublish(s) ==
    LET p == sync[s].product
    IN  /\ s \in notifying
        /\ entries' = [entries EXCEPT ![p] = NoEntry]
        /\ notifying' = notifying \ {s}
        /\ overtaken' = overtaken \ {p}
        /\ reader' = Crossing(p)
        /\ UNCHANGED vars

Restart ==
    /\ Crash
    /\ entries' = [p \in Products |-> NoEntry]
    /\ reader' = [r \in Readers |-> IdleReader]
    /\ notifying' = {}
    /\ overtaken' = {}

(* The steps of Distribution that the cache neither sees nor delays; the   *)
(* run is recorded only after onPublish has returned.                      *)
OtherSyncStep(s) ==
    /\ \/ SyncLoadFails(s) \/ SyncLoad(s) \/ SyncFails(s) \/ SyncNotModified(s)
       \/ SyncDownload(s) \/ SyncValidate(s) \/ SyncStage(s) \/ SyncCommit(s)
       \/ s \notin notifying /\ SyncRecord(s)
       \/ \E p \in Products : SyncBegin(s, p)
    /\ UNCHANGED cacheVars

BackgroundStep ==
    /\ \/ \E c \in Cleaners : CleanupList(c) \/ CleanupStep(c)
       \/ \E c \in Clients : \/ \E p \in Products, v \in Versions : DownloadLookup(c, p, v)
                             \/ DownloadStep(c)
       \/ \E p \in Products : \/ UpstreamRelease(p)
                              \/ \E v \in Versions : DeadlinePasses(p, v)
    /\ UNCHANGED cacheVars

ReaderStep(r) == Query(r) \/ QueryFails(r) \/ Fill(r) \/ ServeDone(r)

CacheNextWithoutRollback ==
    \/ \E s \in Syncers : OtherSyncStep(s) \/ Publish(s) \/ OnPublish(s)
    \/ BackgroundStep
    \/ \E r \in Readers : \/ \E p \in Products : ServeCached(r, p) \/ Miss(r, p)
                          \/ ReaderStep(r)
    \/ \E p \in Products : TTLPasses(p)
    \/ Restart

CacheNext ==
    \/ CacheNextWithoutRollback
    \/ \E p \in Products, v \in Versions : Rollback(p, v) /\ UNCHANGED cacheVars

CacheSpec == CacheInit /\ [][CacheNext]_allVars
CacheSpecWithoutRollback == CacheInit /\ [][CacheNextWithoutRollback]_allVars

(* The clock advances and a request that has begun comes to its end.       *)
CacheLiveSpec ==
    /\ CacheSpec
    /\ \A p \in Products : WF_allVars(TTLPasses(p))
    /\ \A r \in Readers : WF_allVars(ReaderStep(r))
----------------------------------------------------------------------------
Current(p) == {[version |-> v, sha256 |-> rows[p][v].sha256] :
                  v \in GetCurrentVersion(rows[p])}

Notified(p) == \A s \in notifying : sync[s].product # p

(* Without rollbacks the invalidation by the callback is enough but for    *)
(* one race: an entry that is served and differs from the current version  *)
(* is either about to be invalidated, or was filled by a request that read *)
(* its row before the invalidation.  A crash between the publication and   *)
(* the callback does no harm, and neither does a purge.                    *)
StaleOnlyWhenOvertaken ==
    \A p \in Products :
        Found(p) /\ Notified(p) /\ p \notin overtaken =>
            entries[p].manifest \in Current(p)

(* Staleness is bounded by the TTL: when the current version of a product  *)
(* stays what it is, the cache in the end never answers with another one,  *)
(* whatever was in flight and also after a rollback.                       *)
ManifestConverges ==
    \A p \in Products, m \in Manifest :
        <>[](Current(p) = {m}) => <>[](Found(p) => entries[p].manifest = m)
============================================================================
