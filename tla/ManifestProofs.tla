--------------------------- MODULE ManifestProofs ---------------------------
(***************************************************************************)
(* The manifest cache over the service: every behaviour with the cache is  *)
(* a behaviour of Distribution, whose theorems therefore hold of it, and   *)
(* without rollbacks only one race leaves a stale entry.                   *)
(***************************************************************************)
EXTENDS ManifestServing, DistributionProofs

(* The cache adds nothing to what the service does.                        *)
LEMMA ServiceStep ==
    /\ [CacheNextWithoutRollback]_allVars => [NextWithoutRollback]_vars
    /\ [CacheNext]_allVars => [Next]_vars
  <1>1. ASSUME NEW s \in Syncers, OtherSyncStep(s)
        PROVE  SyncStep(s) \/ \E p \in Products : SyncBegin(s, p)
    BY <1>1 DEF OtherSyncStep, SyncStep
  <1>2. ASSUME NEW s \in Syncers, Publish(s) PROVE SyncStep(s)
    BY <1>2 DEF Publish, SyncStep
  <1>3. ASSUME NEW s \in Syncers, OnPublish(s) PROVE UNCHANGED vars
    BY <1>3 DEF OnPublish
  <1>4. ASSUME BackgroundStep PROVE NextWithoutRollback
    BY <1>4 DEF BackgroundStep, NextWithoutRollback
  <1>5. ASSUME NEW r \in Readers, ReaderStep(r) \/ \E p \in Products : ServeCached(r, p) \/ Miss(r, p)
        PROVE  UNCHANGED vars
    BY <1>5 DEF ReaderStep, Query, QueryFails, Fill, ServeDone, ServeCached, Miss
  <1>6. ASSUME NEW p \in Products, TTLPasses(p) PROVE UNCHANGED vars
    BY <1>6 DEF TTLPasses
  <1>7. Restart => NextWithoutRollback
    BY DEF Restart, NextWithoutRollback
  <1>8. UNCHANGED allVars => UNCHANGED vars
    BY DEF allVars
  <1>9. [CacheNextWithoutRollback]_allVars => [NextWithoutRollback]_vars
    BY <1>1, <1>2, <1>3, <1>4, <1>5, <1>6, <1>7, <1>8
       DEF CacheNextWithoutRollback, NextWithoutRollback
  <1> QED
    BY <1>8, <1>9 DEF CacheNext, Next

(* Forgetting the cache and its readers, a behaviour of the manifest       *)
(* endpoint is one of the service: the callback, the cache and the handler *)
(* write no variable of Distribution.                                      *)
LEMMA CacheIsTransparent == CacheSpec => Spec
  <1>1. CacheInit => Init
    BY DEF CacheInit
  <1> QED
    BY <1>1, ServiceStep, PTL DEF CacheSpec, Spec

(* The same as long as nobody rolls back.                                  *)
LEMMA CacheIsTransparentWithoutRollback == CacheSpecWithoutRollback => SpecWithoutRollback
  <1>1. CacheInit => Init
    BY DEF CacheInit
  <1> QED
    BY <1>1, ServiceStep, PTL DEF CacheSpecWithoutRollback, SpecWithoutRollback
----------------------------------------------------------------------------
(* Types.  A request beyond its first step has a product, and one that has *)
(* its row has a manifest to cache.                                        *)
ReadersOK ==
    \A r \in Readers :
        /\ reader[r].pc # "idle" => reader[r].product \in Products
        /\ reader[r].pc = "fill" => reader[r].manifest \in Manifest

CacheTypes == CacheTypeOK /\ ReadersOK

(* An empty cache without requests.                                        *)
LEMMA CacheTypesInit == CacheInit /\ TypeOK => CacheTypes
  BY DEF CacheInit, CacheTypes, CacheTypeOK, ReadersOK, Entry, IdleReader, ReaderState

(* A step of one request.                                                  *)
LEMMA ReaderTypes ==
    ASSUME CacheTypes, NEW r \in Readers, NEW x \in ReaderState,
           reader' = [reader EXCEPT ![r] = x],
           x.pc # "idle" => x.product \in Products,
           x.pc = "fill" => x.manifest \in Manifest
    PROVE  reader' \in [Readers -> ReaderState] /\ ReadersOK'
  BY DEF CacheTypes, CacheTypeOK, ReadersOK

(* What is current makes a manifest.                                       *)
LEMMA CurrentIsManifest ==
    ASSUME TypeOK, NEW p \in Products, NEW v \in GetCurrentVersion(rows[p])
    PROVE  [version |-> v, sha256 |-> rows[p][v].sha256] \in Manifest
  <1>1. v \in Versions /\ Exists(rows[p][v])
    BY DEF GetCurrentVersion, IsLive
  <1>2. rows[p][v] \in Row
    BY <1>1 DEF TypeOK, Table
  <1>3. rows[p][v].sha256 \in Builds
    BY <1>1, <1>2 DEF Row, Exists
  <1> QED
    BY <1>1, <1>3 DEF Manifest

(* Every step keeps the types of cache and requests.                       *)
LEMMA CacheTypesNext == CacheTypes /\ TypeOK' /\ [CacheNext]_allVars => CacheTypes'
  <1> SUFFICES ASSUME CacheTypes, TypeOK', [CacheNext]_allVars PROVE CacheTypes'
    OBVIOUS
  <1>1. /\ TypeOK
        /\ entries \in [Products -> Entry] /\ reader \in [Readers -> ReaderState]
        /\ notifying \in SUBSET Syncers /\ overtaken \in SUBSET Products
    BY DEF CacheTypes, CacheTypeOK
  <1>2. IdleReader \in ReaderState /\ IdleReader.pc = "idle"
    BY DEF IdleReader, ReaderState
  <1>3. CASE UNCHANGED cacheVars
    BY <1>3 DEF cacheVars, CacheTypes, CacheTypeOK, ReadersOK
  <1>4. ASSUME NEW r \in Readers, NEW p \in Products, ServeCached(r, p) PROVE CacheTypes'
    <2> DEFINE x == [reader[r] EXCEPT !.pc = "served", !.product = p,
                                      !.manifest = entries[p].manifest]
    <2>1. reader' = [reader EXCEPT ![r] = x] /\ UNCHANGED <<entries, notifying, overtaken>>
      BY <1>1, <1>4 DEF ServeCached
    <2>2. entries[p].manifest \in Manifest
      BY <1>1, <1>4 DEF ServeCached, Found, Entry, NoEntry
    <2>3. x \in ReaderState /\ x.pc = "served" /\ x.product = p
      BY <1>1, <2>2 DEF ReaderState
    <2> HIDE DEF x
    <2>4. reader' \in [Readers -> ReaderState] /\ ReadersOK'
      BY <2>1, <2>3, ReaderTypes
    <2> QED
      BY <1>1, <2>1, <2>4 DEF CacheTypes, CacheTypeOK
  <1>5. ASSUME NEW r \in Readers, NEW p \in Products, Miss(r, p) PROVE CacheTypes'
    <2> DEFINE x == [reader[r] EXCEPT !.pc = "query", !.product = p]
    <2>1. reader' = [reader EXCEPT ![r] = x] /\ UNCHANGED <<entries, notifying, overtaken>>
      BY <1>1, <1>5 DEF Miss
    <2>2. x \in ReaderState /\ x.pc = "query" /\ x.product = p
      BY <1>1 DEF ReaderState
    <2> HIDE DEF x
    <2>3. reader' \in [Readers -> ReaderState] /\ ReadersOK'
      BY <2>1, <2>2, ReaderTypes
    <2> QED
      BY <1>1, <2>1, <2>3 DEF CacheTypes, CacheTypeOK
  <1>6. ASSUME NEW r \in Readers, Query(r) PROVE CacheTypes'
    <2>1. reader[r].product \in Products
      BY <1>6 DEF Query, CacheTypes, ReadersOK
    <2>2. PICK v \in GetCurrentVersion(rows[reader[r].product]) :
             reader' = [reader EXCEPT ![r].pc = "fill",
                          ![r].manifest = [version |-> v,
                                           sha256 |-> rows[reader[r].product][v].sha256]]
      BY <1>6 DEF Query
    <2>3. PICK m \in Manifest : m = [version |-> v, sha256 |-> rows[reader[r].product][v].sha256]
      BY <1>1, <2>1, CurrentIsManifest
    <2> DEFINE x == [reader[r] EXCEPT !.pc = "fill", !.manifest = m]
    <2>4. reader' = [reader EXCEPT ![r] = x] /\ UNCHANGED <<entries, notifying, overtaken>>
      BY <1>1, <1>6, <2>2, <2>3 DEF Query
    <2>5. x \in ReaderState /\ x.pc = "fill" /\ x.product = reader[r].product /\ x.manifest = m
      BY <1>1 DEF ReaderState
    <2> HIDE DEF x
    <2>6. reader' \in [Readers -> ReaderState] /\ ReadersOK'
      BY <2>1, <2>4, <2>5, ReaderTypes
    <2> QED
      BY <1>1, <2>4, <2>6 DEF CacheTypes, CacheTypeOK
  <1>7. ASSUME NEW r \in Readers, QueryFails(r) \/ ServeDone(r) PROVE CacheTypes'
    <2>1. reader' = [reader EXCEPT ![r] = IdleReader] /\ UNCHANGED <<entries, notifying, overtaken>>
      BY <1>7 DEF QueryFails, ServeDone
    <2>2. reader' \in [Readers -> ReaderState] /\ ReadersOK'
      BY <1>2, <2>1, ReaderTypes
    <2> QED
      BY <1>1, <2>1, <2>2 DEF CacheTypes, CacheTypeOK
  <1>8. ASSUME NEW r \in Readers, Fill(r) PROVE CacheTypes'
    <2>1. reader[r].product \in Products /\ reader[r].manifest \in Manifest
      BY <1>8 DEF Fill, CacheTypes, ReadersOK
    <2>2. [manifest |-> reader[r].manifest, age |-> "young"] \in Entry
      BY <2>1 DEF Entry
    <2>3. entries' \in [Products -> Entry] /\ overtaken' \in SUBSET Products
      BY <1>1, <1>8, <2>1, <2>2 DEF Fill
    <2> DEFINE x == [reader[r] EXCEPT !.pc = "served", !.crossed = FALSE]
    <2>4. reader' = [reader EXCEPT ![r] = x] /\ UNCHANGED notifying
      BY <1>1, <1>8 DEF Fill
    <2>5. x \in ReaderState /\ x.pc = "served" /\ x.product = reader[r].product
      BY <1>1 DEF ReaderState
    <2> HIDE DEF x
    <2>6. reader' \in [Readers -> ReaderState] /\ ReadersOK'
      BY <2>1, <2>4, <2>5, ReaderTypes
    <2> QED
      BY <1>1, <2>3, <2>4, <2>6 DEF CacheTypes, CacheTypeOK
  <1>9. ASSUME NEW p \in Products, TTLPasses(p) PROVE CacheTypes'
    <2>1. [entries[p] EXCEPT !.age = "old"] \in Entry
      BY <1>1, <1>9 DEF TTLPasses, Entry, NoEntry
    <2>2. entries' \in [Products -> Entry] /\ UNCHANGED <<reader, notifying, overtaken>>
      BY <1>1, <1>9, <2>1 DEF TTLPasses
    <2> QED
      BY <1>1, <2>2 DEF CacheTypes, CacheTypeOK, ReadersOK
  <1>10. ASSUME NEW s \in Syncers, Publish(s) PROVE CacheTypes'
    BY <1>1, <1>10 DEF Publish, CacheTypes, CacheTypeOK, ReadersOK
  <1>11. ASSUME NEW s \in Syncers, OnPublish(s) PROVE CacheTypes'
    <2>1. entries' \in [Products -> Entry]
      BY <1>1, <1>11 DEF OnPublish, Entry
    <2>2. notifying' \in SUBSET Syncers /\ overtaken' \in SUBSET Products
      BY <1>1, <1>11 DEF OnPublish
    <2>3. \A r \in Readers : reader'[r] = IF reader[r].pc = "fill" /\ reader[r].product = sync[s].product
                                          THEN [reader[r] EXCEPT !.crossed = TRUE]
                                          ELSE reader[r]
      BY <1>11 DEF OnPublish, Crossing
    <2>4. \A r \in Readers : /\ reader'[r] \in ReaderState
                             /\ reader'[r].pc = reader[r].pc
                             /\ reader'[r].product = reader[r].product
                             /\ reader'[r].manifest = reader[r].manifest
      BY <1>1, <2>3 DEF ReaderState
    <2>5. DOMAIN reader' = Readers /\ reader' = [r \in Readers |-> reader'[r]]
      BY <1>11 DEF OnPublish, Crossing
    <2>6. reader' \in [Readers -> ReaderState]
      BY <2>4, <2>5
    <2>7. ReadersOK'
      BY <2>4 DEF CacheTypes, ReadersOK
    <2> QED
      BY <2>1, <2>2, <2>6, <2>7 DEF CacheTypes, CacheTypeOK
  <1>12. CASE Restart
    BY <1>2, <1>12 DEF Restart, CacheTypes, CacheTypeOK, ReadersOK, Entry
  <1> QED
    BY <1>3, <1>4, <1>5, <1>6, <1>7, <1>8, <1>9, <1>10, <1>11, <1>12
       DEF allVars, CacheNext, CacheNextWithoutRollback, OtherSyncStep, BackgroundStep, ReaderStep

(* The cache holds, for every product, nothing or a manifest of a whole    *)
(* row, and no request writes or answers with anything else, rollbacks and *)
(* restarts included.                                                      *)
THEOREM CacheTypeCorrect == CacheSpec => []CacheTypeOK
  <1>1. CacheInit /\ TypeOK => CacheTypes
    BY CacheTypesInit
  <1>2. CacheTypes /\ TypeOK' /\ [CacheNext]_allVars => CacheTypes'
    BY CacheTypesNext
  <1>3. CacheTypes => CacheTypeOK
    BY DEF CacheTypes
  <1>4. TypeInv /\ Inv => TypeOK
    BY DEF TypeInv
  <1> QED
    BY <1>1, <1>2, <1>3, <1>4, CacheIsTransparent, Invariance, PTL DEF CacheSpec
----------------------------------------------------------------------------
(* Staleness.  A callback is due only while its sync waits to record the   *)
(* run; a request is marked as crossed only between its query and its      *)
(* fill; one that is not, and whose product has no callback due, holds     *)
(* what is current, and so does an entry that is served and was filled by  *)
(* such a request.                                                         *)
CallbacksOK == \A s \in notifying : sync[s].pc = "record"

FillsOK ==
    \A r \in Readers :
        /\ reader[r].pc # "fill" => ~reader[r].crossed
        /\ \A p \in Products :
              /\ reader[r].pc = "fill"
              /\ reader[r].product = p
              /\ ~reader[r].crossed
              /\ Notified(p)
              => reader[r].manifest \in Current(p)

CacheInv == CallbacksOK /\ FillsOK /\ StaleOnlyWhenOvertaken

(* Rows that agree on what is current, alive and digested serve alike.     *)
LEMMA CurrentSame ==
    ASSUME NEW p \in Products,
           \A v \in Versions :
              /\ rows'[p][v].is_current = rows[p][v].is_current
              /\ rows'[p][v].sha256 = rows[p][v].sha256
              /\ rows[p][v].is_current => rows'[p][v].is_deleted = rows[p][v].is_deleted
    PROVE  Current(p)' = Current(p)
  <1>1. \A v \in Versions : v \in GetCurrentVersion(rows'[p]) <=> v \in GetCurrentVersion(rows[p])
    BY DEF GetCurrentVersion, IsLive, Exists
  <1>2. GetCurrentVersion(rows'[p]) = GetCurrentVersion(rows[p])
    BY <1>1 DEF GetCurrentVersion
  <1> HIDE DEF GetCurrentVersion
  <1>3. \A v \in GetCurrentVersion(rows[p]) : rows'[p][v].sha256 = rows[p][v].sha256
    BY DEF GetCurrentVersion
  <1> QED
    BY <1>2, <1>3 DEF Current

(* A purge works from a stale list, but nothing on it is current.          *)
LEMMA PurgeKeepsCurrent ==
    ASSUME TypeInv, Inv, SupersededStaysBehind, NEW c \in Cleaners, CleanupMark(c),
           NEW p \in Products
    PROVE  Current(p)' = Current(p)
  <1>1. PICK e \in cleaner[c].at :
           rows' = [rows EXCEPT ![e.product] = MarkVersionDeleted(@, e.version)]
    BY DEF CleanupMark
  <1>2. /\ e.product \in Products /\ e.version \in Versions
        /\ ~rows[e.product][e.version].is_current
    BY ListedIsApart
  <1>3. \/ p = e.product /\ rows'[p] = MarkVersionDeleted(rows[p], e.version)
        \/ rows'[p] = rows[p]
    BY <1>1 DEF TypeInv, TypeOK
  <1>4. rows[p] \in Table
    BY Numbers
  <1>5. \A v \in Versions :
           /\ rows'[p][v].is_current = rows[p][v].is_current
           /\ rows'[p][v].sha256 = rows[p][v].sha256
           /\ rows[p][v].is_current => rows'[p][v].is_deleted = rows[p][v].is_deleted
    BY <1>2, <1>3, <1>4, MarkRows
  <1> QED
    BY <1>5, CurrentSame

(* A deadline that passes is not looked at by GetCurrentVersion.           *)
LEMMA DeadlineKeepsCurrent ==
    ASSUME TypeInv, NEW q \in Products, NEW w \in Versions, DeadlinePasses(q, w),
           NEW p \in Products
    PROVE  Current(p)' = Current(p)
  <1>1. /\ rows'[q][w] = [rows[q][w] EXCEPT !.cleanup_deadline = "passed"]
        /\ \A v \in Versions : v # w => rows'[q][v] = rows[q][v]
        /\ p # q => rows'[p] = rows[p]
    BY DEF DeadlinePasses, TypeInv, TypeOK, Table
  <1>2. rows[q][w] \in Row
    BY Numbers
  <1>3. /\ rows'[q][w].is_current = rows[q][w].is_current
        /\ rows'[q][w].sha256 = rows[q][w].sha256
        /\ rows'[q][w].is_deleted = rows[q][w].is_deleted
    BY <1>1, <1>2 DEF Row
  <1> QED
    BY <1>1, <1>3, CurrentSame

(* Without rollbacks only a publication changes what is current.           *)
LEMMA OnlyPublicationChanges ==
    ASSUME TypeInv, Inv, SupersededStaysBehind,
           \/ BackgroundStep
           \/ \E s \in Syncers : OtherSyncStep(s)
           \/ UNCHANGED rows,
           NEW p \in Products
    PROVE  Current(p)' = Current(p)
  <1>1. CASE UNCHANGED rows
    BY <1>1 DEF Current
  <1>2. ASSUME NEW s \in Syncers, OtherSyncStep(s) PROVE UNCHANGED rows
    BY <1>2
       DEF OtherSyncStep, SyncBegin, SyncLoadFails, SyncLoad, SyncFails, Fail, SyncNotModified,
           SyncDownload, SyncValidate, SyncStage, SyncCommit, SyncRecord
  <1>3. ASSUME BackgroundStep, rows' # rows
        PROVE  \/ \E c \in Cleaners : CleanupMark(c)
               \/ \E q \in Products, w \in Versions : DeadlinePasses(q, w)
    BY <1>3
       DEF BackgroundStep, DownloadLookup, DownloadStep, DownloadOpen, DownloadDone,
           CleanupList, CleanupStep, CleanupDelete, CleanupMarkFails,
           CleanupEnd, UpstreamRelease
  <1> QED
    BY <1>1, <1>2, <1>3, PurgeKeepsCurrent, DeadlineKeepsCurrent

(* A sync whose callback is due makes no step of its own.                  *)
LEMMA DueSyncWaits ==
    ASSUME TypeInv, CallbacksOK, NEW t \in Syncers, OtherSyncStep(t), NEW s \in notifying,
           s \in Syncers
    PROVE  sync'[s] = sync[s]
  <1>1. sync[s].pc = "record"
    BY DEF CallbacksOK
  <1>2. CASE t = s
    BY <1>1, <1>2
       DEF OtherSyncStep, SyncBegin, SyncLoadFails, SyncLoad, SyncFails, Fail, SyncNotModified,
           SyncDownload, SyncValidate, SyncStage, SyncCommit, SyncRecord
  <1>3. CASE t # s
    BY <1>3
       DEF OtherSyncStep, SyncBegin, SyncLoadFails, SyncLoad, SyncFails, Fail, SyncNotModified,
           SyncDownload, SyncValidate, SyncStage, SyncCommit, SyncRecord, TypeInv, TypeOK
  <1> QED
    BY <1>2, <1>3

(* A step that leaves the cache alone, what is current, and the syncs that *)
(* have a callback due.                                                    *)
LEMMA CacheSame ==
    ASSUME CacheInv, UNCHANGED cacheVars,
           \A p \in Products : Current(p)' = Current(p),
           \A s \in notifying : sync'[s] = sync[s]
    PROVE  CacheInv'
  <1>1. CallbacksOK'
    BY DEF CacheInv, CallbacksOK, cacheVars
  <1>2. \A p \in Products : Notified(p)' <=> Notified(p)
    BY DEF Notified, cacheVars
  <1>3. FillsOK'
    BY <1>2 DEF CacheInv, FillsOK, cacheVars
  <1>4. StaleOnlyWhenOvertaken'
    BY <1>2 DEF CacheInv, StaleOnlyWhenOvertaken, Found, cacheVars
  <1> QED
    BY <1>1, <1>3, <1>4 DEF CacheInv

(* A publication: the product's callback is due from now on.               *)
LEMMA CachePublish ==
    ASSUME TypeInv, CacheTypes, CacheInv, NEW s \in Syncers, Publish(s)
    PROVE  CacheInv'
  <1>1. /\ UNCHANGED <<entries, reader, overtaken>>
        /\ notifying' = notifying \cup {s} /\ notifying \subseteq Syncers
        /\ sync[s].product \in Products
    BY DEF Publish, SyncPublish, CacheTypes, CacheTypeOK, TypeInv, LocalsOK
  <1>2. /\ sync'[s].pc = "record" /\ sync'[s].product = sync[s].product
        /\ \A t \in Syncers \ {s} : sync'[t] = sync[t]
        /\ \A q \in Products : q # sync[s].product => rows'[q] = rows[q]
    BY DEF Publish, SyncPublish, TypeInv, TypeOK, SyncState
  <1>3. CallbacksOK'
    BY <1>1, <1>2 DEF CacheInv, CallbacksOK
  <1>4. \A q \in Products : Notified(q)' =>
           Notified(q) /\ q # sync[s].product
    BY <1>1, <1>2 DEF Notified
  <1>5. \A q \in Products : q # sync[s].product => Current(q)' = Current(q)
    BY <1>2 DEF Current
  <1>6. FillsOK'
    BY <1>1, <1>4, <1>5 DEF CacheInv, FillsOK
  <1>7. StaleOnlyWhenOvertaken'
    BY <1>1, <1>4, <1>5 DEF CacheInv, StaleOnlyWhenOvertaken, Found
  <1> QED
    BY <1>3, <1>6, <1>7 DEF CacheInv

(* The callback: the entry goes, and the requests that read before it are  *)
(* crossed.                                                                *)
LEMMA CacheOnPublish ==
    ASSUME TypeInv, CacheTypes, CacheInv, NEW s \in Syncers, OnPublish(s)
    PROVE  CacheInv'
  <1>1. PICK p \in Products : p = sync[s].product
    BY DEF OnPublish, CacheInv, CallbacksOK, TypeInv, LocalsOK
  <1>2. /\ s \in notifying /\ notifying' = notifying \ {s}
        /\ UNCHANGED <<sync, rows>>
        /\ overtaken' = overtaken \ {p}
        /\ reader \in [Readers -> ReaderState] /\ entries \in [Products -> Entry]
    BY <1>1 DEF OnPublish, vars, CacheTypes, CacheTypeOK
  <1>3. entries'[p] = NoEntry /\ \A q \in Products : q # p => entries'[q] = entries[q]
    BY <1>1, <1>2 DEF OnPublish
  <1>4. ASSUME NEW r \in Readers
        PROVE  /\ reader'[r].pc = reader[r].pc /\ reader'[r].product = reader[r].product
               /\ reader'[r].manifest = reader[r].manifest
               /\ reader[r].pc = "fill" /\ reader[r].product = p => reader'[r].crossed
               /\ ~(reader[r].pc = "fill" /\ reader[r].product = p) =>
                     reader'[r].crossed = reader[r].crossed
    <2>1. reader[r] \in ReaderState
      BY <1>2
    <2>2. reader'[r] = IF reader[r].pc = "fill" /\ reader[r].product = p
                       THEN [reader[r] EXCEPT !.crossed = TRUE] ELSE reader[r]
      BY <1>1 DEF OnPublish, Crossing
    <2> QED
      BY <2>1, <2>2 DEF ReaderState
  <1>5. CallbacksOK'
    BY <1>2 DEF CacheInv, CallbacksOK
  <1>6. \A q \in Products : q # p /\ Notified(q)' => Notified(q)
    BY <1>1, <1>2 DEF Notified
  <1>7. \A q \in Products : Current(q)' = Current(q)
    BY <1>2 DEF Current
  <1>8. FillsOK'
    BY <1>4, <1>6, <1>7 DEF CacheInv, FillsOK
  <1>9. StaleOnlyWhenOvertaken'
    <2> SUFFICES ASSUME NEW q \in Products, Found(q)', Notified(q)', q \notin overtaken'
                 PROVE  entries'[q].manifest \in Current(q)'
      BY DEF StaleOnlyWhenOvertaken
    <2>1. q # p
      BY <1>3 DEF Found, NoEntry
    <2> QED
      BY <1>2, <1>3, <1>6, <1>7, <2>1 DEF CacheInv, StaleOnlyWhenOvertaken, Found
  <1> QED
    BY <1>5, <1>8, <1>9 DEF CacheInv

(* A request moves, and no entry is written.                               *)
LEMMA CacheReader ==
    ASSUME CacheTypes, CacheInv, NEW r \in Readers, NEW x \in ReaderState,
           reader' = [reader EXCEPT ![r] = x], UNCHANGED <<vars, entries, notifying, overtaken>>,
           x.crossed => x.pc = "fill",
           \A p \in Products : x.pc = "fill" /\ x.product = p /\ ~x.crossed /\ Notified(p) =>
                                  x.manifest \in Current(p)
    PROVE  CacheInv'
  <1>1. \A q \in Products : (Notified(q)' <=> Notified(q)) /\ Current(q)' = Current(q)
    BY DEF Notified, Current, vars
  <1>2. reader'[r] = x /\ \A k \in Readers : k # r => reader'[k] = reader[k]
    BY DEF CacheTypes, CacheTypeOK
  <1>3. CallbacksOK'
    BY DEF CacheInv, CallbacksOK, vars
  <1>4. FillsOK'
    BY <1>1, <1>2 DEF CacheInv, FillsOK
  <1>5. StaleOnlyWhenOvertaken'
    BY <1>1 DEF CacheInv, StaleOnlyWhenOvertaken, Found
  <1> QED
    BY <1>3, <1>4, <1>5 DEF CacheInv

(* The cache is filled: either with what is current, or by a request that  *)
(* an invalidation has crossed, and then the product is marked overtaken.  *)
LEMMA CacheFill ==
    ASSUME CacheTypes, CacheInv, NEW r \in Readers, Fill(r)
    PROVE  CacheInv'
  <1>1. PICK p \in Products : p = reader[r].product
    BY DEF Fill, CacheTypes, ReadersOK
  <1>2. /\ reader \in [Readers -> ReaderState] /\ entries \in [Products -> Entry]
        /\ reader[r].crossed \in BOOLEAN
    BY DEF CacheTypes, CacheTypeOK, ReaderState
  <1>3. \A q \in Products : (Notified(q)' <=> Notified(q)) /\ Current(q)' = Current(q)
    BY DEF Fill, Notified, Current, vars
  <1>4. /\ entries'[p] = [manifest |-> reader[r].manifest, age |-> "young"]
        /\ \A q \in Products : q # p => /\ entries'[q] = entries[q]
                                        /\ (q \in overtaken' <=> q \in overtaken)
        /\ reader[r].crossed => p \in overtaken'
    BY <1>1, <1>2 DEF Fill
  <1>5. /\ reader'[r].pc = "served" /\ ~reader'[r].crossed
        /\ \A k \in Readers : k # r => reader'[k] = reader[k]
    BY <1>2 DEF Fill, ReaderState
  <1>6. CallbacksOK'
    BY DEF Fill, CacheInv, CallbacksOK, vars
  <1>7. FillsOK'
    BY <1>3, <1>5 DEF CacheInv, FillsOK
  <1>8. StaleOnlyWhenOvertaken'
    <2> SUFFICES ASSUME NEW q \in Products, Found(q)', Notified(q)', q \notin overtaken'
                 PROVE  entries'[q].manifest \in Current(q)'
      BY DEF StaleOnlyWhenOvertaken
    <2>1. CASE q = p
      <3>1. ~reader[r].crossed /\ Notified(p) /\ reader[r].pc = "fill"
        BY <1>3, <1>4, <2>1 DEF Fill
      <3>2. reader[r].manifest \in Current(p)
        BY <1>1, <3>1 DEF CacheInv, FillsOK
      <3> QED
        BY <1>3, <1>4, <2>1, <3>2
    <2>2. CASE q # p
      <3>1. entries'[q] = entries[q] /\ q \notin overtaken /\ Notified(q) /\ Found(q)
        BY <1>3, <1>4, <2>2 DEF Found
      <3>2. entries[q].manifest \in Current(q)
        BY <3>1 DEF CacheInv, StaleOnlyWhenOvertaken
      <3> QED
        BY <1>3, <3>1, <3>2
    <2> QED
      BY <2>1, <2>2
  <1> QED
    BY <1>6, <1>7, <1>8 DEF CacheInv

(* Every step without a rollback keeps the invariant.                      *)
LEMMA CacheInvNext ==
    TypeInv /\ Inv /\ SupersededStaysBehind /\ CacheTypes /\ CacheInv
       /\ [CacheNextWithoutRollback]_allVars => CacheInv'
  <1> SUFFICES ASSUME TypeInv, Inv, SupersededStaysBehind, CacheTypes, CacheInv,
                      [CacheNextWithoutRollback]_allVars
               PROVE  CacheInv'
    OBVIOUS
  <1>1. /\ reader \in [Readers -> ReaderState] /\ entries \in [Products -> Entry]
        /\ notifying \subseteq Syncers
    BY DEF CacheTypes, CacheTypeOK
  <1>2. ASSUME NEW s \in Syncers, OtherSyncStep(s) PROVE CacheInv'
    <2>1. \A t \in notifying : sync'[t] = sync[t]
      BY <1>1, <1>2, DueSyncWaits DEF CacheInv
    <2>2. \A p \in Products : Current(p)' = Current(p)
      BY <1>2, OnlyPublicationChanges
    <2>3. UNCHANGED cacheVars
      BY <1>2 DEF OtherSyncStep
    <2> QED
      BY <2>1, <2>2, <2>3, CacheSame
  <1>3. CASE BackgroundStep
    <2>1. UNCHANGED sync /\ UNCHANGED cacheVars
      BY <1>3
         DEF BackgroundStep, DownloadLookup, DownloadStep, DownloadOpen, DownloadDone,
             CleanupList, CleanupStep, CleanupDelete, CleanupMark,
             CleanupMarkFails, CleanupEnd, UpstreamRelease, DeadlinePasses
    <2>2. \A p \in Products : Current(p)' = Current(p)
      BY <1>3, OnlyPublicationChanges
    <2> QED
      BY <2>1, <2>2, CacheSame
  <1>4. CASE UNCHANGED allVars
    <2>1. UNCHANGED cacheVars /\ UNCHANGED sync /\ UNCHANGED rows
      BY <1>4 DEF allVars, vars
    <2>2. \A p \in Products : Current(p)' = Current(p)
      BY <2>1 DEF Current
    <2> QED
      BY <2>1, <2>2, CacheSame
  <1>5. ASSUME NEW r \in Readers, NEW p \in Products, ServeCached(r, p) \/ Miss(r, p)
        PROVE  CacheInv'
    <2>1. PICK x : /\ reader' = [reader EXCEPT ![r] = x]
                   /\ x.pc # "fill" /\ x.crossed = reader[r].crossed
                   /\ x \in ReaderState
      <3>1. CASE ServeCached(r, p)
        <4> DEFINE x == [reader[r] EXCEPT !.pc = "served", !.product = p,
                                          !.manifest = entries[p].manifest]
        <4>1. entries[p].manifest \in Manifest \cup {NoManifest}
          BY <1>1 DEF Entry, NoEntry
        <4>2. reader' = [reader EXCEPT ![r] = x]
          BY <1>1, <3>1 DEF ServeCached
        <4>3. x \in ReaderState /\ x.pc # "fill" /\ x.crossed = reader[r].crossed
          BY <1>1, <4>1 DEF ReaderState
        <4> QED
          BY <4>2, <4>3
      <3>2. CASE Miss(r, p)
        <4> DEFINE x == [reader[r] EXCEPT !.pc = "query", !.product = p]
        <4>1. reader' = [reader EXCEPT ![r] = x]
          BY <1>1, <3>2 DEF Miss
        <4>2. x \in ReaderState /\ x.pc # "fill" /\ x.crossed = reader[r].crossed
          BY <1>1 DEF ReaderState
        <4> QED
          BY <4>1, <4>2
      <3> QED
        BY <1>5, <3>1, <3>2
    <2>2. ~reader[r].crossed /\ UNCHANGED <<vars, entries, notifying, overtaken>>
      BY <1>5 DEF ServeCached, Miss, CacheInv, FillsOK
    <2> QED
      BY <2>1, <2>2, CacheReader
  <1>6. ASSUME NEW r \in Readers, Query(r) PROVE CacheInv'
    <2>1. PICK p \in Products : p = reader[r].product
      BY <1>6 DEF Query, CacheTypes, ReadersOK
    <2>2. PICK v \in GetCurrentVersion(rows[p]) :
             reader' = [reader EXCEPT ![r].pc = "fill",
                          ![r].manifest = [version |-> v, sha256 |-> rows[p][v].sha256]]
      BY <1>6, <2>1 DEF Query
    <2>3. PICK m \in Manifest : m = [version |-> v, sha256 |-> rows[p][v].sha256]
      BY CurrentIsManifest DEF TypeInv
    <2>4. m \in Current(p)
      BY <2>3 DEF Current
    <2> DEFINE x == [reader[r] EXCEPT !.pc = "fill", !.manifest = m]
    <2>5. /\ reader' = [reader EXCEPT ![r] = x]
          /\ UNCHANGED <<vars, entries, notifying, overtaken>>
      BY <1>1, <1>6, <2>2, <2>3 DEF Query
    <2>6. x \in ReaderState /\ x.pc = "fill" /\ x.product = p /\ x.manifest = m
      BY <1>1, <2>1 DEF ReaderState
    <2> HIDE DEF x
    <2> QED
      BY <2>4, <2>5, <2>6, CacheReader
  <1>7. ASSUME NEW r \in Readers, QueryFails(r) \/ ServeDone(r) PROVE CacheInv'
    <2>1. /\ reader' = [reader EXCEPT ![r] = IdleReader]
          /\ UNCHANGED <<vars, entries, notifying, overtaken>>
      BY <1>7 DEF QueryFails, ServeDone
    <2>2. IdleReader \in ReaderState /\ IdleReader.pc # "fill" /\ ~IdleReader.crossed
      BY DEF IdleReader, ReaderState
    <2> QED
      BY <2>1, <2>2, CacheReader
  <1>8. ASSUME NEW p \in Products, TTLPasses(p) PROVE CacheInv'
    <2>1. /\ UNCHANGED <<vars, reader, notifying, overtaken>>
          /\ entries'[p].age # "young"
          /\ \A q \in Products : q # p => entries'[q] = entries[q]
      BY <1>1, <1>8 DEF TTLPasses, Entry, NoEntry
    <2>2. \A q \in Products : (Notified(q)' <=> Notified(q)) /\ Current(q)' = Current(q)
      BY <2>1 DEF Notified, Current, vars
    <2>3. CallbacksOK'
      BY <2>1 DEF CacheInv, CallbacksOK, vars
    <2>4. FillsOK'
      BY <2>1, <2>2 DEF CacheInv, FillsOK
    <2>5. StaleOnlyWhenOvertaken'
      BY <2>1, <2>2 DEF CacheInv, StaleOnlyWhenOvertaken, Found
    <2> QED
      BY <2>3, <2>4, <2>5 DEF CacheInv
  <1>9. CASE Restart
    <2>1. /\ notifying' = {}
          /\ \A p \in Products : entries'[p] = NoEntry
          /\ \A r \in Readers : reader'[r] = IdleReader
      BY <1>9 DEF Restart
    <2> QED
      BY <2>1 DEF CacheInv, CallbacksOK, FillsOK, StaleOnlyWhenOvertaken, Found, NoEntry,
                  IdleReader
  <1> QED
    BY <1>2, <1>3, <1>4, <1>5, <1>6, <1>7, <1>8, <1>9, CachePublish, CacheOnPublish, CacheFill
       DEF CacheNextWithoutRollback, ReaderStep

(* As long as nobody rolls back, an entry that is served and differs from  *)
(* the current version is either about to be invalidated by onPublish, or  *)
(* was filled by a request that had read its row before the invalidation:  *)
(* that race, and nothing else, makes the manifest stale until the TTL.    *)
THEOREM OnlyTheRaceIsStale == CacheSpecWithoutRollback => []StaleOnlyWhenOvertaken
  <1>1. CacheInit => CacheInv
    BY DEF CacheInit, CacheInv, CallbacksOK, FillsOK, StaleOnlyWhenOvertaken, Found, NoEntry,
           IdleReader
  <1>2. TypeInv /\ Inv /\ SupersededStaysBehind /\ CacheTypes /\ CacheInv
           /\ [CacheNextWithoutRollback]_allVars => CacheInv'
    BY CacheInvNext
  <1>3. CacheInv => StaleOnlyWhenOvertaken
    BY DEF CacheInv
  <1>4. CacheInit /\ TypeOK => CacheTypes
    BY CacheTypesInit
  <1>5. CacheTypes /\ TypeOK' /\ [CacheNextWithoutRollback]_allVars => CacheTypes'
    BY CacheTypesNext DEF CacheNext
  <1>6. TypeInv => TypeOK
    BY DEF TypeInv
  <1> QED
    BY <1>1, <1>2, <1>3, <1>4, <1>5, <1>6, CacheIsTransparentWithoutRollback, KeptInvariance,
       PTL DEF CacheSpecWithoutRollback
=============================================================================
