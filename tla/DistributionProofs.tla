------------------------- MODULE DistributionProofs -------------------------
(* Theorems about Distribution, for all products, builds and numbers of    *)
(* concurrent syncs, cleanups and downloads.                               *)
EXTENDS DistributionInv, CatalogProofs

(***************************************************************************)
(* Type correctness.                                                       *)
(***************************************************************************)
LEMMA TypeInit == Init => TypeInv
  <1> SUFFICES ASSUME Init PROVE TypeInv
    OBVIOUS
  <1>1. NoRow \in Row
    BY DEF NoRow, Row
  <1>2. EmptyTable \in Table
    BY <1>1 DEF EmptyTable, Table
  <1>3. 1 \in Builds
    BY MaxBuildAssumption DEF Builds
  <1>4. IdleSync \in SyncState /\ IdleCleaner \in CleanerState /\ IdleClient \in ClientState
    BY DEF IdleSync, SyncState, IdleCleaner, CleanerState, IdleClient, ClientState,
           Content, Statuses
  <1>5. TypeOK
    BY <1>2, <1>3, <1>4 DEF Init, TypeOK, Content, Statuses
  <1>6. LocalsOK
    BY DEF Init, LocalsOK, IdleSync, IdleClient, InFlight
  <1> QED
    BY <1>5, <1>6 DEF TypeInv

(* The steps of SyncProduct keep the types.                                *)
LEMMA TypeSync ==
    ASSUME TypeInv, NEW s \in Syncers,
           SyncStep(s) \/ \E p \in Products : SyncBegin(s, p)
    PROVE  TypeInv'
  <1> USE DEF TypeInv, TypeOK, LocalsOK, InFlight
  <1>1. sync[s] \in SyncState
    OBVIOUS
  <1>2. IdleSync \in SyncState
    BY DEF IdleSync, SyncState, Content, Statuses
  <1>3. ASSUME NEW p \in Products, SyncBegin(s, p) PROVE TypeInv'
    BY <1>1, <1>3 DEF SyncBegin, SyncState
  <1>4. CASE SyncLoadFails(s)
    BY <1>1, <1>2, <1>4 DEF SyncLoadFails, SyncState, IdleSync
  <1>5. CASE SyncLoad(s)
    <2>1. ASSUME NEW cur \in SUBSET Versions,
                 sync' = [sync EXCEPT ![s].pc = "download", ![s].current = cur]
          PROVE  TypeInv'
      BY <1>1, <1>5, <2>1 DEF SyncLoad, SyncState
    <2>2. CASE sync' = [sync EXCEPT ![s].pc = "download", ![s].current = {}]
      BY <1>1, <1>5, <2>2 DEF SyncLoad, SyncState
    <2>3. ASSUME NEW v \in GetCurrentVersion(rows[sync[s].product]),
                 sync' = [sync EXCEPT ![s].pc = "download", ![s].current = {v}]
          PROVE  TypeInv'
      <3>1. {v} \in SUBSET Versions
        BY DEF GetCurrentVersion
      <3> QED
        BY <2>1, <2>3, <3>1
    <2> QED
      BY <1>5, <2>2, <2>3 DEF SyncLoad
  <1>6. CASE SyncFails(s)
    <2>1. /\ sync[s].pc # "idle"
          /\ sync' = [sync EXCEPT ![s].pc = "record", ![s].status = "FAILED",
                                  ![s].staging = NoBuild]
          /\ UNCHANGED <<upstream, rows, artifacts, locks, sync_runs, cleaner, client>>
      BY <1>6 DEF SyncFails, Fail
    <2> QED
      BY <1>1, <2>1 DEF SyncState, Content, Statuses
  <1>7. CASE SyncNotModified(s)
    BY <1>1, <1>7 DEF SyncNotModified, SyncState, Statuses
  <1>8. CASE SyncDownload(s)
    BY <1>1, <1>8 DEF SyncDownload, SyncState
  <1>9. CASE SyncValidate(s)
    BY <1>1, <1>9 DEF SyncValidate, SyncState, Content
  <1>10. CASE SyncStage(s)
    BY <1>1, <1>10 DEF SyncStage, SyncState, Content
  <1>11. CASE SyncCommit(s)
    BY <1>1, <1>11, DateIsVersion DEF SyncCommit, SyncState, Content
  <1>12. CASE SyncPublish(s)
    <2>1. PublishNewVersion(rows[sync[s].product], BuildDate[sync[s].build], sync[s].build) \in Table
      BY <1>12, PublishRows, DateIsVersion DEF SyncPublish
    <2> QED
      BY <1>1, <1>12, <2>1 DEF SyncPublish, SyncState, Statuses
  <1>13. CASE SyncRecord(s)
    BY <1>1, <1>2, <1>13 DEF SyncRecord, SyncState, IdleSync
  <1> QED
    BY <1>3, <1>4, <1>5, <1>6, <1>7, <1>8, <1>9, <1>10, <1>11, <1>12, <1>13 DEF SyncStep

(* The steps of RunCleanup keep the types.                                 *)
LEMMA TypeCleanup ==
    ASSUME TypeInv, NEW c \in Cleaners, CleanupList(c) \/ CleanupStep(c)
    PROVE  TypeInv'
  <1> USE DEF TypeInv, TypeOK, LocalsOK, InFlight
  <1>1. /\ cleaner[c] \in CleanerState
        /\ cleaner[c].todo \subseteq Listed
        /\ cleaner[c].at \subseteq Listed
    BY DEF CleanerState
  <1>2. IdleCleaner \in CleanerState
    BY DEF IdleCleaner, CleanerState
  <1>3. CASE CleanupList(c)
    <2> DEFINE list == UNION {{[product |-> p, version |-> v,
                               storage_path |-> rows[p][v].storage_path] :
                                 v \in GetExpiredVersions(rows[p])} : p \in Products}
    <2>1. \A p \in Products : \A v \in Versions :
             rows[p][v].storage_path \in {"", "stored"}
      BY DEF Table, Row
    <2>2. list \subseteq Listed
      <3> SUFFICES ASSUME NEW e \in list PROVE e \in Listed
        OBVIOUS
      <3>1. PICK p \in Products : \E v \in GetExpiredVersions(rows[p]) :
              e = [product |-> p, version |-> v, storage_path |-> rows[p][v].storage_path]
        OBVIOUS
      <3>2. PICK v \in Versions :
              e = [product |-> p, version |-> v, storage_path |-> rows[p][v].storage_path]
        BY <3>1 DEF GetExpiredVersions
      <3> QED
        BY <2>1, <3>2 DEF Listed
    <2>3. [pc |-> "scan", todo |-> list, at |-> {}] \in CleanerState
      BY <2>2 DEF CleanerState
    <2>4. cleaner' = [cleaner EXCEPT ![c] = [pc |-> "scan", todo |-> list, at |-> {}]]
      BY <1>3 DEF CleanupList
    <2> HIDE DEF list
    <2> QED
      BY <1>3, <2>3, <2>4 DEF CleanupList
  <1>4. CASE CleanupDelete(c)
    <2>1. PICK e \in cleaner[c].todo :
             /\ \E left \in {NoBuild, artifacts[e.product][e.version]} :
                   artifacts' = [artifacts EXCEPT ![e.product][e.version] = left]
             /\ cleaner' = [cleaner EXCEPT ![c] =
                              [pc |-> "mark", todo |-> cleaner[c].todo \ {e}, at |-> {e}]]
      BY <1>4 DEF CleanupDelete
    <2>2. e \in Listed /\ e.product \in Products /\ e.version \in Versions
      BY <1>1 DEF Listed
    <2>3. [pc |-> "mark", todo |-> cleaner[c].todo \ {e}, at |-> {e}] \in CleanerState
      BY <1>1, <2>2 DEF CleanerState
    <2>4. artifacts' \in [Products -> [Versions -> Content]]
      BY <2>1, <2>2 DEF Content
    <2> QED
      BY <1>4, <2>1, <2>3, <2>4 DEF CleanupDelete
  <1>5. CASE CleanupMark(c)
    <2>1. PICK e \in cleaner[c].at :
             rows' = [rows EXCEPT ![e.product] = MarkVersionDeleted(@, e.version)]
      BY <1>5 DEF CleanupMark
    <2>2. e.product \in Products /\ e.version \in Versions
      BY <1>1 DEF Listed
    <2>3. MarkVersionDeleted(rows[e.product], e.version) \in Table
      BY <2>2, MarkRows
    <2>4. cleaner' \in [Cleaners -> CleanerState]
      BY <1>1, <1>5 DEF CleanupMark, CleanerState
    <2> QED
      BY <1>5, <2>1, <2>3, <2>4 DEF CleanupMark
  <1>6. CASE CleanupMarkFails(c)
    BY <1>1, <1>6 DEF CleanupMarkFails, CleanerState
  <1>7. CASE CleanupEnd(c)
    BY <1>2, <1>7 DEF CleanupEnd
  <1> QED
    BY <1>3, <1>4, <1>5, <1>6, <1>7 DEF CleanupStep

(* The steps of the download handler keep the types.                       *)
LEMMA TypeDownload ==
    ASSUME TypeInv, NEW c \in Clients,
           DownloadStep(c) \/ \E p \in Products, v \in Versions : DownloadLookup(c, p, v)
    PROVE  TypeInv'
  <1> USE DEF TypeInv, TypeOK, LocalsOK, InFlight
  <1>1. client[c] \in ClientState /\ IdleClient \in ClientState
    BY DEF IdleClient, ClientState, Content
  <1>2. ASSUME NEW p \in Products, NEW v \in Versions, DownloadLookup(c, p, v)
        PROVE  TypeInv'
    <2>1. rows[p][v] \in Row
      BY DEF Table
    <2>2. rows[p][v].sha256 \in Builds \cup {NoBuild}
      BY <2>1 DEF Row
    <2> QED
      BY <1>2, <2>2 DEF DownloadLookup, ClientState, Content
  <1>3. CASE DownloadOpen(c)
    <2> DEFINE file == artifacts[client[c].product][client[c].version]
    <2>1. file \in Content
      BY <1>3 DEF DownloadOpen
    <2>2. CASE client' = [client EXCEPT ![c] = IdleClient]
      BY <1>1, <1>3, <2>2 DEF DownloadOpen, IdleClient
    <2>3. CASE client' = [client EXCEPT ![c].pc = "served", ![c].body = file]
      <3>1. client' = [client EXCEPT ![c] = [client[c] EXCEPT !.pc = "served", !.body = file]]
        BY <2>3
      <3>2. client[c].pc # "idle"
        BY <1>3 DEF DownloadOpen
      <3> QED
        <4>1. [client[c] EXCEPT !.pc = "served", !.body = file] \in ClientState
          BY <1>1, <2>1 DEF ClientState
        <4> HIDE DEF file
        <4>2. LocalsOK'
          <5>1. \A k \in Clients :  /\ client'[k].product = client[k].product
                                    /\ client'[k].version = client[k].version
                                    /\ client'[k].pc # "idle" => client[k].pc # "idle"
            BY <1>1, <3>1, <3>2 DEF ClientState
          <5>2. sync' = sync
            BY <1>3 DEF DownloadOpen
          <5>3. ASSUME NEW k \in Clients, client'[k].pc # "idle"
                PROVE  client'[k].product \in Products /\ client'[k].version \in Versions
            BY <5>1, <5>3
          <5>4. ASSUME NEW s \in Syncers
                PROVE  /\ sync'[s].pc # "idle" => sync'[s].product \in Products
                       /\ sync'[s].pc \in InFlight => sync'[s].build \in Builds
            BY <5>2
          <5> QED
            BY <5>3, <5>4
        <4>3. TypeOK'
          BY <1>3, <3>1, <4>1 DEF DownloadOpen
        <4> QED
          BY <4>2, <4>3
    <2> QED
      BY <1>3, <2>2, <2>3 DEF DownloadOpen
  <1>4. CASE DownloadDone(c)
    BY <1>1, <1>4 DEF DownloadDone, IdleClient
  <1> QED
    BY <1>2, <1>3, <1>4 DEF DownloadStep

(* Rollback, releases, deadlines and crashes keep the types.               *)
LEMMA TypeEnvironment ==
    ASSUME TypeInv,
           \/ \E p \in Products : \/ UpstreamRelease(p)
                                  \/ \E v \in Versions : Rollback(p, v) \/ DeadlinePasses(p, v)
           \/ Crash
    PROVE  TypeInv'
  <1> USE DEF TypeInv, TypeOK, LocalsOK, InFlight
  <1>1. ASSUME NEW p \in Products, UpstreamRelease(p) PROVE TypeInv'
    <2>1. upstream[p] + 1 \in Builds
      BY <1>1, MaxBuildAssumption DEF UpstreamRelease, Builds
    <2> QED
      BY <1>1, <2>1 DEF UpstreamRelease
  <1>2. ASSUME NEW p \in Products, NEW v \in Versions, Rollback(p, v) PROVE TypeInv'
    <2>1. RollbackToVersion(rows[p], v) \in Table
      BY RollbackRows
    <2> QED
      BY <1>2, <2>1 DEF Rollback
  <1>3. ASSUME NEW p \in Products, NEW v \in Versions, DeadlinePasses(p, v) PROVE TypeInv'
    <2>1. rows[p] \in Table /\ rows[p][v] \in Row
      BY DEF Table
    <2>2. [rows[p][v] EXCEPT !.cleanup_deadline = "passed"] \in Row
      BY <2>1 DEF Row
    <2>3. [rows[p] EXCEPT ![v].cleanup_deadline = "passed"] \in Table
      BY <2>1, <2>2 DEF Table
    <2> QED
      BY <1>3, <2>3 DEF DeadlinePasses
  <1>4. CASE Crash
    <2>1. IdleSync \in SyncState /\ IdleCleaner \in CleanerState /\ IdleClient \in ClientState
      BY DEF IdleSync, SyncState, IdleCleaner, CleanerState, IdleClient, ClientState,
             Content, Statuses
    <2> QED
      BY <1>4, <2>1 DEF Crash, IdleSync, IdleClient
  <1> QED
    BY <1>1, <1>2, <1>3, <1>4

(* Every step of the service keeps the types.                              *)
LEMMA TypeNext == TypeInv /\ [Next]_vars => TypeInv'
  <1> SUFFICES ASSUME TypeInv, [Next]_vars PROVE TypeInv'
    OBVIOUS
  <1>1. CASE UNCHANGED vars
    BY <1>1 DEF vars, TypeInv, TypeOK, LocalsOK
  <1> QED
    BY <1>1, TypeSync, TypeCleanup, TypeDownload, TypeEnvironment
       DEF Next, NextWithoutRollback

(* Every variable keeps its type in every behaviour of the service: no     *)
(* step of a sync, cleanup or download acts on a product, version or build *)
(* it does not have.                                                       *)
THEOREM TypeCorrect == Spec => [](TypeOK /\ LocalsOK)
  <1>1. Init => TypeInv
    BY TypeInit
  <1>2. TypeInv /\ [Next]_vars => TypeInv'
    BY TypeNext
  <1>3. TypeInv => TypeOK /\ LocalsOK
    BY DEF TypeInv
  <1> QED
    BY <1>1, <1>2, <1>3, PTL DEF Spec

(***************************************************************************)
(* The inductive invariant of the service with rollbacks.                  *)
(***************************************************************************)
LEMMA Numbers ==
    ASSUME TypeInv
    PROVE  /\ \A b \in Builds : b \in Nat /\ b # NoBuild
           /\ \A p \in Products :
                /\ rows[p] \in Table
                /\ upstream[p] \in Builds
                /\ \A v \in Versions :
                      /\ rows[p][v] \in Row
                      /\ rows[p][v].sha256 \in Builds \cup {NoBuild}
                      /\ rows[p][v].released_at \in Builds \cup {NoBuild}
                      /\ artifacts[p][v] \in Nat
           /\ \A s \in Syncers : sync[s] \in SyncState
  <1>1. \A b \in Builds : b \in Nat /\ b # NoBuild
    BY MaxBuildAssumption DEF Builds, NoBuild
  <1>2. \A p \in Products : rows[p] \in Table /\ upstream[p] \in Builds
    BY DEF TypeInv, TypeOK
  <1>3. \A p \in Products : \A v \in Versions : rows[p][v] \in Row
    BY <1>2 DEF Table
  <1>4. \A c \in Content : c \in Nat
    BY <1>1, MaxBuildAssumption DEF Content, Partial, NoBuild
  <1>5. \A p \in Products : \A v \in Versions : artifacts[p][v] \in Nat
    BY <1>4 DEF TypeInv, TypeOK
  <1>6. \A s \in Syncers : sync[s] \in SyncState
    BY DEF TypeInv, TypeOK
  <1> QED
    BY <1>1, <1>2, <1>3, <1>5, <1>6 DEF Row

(* An empty service satisfies the invariant.                               *)
LEMMA InvInit == Init => Inv
  <1> SUFFICES ASSUME Init PROVE Inv
    OBVIOUS
  <1>1. OneSyncPerProduct
    BY DEF Init, OneSyncPerProduct, IdleSync
  <1>2. NewestInFlight
    BY DEF Init, NewestInFlight, IdleSync, InFlight
  <1>3. \A p \in Products : \A v \in Versions :
           rows[p][v] = NoRow /\ artifacts[p][v] = NoBuild /\ upstream[p] = 1
    BY DEF Init, EmptyTable
  <1>4. CatalogOK
    <2>1. /\ NoRow.sha256 = 0 /\ NoRow.released_at = 0 /\ ~NoRow.is_current
      BY DEF NoRow, NoBuild
    <2>2. \A p \in Products : OneCurrent(rows[p]) /\ Scheduled(rows[p])
      BY <1>3, <2>1 DEF OneCurrent, Scheduled, Exists, NoBuild
    <2> QED
      BY <1>3, <2>1, <2>2 DEF CatalogOK, Exists, NoBuild
  <1> QED
    BY <1>1, <1>2, <1>4 DEF Inv

(* A step of one sync that only changes its own locals.                    *)
LEMMA LocalStep ==
    ASSUME Inv, NEW s \in Syncers, sync[s].pc # "idle",
           \A t \in Syncers \ {s} : sync'[t] = sync[t],
           sync'[s].product = sync[s].product,
           sync'[s].pc # "publish",
           sync'[s].pc \in InFlight =>
              /\ sync'[s].build <= upstream[sync[s].product]
              /\ \A v \in Versions :
                    /\ rows[sync[s].product][v].sha256 <= sync'[s].build
                    /\ artifacts[sync[s].product][v] <= sync'[s].build
              /\ sync'[s].pc = "commit" => sync'[s].staging = sync'[s].build,
           UNCHANGED <<upstream, rows, artifacts, locks>>
    PROVE  Inv'
  <1>1. OneSyncPerProduct'
    BY DEF Inv, OneSyncPerProduct
  <1>2. CatalogOK'
    BY DEF Inv, CatalogOK
  <1>3. NewestInFlight'
    BY DEF Inv, NewestInFlight
  <1> QED
    BY <1>1, <1>2, <1>3 DEF Inv

(* A sync that returns and unlocks keeps the invariant.                    *)
LEMMA InvSyncEnds ==
    ASSUME Inv, NEW s \in Syncers, sync[s].pc # "idle",
           sync' = [sync EXCEPT ![s] = IdleSync], TypeInv,
           locks' = locks \ {sync[s].product},
           UNCHANGED <<upstream, rows, artifacts>>
    PROVE  Inv'
  <1>1. /\ sync'[s].pc = "idle"
        /\ \A t \in Syncers \ {s} : sync'[t] = sync[t]
    BY DEF IdleSync, TypeInv, TypeOK
  <1>2. OneSyncPerProduct'
    BY <1>1 DEF Inv, OneSyncPerProduct
  <1>3. CatalogOK'
    BY DEF Inv, CatalogOK
  <1>4. NewestInFlight'
    BY <1>1 DEF Inv, NewestInFlight, InFlight
  <1> QED
    BY <1>2, <1>3, <1>4 DEF Inv

(* So does the rename: the staged build is the newest of its product.      *)
LEMMA InvSyncCommit ==
    ASSUME TypeInv, Inv, NEW s \in Syncers, SyncCommit(s)
    PROVE  Inv'
  <1> DEFINE p == sync[s].product
             b == sync[s].build
             d == BuildDate[b]
  <1>1. /\ p \in Products /\ b \in Builds /\ d \in Versions
        /\ sync[s].pc = "commit"
        /\ sync[s].pc \in InFlight
    BY DateIsVersion DEF SyncCommit, InFlight, TypeInv, LocalsOK
  <1>2. /\ sync[s].staging = b
        /\ b <= upstream[p]
        /\ \A v \in Versions : rows[p][v].sha256 <= b /\ artifacts[p][v] <= b
    BY <1>1 DEF Inv, NewestInFlight
  <1>3. /\ artifacts' = [artifacts EXCEPT ![p][d] = b]
        /\ UNCHANGED <<upstream, rows, locks>>
    BY <1>2 DEF SyncCommit
  <1>4. /\ \A t \in Syncers \ {s} : sync'[t] = sync[t]
        /\ sync'[s].product = p /\ sync'[s].build = b /\ sync'[s].pc = "publish"
    BY DEF SyncCommit, TypeInv, TypeOK, SyncState
  <1>5. /\ artifacts'[p][d] = b
        /\ \A v \in Versions : v # d => artifacts'[p][v] = artifacts[p][v]
        /\ \A q \in Products : q # p => artifacts'[q] = artifacts[q]
    BY <1>1, <1>3 DEF TypeInv, TypeOK
  <1>6. b \in Nat
    BY <1>1, Numbers
  <1> HIDE DEF p, b, d
  <1>7. OneSyncPerProduct'
    BY <1>1, <1>3, <1>4 DEF Inv, OneSyncPerProduct, p
  <1>8. CatalogOK'
    <2>1. \A q \in Products : OneCurrent(rows'[q]) /\ Scheduled(rows'[q])
      BY <1>3 DEF Inv, CatalogOK
    <2>2. ASSUME NEW q \in Products, NEW v \in Versions
          PROVE  /\ Exists(rows'[q][v]) => BuildDate[rows'[q][v].sha256] = v
                 /\ rows'[q][v].released_at <= rows'[q][v].sha256
                 /\ rows'[q][v].sha256 <= upstream'[q]
      BY <1>3 DEF Inv, CatalogOK
    <2>3. ASSUME NEW q \in Products, NEW v \in Versions, artifacts'[q][v] # NoBuild
          PROVE  /\ artifacts'[q][v] \in Builds
                 /\ BuildDate[artifacts'[q][v]] = v
                 /\ rows'[q][v].sha256 <= artifacts'[q][v]
                 /\ artifacts'[q][v] <= upstream'[q]
      <3>1. CASE q = p /\ v = d
        BY <1>1, <1>2, <1>3, <1>5, <3>1 DEF d
      <3>2. CASE ~(q = p /\ v = d)
        BY <1>3, <1>5, <2>3, <3>2 DEF Inv, CatalogOK
      <3> QED
        BY <3>1, <3>2
    <2> QED
      BY <2>1, <2>2, <2>3 DEF CatalogOK
  <1>9. NewestInFlight'
    <2> SUFFICES ASSUME NEW t \in Syncers, (sync[t].pc \in InFlight)'
                 PROVE  /\ sync'[t].build <= upstream'[sync'[t].product]
                        /\ \A v \in Versions :
                              /\ rows'[sync'[t].product][v].sha256 <= sync'[t].build
                              /\ artifacts'[sync'[t].product][v] <= sync'[t].build
                        /\ sync'[t].pc = "commit" => sync'[t].staging = sync'[t].build
                        /\ sync'[t].pc = "publish" =>
                              artifacts'[sync'[t].product][BuildDate[sync'[t].build]]
                                \in {NoBuild, sync'[t].build}
      BY DEF NewestInFlight
    <2>1. CASE t = s
      BY <1>2, <1>3, <1>4, <1>5, <1>6, <2>1 DEF d
    <2>2. CASE t # s
      <3>1. sync[t].product # p /\ sync[t].product \in Products
        BY <1>1, <1>4, <2>2 DEF Inv, OneSyncPerProduct, InFlight, p, TypeInv, LocalsOK
      <3> QED
        BY <1>3, <1>4, <1>5, <2>2, <3>1 DEF Inv, NewestInFlight
    <2> QED
      BY <2>1, <2>2
  <1> QED
    BY <1>7, <1>8, <1>9 DEF Inv

(* So does the publication: its build is the newest of its product.        *)
LEMMA InvSyncPublish ==
    ASSUME TypeInv, Inv, NEW s \in Syncers, SyncPublish(s)
    PROVE  Inv'
  <1> DEFINE p == sync[s].product
             b == sync[s].build
             d == BuildDate[b]
             t == PublishNewVersion(rows[p], d, b)
  <1>1. /\ p \in Products /\ b \in Builds /\ d \in Versions
        /\ sync[s].pc \in InFlight
    BY DateIsVersion DEF SyncPublish, InFlight, TypeInv, LocalsOK
  <1>2. /\ b <= upstream[p]
        /\ \A v \in Versions : rows[p][v].sha256 <= b /\ artifacts[p][v] <= b
        /\ artifacts[p][d] \in {NoBuild, b}
    BY <1>1 DEF Inv, NewestInFlight, SyncPublish
  <1>3. /\ rows' = [rows EXCEPT ![p] = t]
        /\ UNCHANGED <<upstream, artifacts, locks>>
    BY DEF SyncPublish
  <1>4. /\ \A u \in Syncers \ {s} : sync'[u] = sync[u]
        /\ sync'[s].product = p /\ sync'[s].pc = "record"
    BY DEF SyncPublish, TypeInv, TypeOK, SyncState
  <1>5. rows'[p] = t /\ \A q \in Products : q # p => rows'[q] = rows[q]
    BY <1>1, <1>3 DEF TypeInv, TypeOK
  <1>6. rows[p] \in Table /\ Scheduled(rows[p]) /\ b \in Nat
    BY <1>1, Numbers DEF Inv, CatalogOK
  <1>7. OneCurrent(t) /\ Scheduled(t)
    BY <1>1, <1>6, PublishKeepsCatalog
  <1>8. /\ t[d].sha256 = b
        /\ t[d].released_at = IF Exists(rows[p][d]) THEN rows[p][d].released_at ELSE b
        /\ \A v \in Versions \ {d} : /\ t[v].sha256 = rows[p][v].sha256
                                      /\ t[v].released_at = rows[p][v].released_at
    BY <1>1, <1>6, PublishRows, SupersedeRows
  <1>9. rows[p][d].released_at <= b
    <2>1. /\ rows[p][d].released_at <= rows[p][d].sha256
          /\ rows[p][d].sha256 <= b
      BY <1>1, <1>2 DEF Inv, CatalogOK
    <2> QED
      BY <1>1, <2>1, Numbers DEF NoBuild
  <1> HIDE DEF p, b, d, t
  <1>10. OneSyncPerProduct'
    BY <1>1, <1>3, <1>4 DEF Inv, OneSyncPerProduct, p, InFlight
  <1>11. CatalogOK'
    <2>1. \A q \in Products : OneCurrent(rows'[q]) /\ Scheduled(rows'[q])
      BY <1>5, <1>7 DEF Inv, CatalogOK
    <2>2. ASSUME NEW q \in Products, NEW v \in Versions
          PROVE  /\ Exists(rows'[q][v]) => BuildDate[rows'[q][v].sha256] = v
                 /\ rows'[q][v].released_at <= rows'[q][v].sha256
                 /\ rows'[q][v].sha256 <= upstream'[q]
                 /\ artifacts'[q][v] # NoBuild =>
                       /\ artifacts'[q][v] \in Builds
                       /\ BuildDate[artifacts'[q][v]] = v
                       /\ rows'[q][v].sha256 <= artifacts'[q][v]
                       /\ artifacts'[q][v] <= upstream'[q]
      <3>1. CASE q = p /\ v = d
        <4>1. Exists(rows'[q][v]) => BuildDate[rows'[q][v].sha256] = v
          BY <1>5, <1>8, <3>1 DEF d
        <4>2. rows'[q][v].released_at <= rows'[q][v].sha256
          BY <1>5, <1>6, <1>8, <1>9, <3>1
        <4>3. rows'[q][v].sha256 <= upstream'[q]
          BY <1>2, <1>3, <1>5, <1>8, <3>1
        <4>4. ASSUME artifacts[p][d] # NoBuild
              PROVE  b <= artifacts[p][d]
          BY <1>2, <1>6, <4>4
        <4> QED
          BY <1>1, <1>3, <1>5, <1>8, <3>1, <4>1, <4>2, <4>3, <4>4 DEF Inv, CatalogOK
      <3>2. CASE ~(q = p /\ v = d)
        BY <1>3, <1>5, <1>8, <3>2 DEF Inv, CatalogOK, Exists
      <3> QED
        BY <3>1, <3>2
    <2> QED
      BY <2>1, <2>2 DEF CatalogOK
  <1>12. NewestInFlight'
    <2> SUFFICES ASSUME NEW u \in Syncers, (sync[u].pc \in InFlight)'
                 PROVE  /\ sync'[u].build <= upstream'[sync'[u].product]
                        /\ \A v \in Versions :
                              /\ rows'[sync'[u].product][v].sha256 <= sync'[u].build
                              /\ artifacts'[sync'[u].product][v] <= sync'[u].build
                        /\ sync'[u].pc = "commit" => sync'[u].staging = sync'[u].build
                        /\ sync'[u].pc = "publish" =>
                              artifacts'[sync'[u].product][BuildDate[sync'[u].build]]
                                \in {NoBuild, sync'[u].build}
      BY DEF NewestInFlight
    <2>1. u # s
      BY <1>4 DEF InFlight
    <2>2. sync[u].product # p /\ sync[u].product \in Products
      BY <1>1, <1>4, <2>1 DEF Inv, OneSyncPerProduct, InFlight, p, TypeInv, LocalsOK
    <2> QED
      BY <1>3, <1>4, <1>5, <2>1, <2>2 DEF Inv, NewestInFlight
  <1> QED
    BY <1>10, <1>11, <1>12 DEF Inv

(* Every step of SyncProduct keeps the invariant.                          *)
LEMMA InvSync ==
    ASSUME TypeInv, Inv, NEW s \in Syncers,
           SyncStep(s) \/ \E p \in Products : SyncBegin(s, p)
    PROVE  Inv'
  <1>1. sync[s] \in SyncState /\ DOMAIN sync = Syncers
    BY DEF TypeInv, TypeOK
  <1>2. ASSUME NEW p \in Products, SyncBegin(s, p) PROVE Inv'
    <2>1. /\ \A t \in Syncers \ {s} : sync'[t] = sync[t]
          /\ sync'[s].pc = "load" /\ sync'[s].product = p
          /\ locks' = locks \cup {p} /\ p \notin locks
          /\ UNCHANGED <<upstream, rows, artifacts>>
      BY <1>2 DEF SyncBegin, TypeInv, TypeOK, SyncState
    <2>2. OneSyncPerProduct'
      BY <2>1 DEF Inv, OneSyncPerProduct
    <2>3. CatalogOK'
      BY <2>1 DEF Inv, CatalogOK
    <2>4. NewestInFlight'
      BY <2>1 DEF Inv, NewestInFlight, InFlight
    <2> QED
      BY <2>2, <2>3, <2>4 DEF Inv
  <1>3. CASE SyncLoadFails(s)
    BY <1>3, InvSyncEnds DEF SyncLoadFails
  <1>4. CASE SyncLoad(s)
    <2>1. /\ \A t \in Syncers \ {s} : sync'[t] = sync[t]
          /\ sync'[s].pc = "download" /\ sync'[s].product = sync[s].product
          /\ sync[s].pc = "load"
          /\ UNCHANGED <<upstream, rows, artifacts, locks>>
      BY <1>1, <1>4 DEF SyncLoad, TypeInv, TypeOK, SyncState
    <2> QED
      BY <2>1, LocalStep DEF InFlight
  <1>5. CASE SyncFails(s)
    <2>1. /\ sync[s].pc # "idle"
          /\ sync' = [sync EXCEPT ![s].pc = "record", ![s].status = "FAILED",
                                  ![s].staging = NoBuild]
          /\ UNCHANGED <<upstream, rows, artifacts, locks, sync_runs, cleaner, client>>
      BY <1>5 DEF SyncFails, Fail
    <2>2. /\ \A t \in Syncers \ {s} : sync'[t] = sync[t]
          /\ sync'[s].pc = "record" /\ sync'[s].product = sync[s].product
      BY <1>1, <2>1 DEF TypeInv, TypeOK, SyncState
    <2> QED
      BY <2>1, <2>2, LocalStep DEF InFlight
  <1>6. CASE SyncNotModified(s)
    <2>1. /\ \A t \in Syncers \ {s} : sync'[t] = sync[t]
          /\ sync'[s].pc = "record" /\ sync'[s].product = sync[s].product
          /\ sync[s].pc = "download"
          /\ UNCHANGED <<upstream, rows, artifacts, locks>>
      BY <1>1, <1>6 DEF SyncNotModified, TypeInv, TypeOK, SyncState
    <2> QED
      BY <2>1, LocalStep DEF InFlight
  <1>7. CASE SyncDownload(s)
    <2>1. /\ \A t \in Syncers \ {s} : sync'[t] = sync[t]
          /\ sync'[s].pc = "validate" /\ sync'[s].product = sync[s].product
          /\ sync'[s].build = upstream[sync[s].product]
          /\ sync[s].pc = "download" /\ sync[s].product \in Products
          /\ UNCHANGED <<upstream, rows, artifacts, locks>>
      BY <1>1, <1>7 DEF SyncDownload, TypeInv, TypeOK, LocalsOK, SyncState
    <2>2. \A v \in Versions :
             /\ rows[sync[s].product][v].sha256 <= upstream[sync[s].product]
             /\ artifacts[sync[s].product][v] <= upstream[sync[s].product]
      BY <2>1, Numbers DEF Inv, CatalogOK, NoBuild
    <2>3. upstream[sync[s].product] <= upstream[sync[s].product]
      BY <2>1, Numbers
    <2> QED
      BY <2>1, <2>2, <2>3, LocalStep
  <1>8. CASE SyncValidate(s) \/ SyncStage(s)
    <2>1. /\ \A t \in Syncers \ {s} : sync'[t] = sync[t]
          /\ sync'[s].product = sync[s].product /\ sync'[s].build = sync[s].build
          /\ sync'[s].pc \in {"stage", "commit"}
          /\ sync'[s].pc = "commit" => sync'[s].staging = sync[s].build
          /\ sync[s].pc # "idle" /\ sync[s].pc \in InFlight
          /\ UNCHANGED <<upstream, rows, artifacts, locks>>
      BY <1>1, <1>8 DEF SyncValidate, SyncStage, TypeInv, TypeOK, SyncState, InFlight
    <2>2. /\ sync[s].build <= upstream[sync[s].product]
          /\ \A v \in Versions :
                /\ rows[sync[s].product][v].sha256 <= sync[s].build
                /\ artifacts[sync[s].product][v] <= sync[s].build
      BY <2>1 DEF Inv, NewestInFlight
    <2> QED
      BY <2>1, <2>2, LocalStep
  <1>9. CASE SyncRecord(s)
    BY <1>9, InvSyncEnds DEF SyncRecord
  <1> QED
    BY <1>2, <1>3, <1>4, <1>5, <1>6, <1>7, <1>8, <1>9, InvSyncCommit, InvSyncPublish
       DEF SyncStep

(* A step that keeps the digests, the files or drops them, and the syncs.  *)
LEMMA CatalogStep ==
    ASSUME TypeInv, Inv, TypeInv',
           UNCHANGED <<sync, locks>>,
           \A p \in Products :
              /\ OneCurrent(rows'[p]) /\ Scheduled(rows'[p])
              /\ upstream[p] <= upstream'[p]
              /\ \A v \in Versions :
                    /\ rows'[p][v].sha256 = rows[p][v].sha256
                    /\ rows'[p][v].released_at = rows[p][v].released_at
                    /\ artifacts'[p][v] \in {artifacts[p][v], NoBuild}
    PROVE  Inv'
  <1>1. OneSyncPerProduct'
    BY DEF Inv, OneSyncPerProduct
  <1>2. ASSUME NEW p \in Products
        PROVE  upstream[p] \in Nat /\ upstream'[p] \in Nat /\ upstream[p] <= upstream'[p]
    <2>1. upstream'[p] \in Builds
      BY DEF TypeInv, TypeOK
    <2> QED
      BY <2>1, Numbers
  <1>3. CatalogOK'
    <2>1. ASSUME NEW p \in Products, NEW v \in Versions
          PROVE  /\ Exists(rows'[p][v]) => BuildDate[rows'[p][v].sha256] = v
                 /\ rows'[p][v].released_at <= rows'[p][v].sha256
      BY DEF Inv, CatalogOK, Exists
    <2>2. ASSUME NEW p \in Products, NEW v \in Versions
          PROVE  rows'[p][v].sha256 <= upstream'[p]
      <3>1. rows[p][v].sha256 \in Nat /\ rows[p][v].sha256 <= upstream[p]
        BY Numbers DEF Inv, CatalogOK, NoBuild
      <3> QED
        BY <1>2, <3>1
    <2>3. ASSUME NEW p \in Products, NEW v \in Versions, artifacts'[p][v] # NoBuild
          PROVE  /\ artifacts'[p][v] \in Builds
                 /\ BuildDate[artifacts'[p][v]] = v
                 /\ rows'[p][v].sha256 <= artifacts'[p][v]
                 /\ artifacts'[p][v] <= upstream'[p]
      <3>1. artifacts'[p][v] = artifacts[p][v]
        BY <2>3
      <3>2. /\ artifacts[p][v] \in Builds
            /\ BuildDate[artifacts[p][v]] = v
            /\ rows[p][v].sha256 <= artifacts[p][v]
            /\ artifacts[p][v] <= upstream[p]
        BY <2>3, <3>1 DEF Inv, CatalogOK
      <3> QED
        BY <1>2, <3>1, <3>2, Numbers
    <2> QED
      BY <2>1, <2>2, <2>3 DEF CatalogOK
  <1>4. NewestInFlight'
    <2> SUFFICES ASSUME NEW s \in Syncers, sync[s].pc \in InFlight
                 PROVE  /\ sync[s].build <= upstream'[sync[s].product]
                        /\ \A v \in Versions :
                              /\ rows'[sync[s].product][v].sha256 <= sync[s].build
                              /\ artifacts'[sync[s].product][v] <= sync[s].build
                        /\ sync[s].pc = "commit" => sync[s].staging = sync[s].build
                        /\ sync[s].pc = "publish" =>
                              artifacts'[sync[s].product][BuildDate[sync[s].build]]
                                \in {NoBuild, sync[s].build}
      BY DEF NewestInFlight
    <2>1. /\ sync[s].product \in Products
          /\ sync[s].build \in Builds /\ sync[s].build \in Nat
          /\ BuildDate[sync[s].build] \in Versions
      BY Numbers, DateIsVersion DEF TypeInv, LocalsOK, InFlight
    <2>2. /\ sync[s].build <= upstream[sync[s].product]
          /\ \A v \in Versions :
                /\ rows[sync[s].product][v].sha256 <= sync[s].build
                /\ artifacts[sync[s].product][v] <= sync[s].build
          /\ sync[s].pc = "commit" => sync[s].staging = sync[s].build
          /\ sync[s].pc = "publish" =>
                artifacts[sync[s].product][BuildDate[sync[s].build]]
                  \in {NoBuild, sync[s].build}
      BY DEF Inv, NewestInFlight
    <2>3. sync[s].build <= upstream'[sync[s].product]
      BY <1>2, <2>1, <2>2
    <2>4. \A v \in Versions :
             /\ rows'[sync[s].product][v].sha256 <= sync[s].build
             /\ artifacts'[sync[s].product][v] <= sync[s].build
      BY <2>1, <2>2 DEF NoBuild
    <2> QED
      BY <2>1, <2>2, <2>3, <2>4
  <1> QED
    BY <1>1, <1>3, <1>4 DEF Inv

(* A step that leaves rows, files, locks and syncs alone keeps it.         *)
LEMMA InvSame ==
    ASSUME Inv, UNCHANGED <<upstream, rows, artifacts, locks, sync>>
    PROVE  Inv'
  BY DEF Inv, OneSyncPerProduct, CatalogOK, NewestInFlight

(* The purge keeps it: it removes files and leaves digests alone.          *)
LEMMA InvCleanup ==
    ASSUME TypeInv, TypeInv', Inv, NEW c \in Cleaners, CleanupList(c) \/ CleanupStep(c)
    PROVE  Inv'
  <1>1. /\ cleaner[c].todo \subseteq Listed
        /\ cleaner[c].at \subseteq Listed
    BY DEF TypeInv, TypeOK, CleanerState
  <1>2. \A p \in Products : upstream[p] <= upstream[p]
    BY Numbers
  <1>3. CASE CleanupList(c) \/ CleanupMarkFails(c) \/ CleanupEnd(c)
    BY <1>3, InvSame DEF CleanupList, CleanupMarkFails, CleanupEnd
  <1>4. CASE CleanupDelete(c)
    <2>1. PICK e \in cleaner[c].todo :
             /\ \E left \in {NoBuild, artifacts[e.product][e.version]} :
                   artifacts' = [artifacts EXCEPT ![e.product][e.version] = left]
             /\ UNCHANGED <<upstream, rows, locks, sync>>
      BY <1>4 DEF CleanupDelete
    <2>2. e.product \in Products /\ e.version \in Versions
      BY <1>1 DEF Listed
    <2>3. \A p \in Products : \A v \in Versions :
             artifacts'[p][v] \in {artifacts[p][v], NoBuild}
      BY <2>1, <2>2 DEF TypeInv, TypeOK
    <2>4. \A p \in Products : OneCurrent(rows'[p]) /\ Scheduled(rows'[p])
      BY <2>1 DEF Inv, CatalogOK
    <2> QED
      BY <1>2, <2>1, <2>3, <2>4, CatalogStep
  <1>5. CASE CleanupMark(c)
    <2>1. PICK e \in cleaner[c].at :
             /\ rows' = [rows EXCEPT ![e.product] = MarkVersionDeleted(@, e.version)]
             /\ UNCHANGED <<upstream, artifacts, locks, sync>>
      BY <1>5 DEF CleanupMark
    <2>2. e.product \in Products /\ e.version \in Versions
      BY <1>1 DEF Listed
    <2>3. \A p \in Products :
             \/ p = e.product /\ rows'[p] = MarkVersionDeleted(rows[p], e.version)
             \/ rows'[p] = rows[p]
      BY <2>1 DEF TypeInv, TypeOK
    <2>4. \A p \in Products :
             rows[p] \in Table /\ OneCurrent(rows[p]) /\ Scheduled(rows[p])
      BY DEF Inv, CatalogOK, TypeInv, TypeOK
    <2>5. \A p \in Products : OneCurrent(rows'[p]) /\ Scheduled(rows'[p])
      BY <2>2, <2>3, <2>4, MarkKeepsCatalog
    <2>6. \A p \in Products : \A v \in Versions :
             /\ rows'[p][v].sha256 = rows[p][v].sha256
             /\ rows'[p][v].released_at = rows[p][v].released_at
      BY <2>2, <2>3, <2>4, MarkRows
    <2> QED
      BY <1>2, <2>1, <2>5, <2>6, CatalogStep
  <1> QED
    BY <1>3, <1>4, <1>5 DEF CleanupStep

(* A rollback keeps it: it moves is_current and no digest.                 *)
LEMMA InvRollback ==
    ASSUME TypeInv, TypeInv', Inv, NEW p \in Products, NEW v \in Versions, Rollback(p, v)
    PROVE  Inv'
  <1>1. /\ \A q \in Products : q # p => rows'[q] = rows[q]
        /\ rows'[p] = RollbackToVersion(rows[p], v)
        /\ IsLive(rows[p][v])
        /\ UNCHANGED <<upstream, artifacts, locks, sync>>
    BY DEF Rollback, TypeInv, TypeOK
  <1>2. \A q \in Products :
           rows[q] \in Table /\ OneCurrent(rows[q]) /\ Scheduled(rows[q])
    BY DEF Inv, CatalogOK, TypeInv, TypeOK
  <1>3. \A q \in Products : OneCurrent(rows'[q]) /\ Scheduled(rows'[q])
    BY <1>1, <1>2, RollbackKeepsCatalog
  <1>4. \A w \in Versions : /\ rows'[p][w].sha256 = rows[p][w].sha256
                            /\ rows'[p][w].released_at = rows[p][w].released_at
    BY <1>1, <1>2, RollbackRows, SupersedeRows
  <1>5. \A q \in Products : upstream[q] <= upstream[q]
    BY Numbers
  <1> QED
    BY <1>1, <1>3, <1>4, <1>5, CatalogStep

(* Releases, deadlines and crashes keep it.                                *)
LEMMA InvEnvironment ==
    ASSUME TypeInv, TypeInv', Inv,
           \/ \E p \in Products : \/ UpstreamRelease(p)
                                  \/ \E v \in Versions : DeadlinePasses(p, v)
           \/ Crash
    PROVE  Inv'
  <1>1. ASSUME NEW p \in Products, UpstreamRelease(p) PROVE Inv'
    <2>1. \A q \in Products : upstream[q] <= upstream'[q]
      BY <1>1, Numbers DEF UpstreamRelease, TypeInv, TypeOK
    <2>2. \A q \in Products : OneCurrent(rows'[q]) /\ Scheduled(rows'[q])
      BY <1>1 DEF UpstreamRelease, Inv, CatalogOK
    <2> QED
      BY <1>1, <2>1, <2>2, CatalogStep DEF UpstreamRelease
  <1>2. ASSUME NEW p \in Products, NEW v \in Versions, DeadlinePasses(p, v) PROVE Inv'
    <2>1. /\ UNCHANGED <<upstream, artifacts, locks, sync>>
          /\ rows' = [rows EXCEPT ![p][v].cleanup_deadline = "passed"]
          /\ rows[p][v].cleanup_deadline = "pending"
      BY <1>2 DEF DeadlinePasses
    <2>2. \A q \in Products : \A w \in Versions :
             /\ rows'[q][w].sha256 = rows[q][w].sha256
             /\ rows'[q][w].released_at = rows[q][w].released_at
             /\ rows'[q][w].is_current = rows[q][w].is_current
             /\ rows'[q][w].cleanup_deadline = "null" <=> rows[q][w].cleanup_deadline = "null"
      <3>1. /\ rows'[p][v] = [rows[p][v] EXCEPT !.cleanup_deadline = "passed"]
            /\ \A w \in Versions : w # v => rows'[p][w] = rows[p][w]
            /\ \A q \in Products : q # p => rows'[q] = rows[q]
        BY <2>1 DEF TypeInv, TypeOK, Table
      <3>2. rows[p][v] \in Row
        BY Numbers
      <3>3. /\ rows'[p][v].sha256 = rows[p][v].sha256
            /\ rows'[p][v].released_at = rows[p][v].released_at
            /\ rows'[p][v].is_current = rows[p][v].is_current
            /\ rows'[p][v].cleanup_deadline = "passed"
        BY <3>1, <3>2 DEF Row
      <3> QED
        BY <2>1, <3>1, <3>3
    <2>3. ASSUME NEW q \in Products PROVE OneCurrent(rows'[q]) /\ Scheduled(rows'[q])
      <3>1. OneCurrent(rows[q]) /\ Scheduled(rows[q])
        BY DEF Inv, CatalogOK
      <3>2. \A w \in Versions : Exists(rows'[q][w]) <=> Exists(rows[q][w])
        BY <2>2 DEF Exists
      <3>3. OneCurrent(rows'[q])
        BY <2>2, <3>1, Zenon DEF OneCurrent
      <3>4. Scheduled(rows'[q])
        BY <2>2, <3>1, <3>2, Zenon DEF Scheduled
      <3> QED
        BY <3>3, <3>4
    <2>4. \A q \in Products : upstream[q] <= upstream[q]
      BY Numbers
    <2> QED
      BY <2>1, <2>2, <2>3, <2>4, CatalogStep
  <1>3. CASE Crash
    <2>1. /\ \A s \in Syncers : sync'[s].pc = "idle"
          /\ UNCHANGED <<upstream, rows, artifacts>>
      BY <1>3 DEF Crash, IdleSync
    <2> QED
      BY <2>1 DEF Inv, OneSyncPerProduct, CatalogOK, NewestInFlight, InFlight
  <1> QED
    BY <1>1, <1>2, <1>3

(* Downloads only read.                                                    *)
LEMMA InvDownload ==
    ASSUME Inv, NEW c \in Clients,
           DownloadStep(c) \/ \E p \in Products, v \in Versions : DownloadLookup(c, p, v)
    PROVE  Inv'
  BY InvSame DEF DownloadStep, DownloadLookup, DownloadOpen, DownloadDone

(* The invariant is inductive, given the types.                            *)
LEMMA InvNext == TypeInv /\ TypeInv' /\ Inv /\ [Next]_vars => Inv'
  <1> SUFFICES ASSUME TypeInv, TypeInv', Inv, [Next]_vars PROVE Inv'
    OBVIOUS
  <1>1. CASE UNCHANGED vars
    BY <1>1, InvSame DEF vars
  <1> QED
    BY <1>1, InvSync, InvCleanup, InvDownload, InvRollback, InvEnvironment
       DEF Next, NextWithoutRollback

(* Types and invariant hold in every reachable state.                      *)
LEMMA Invariance == Spec => [](TypeInv /\ Inv)
  <1>1. Init => TypeInv /\ Inv
    BY TypeInit, InvInit
  <1>2. TypeInv /\ Inv /\ [Next]_vars => (TypeInv /\ Inv)'
    BY TypeNext, InvNext
  <1> QED
    BY <1>1, <1>2, PTL DEF Spec

(* In every behaviour, rollbacks included, no product has two current      *)
(* versions: PublishNewVersion and RollbackToVersion supersede and promote *)
(* in one transaction.                                                     *)
THEOREM CatalogIsSound == Spec => []AtMostOneCurrent
  <1>1. Inv => AtMostOneCurrent
    BY DEF Inv, CatalogOK, AtMostOneCurrent, OneCurrent
  <1> QED
    BY <1>1, Invariance, PTL

(* In every behaviour exactly the versions that are not current have a     *)
(* cleanup deadline: a version that was superseded, promoted by a rollback *)
(* and superseded again is scheduled again, and MarkVersionDeleted touches *)
(* neither column.                                                         *)
THEOREM RetentionIsScheduled == Spec => []SupersededIsScheduled
  <1>1. Inv => SupersededIsScheduled
    BY DEF Inv, CatalogOK, SupersededIsScheduled, Scheduled
  <1> QED
    BY <1>1, Invariance, PTL

(* In every behaviour, crashes included, the file at an artifact's final   *)
(* path is a whole build of its date: StoreArtifact renames a staged file. *)
THEOREM StoredFilesAreWhole == Spec => []ArtifactsAreWhole
  <1>1. Inv => ArtifactsAreWhole
    BY DEF Inv, CatalogOK, ArtifactsAreWhole
  <1> QED
    BY <1>1, Invariance, PTL

(* Only a publication changes a digest, and it is the newest one.          *)
LEMMA DigestStep ==
    ASSUME TypeInv, Inv, Next, NEW p \in Products, NEW v \in Versions, NEW w \in Versions,
           rows'[p][v].sha256 # rows[p][v].sha256
    PROVE  rows'[p][v].sha256 >= rows[p][w].sha256
  <1>1. rows[p] \in Table /\ \A q \in Products : rows[q] \in Table
    BY Numbers
  <1>2. CASE rows' = rows
    BY <1>2
  <1>3. ASSUME NEW s \in Syncers, SyncPublish(s)
        PROVE  rows'[p][v].sha256 >= rows[p][w].sha256
    <2> DEFINE q == sync[s].product
               b == sync[s].build
               d == BuildDate[b]
    <2>1. /\ q \in Products /\ b \in Builds /\ d \in Versions
          /\ \A u \in Versions : rows[q][u].sha256 <= b
      BY <1>3, DateIsVersion
         DEF SyncPublish, InFlight, TypeInv, LocalsOK, Inv, NewestInFlight
    <2>2. rows'[q] = PublishNewVersion(rows[q], d, b) /\ (p # q => rows'[p] = rows[p])
      BY <1>3, <2>1 DEF SyncPublish, TypeInv, TypeOK
    <2>3. /\ rows'[q][d].sha256 = b
          /\ \A u \in Versions \ {d} : rows'[q][u].sha256 = rows[q][u].sha256
      <3>1. rows[q] \in Table
        BY <1>1, <2>1
      <3>2. /\ PublishNewVersion(rows[q], d, b)[d].sha256 = b
            /\ \A u \in Versions \ {d} :
                  PublishNewVersion(rows[q], d, b)[u].sha256 = rows[q][u].sha256
        <4> HIDE DEF q, b, d
        <4> QED
          BY <2>1, <3>1, PublishDigests
      <3> QED
        BY <2>2, <3>2
    <2>4. p = q /\ v = d
      BY <2>2, <2>3
    <2> QED
      BY <2>1, <2>3, <2>4, Numbers DEF NoBuild
  <1>4. ASSUME NEW q \in Products, NEW u \in Versions, Rollback(q, u) PROVE FALSE
    <2>1. rows'[q] = RollbackToVersion(rows[q], u) /\ (p # q => rows'[p] = rows[p])
      BY <1>4 DEF Rollback, TypeInv, TypeOK
    <2> QED
      <3>1. rows[q] \in Table
        BY <1>1
      <3>2. \A x \in Versions : rows'[q][x].sha256 = rows[q][x].sha256
        BY <2>1, <3>1, RollbackKeepsDigests
      <3> QED
        BY <2>1, <3>2
  <1>5. ASSUME NEW q \in Products, NEW u \in Versions, DeadlinePasses(q, u) PROVE FALSE
    <2>1. /\ rows'[q][u] = [rows[q][u] EXCEPT !.cleanup_deadline = "passed"]
          /\ \A x \in Versions : x # u => rows'[q][x] = rows[q][x]
          /\ p # q => rows'[p] = rows[p]
      BY <1>5 DEF DeadlinePasses, TypeInv, TypeOK, Table
    <2>2. rows[q][u] \in Row
      BY Numbers
    <2>3. rows'[q][u].sha256 = rows[q][u].sha256
      BY <2>1, <2>2 DEF Row
    <2> QED
      BY <2>1, <2>3
  <1>6. ASSUME NEW c \in Cleaners, CleanupMark(c) PROVE FALSE
    <2>1. PICK e \in cleaner[c].at :
             rows' = [rows EXCEPT ![e.product] = MarkVersionDeleted(@, e.version)]
      BY <1>6 DEF CleanupMark
    <2>2. e.product \in Products /\ e.version \in Versions
      <3>1. cleaner[c].at \subseteq Listed
        BY DEF TypeInv, TypeOK, CleanerState
      <3> QED
        BY <3>1 DEF Listed
    <2>3. /\ rows'[e.product] = MarkVersionDeleted(rows[e.product], e.version)
          /\ p # e.product => rows'[p] = rows[p]
      BY <2>1, <2>2 DEF TypeInv, TypeOK
    <2> QED
      BY <1>1, <2>2, <2>3, MarkRows
  <1> QED
    BY <1>2, <1>3, <1>4, <1>5, <1>6
       DEF Next, NextWithoutRollback, SyncStep, SyncBegin, SyncLoadFails, SyncLoad, SyncFails,
           Fail, SyncNotModified, SyncDownload, SyncValidate, SyncStage, SyncCommit, SyncRecord,
           CleanupList, CleanupStep, CleanupDelete, CleanupMarkFails, CleanupEnd,
           DownloadLookup, DownloadStep, DownloadOpen, DownloadDone, UpstreamRelease, Crash

(* In every behaviour a digest that enters the catalogue is at least as    *)
(* new as all the product's digests: the per-product lock orders a sync's  *)
(* download and its publication against those of every other sync.         *)
THEOREM PublicationIsMonotone == Spec => PublishNeverRegresses
  <1>1. TypeInv /\ Inv /\ [Next]_vars =>
           [\A p \in Products : \A v, w \in Versions :
               rows'[p][v].sha256 # rows[p][v].sha256 =>
                   rows'[p][v].sha256 >= rows[p][w].sha256]_vars
    BY DigestStep
  <1> QED
    BY <1>1, Invariance, PTL DEF Spec, PublishNeverRegresses

(* The invariant that carries these results is itself a promise of the     *)
(* code: one sync per product (Syncer.locks), a catalogue and a storage    *)
(* that agree on dates and never run ahead of upstream, and a build in     *)
(* flight that nothing newer has overtaken.                                *)
THEOREM ServiceInvariant == Spec => []Inv
  BY Invariance, PTL

(***************************************************************************)
(* What a client is served.                                                *)
(***************************************************************************)
(* A digest is a number also after a step.                                 *)
LEMMA DigestAfter ==
    ASSUME TypeInv', NEW p \in Products, NEW v \in Versions
    PROVE  rows'[p][v].sha256 \in Nat
  <1>1. rows' \in [Products -> Table]
    BY DEF TypeInv, TypeOK
  <1>2. rows'[p] \in Table
    BY <1>1
  <1>3. rows'[p][v] \in Row
    BY <1>2 DEF Table
  <1>4. rows'[p][v].sha256 \in Builds \cup {NoBuild}
    BY <1>3 DEF Row
  <1> QED
    BY <1>4, MaxBuildAssumption DEF Builds, NoBuild

(* The digest of a row is only ever replaced by a newer one.               *)
LEMMA DigestGrows ==
    ASSUME TypeInv, TypeInv', Inv, [Next]_vars, NEW p \in Products, NEW v \in Versions
    PROVE  rows[p][v].sha256 <= rows'[p][v].sha256
  <1>1. rows[p][v].sha256 \in Nat /\ rows'[p][v].sha256 \in Nat
    <2>1. rows[p][v].sha256 \in Builds \cup {NoBuild} /\ \A b \in Builds : b \in Nat
      BY Numbers
    <2>2. rows[p][v].sha256 \in Nat
      BY <2>1 DEF NoBuild
    <2> QED
      BY <2>2, DigestAfter
  <1>2. CASE rows'[p][v].sha256 = rows[p][v].sha256
    BY <1>1, <1>2
  <1>3. CASE rows'[p][v].sha256 # rows[p][v].sha256
    <2>1. Next
      BY <1>3 DEF vars
    <2> QED
      BY <1>1, <1>3, <2>1, DigestStep
  <1> QED
    BY <1>2, <1>3

(* Nothing but the handler itself touches a request, and a request that    *)
(* stays as it is keeps what it was promised.                              *)
LEMMA DownloadsSame ==
    ASSUME TypeInv, TypeInv', Inv, [Next]_vars, DownloadsOK, NEW c \in Clients,
           client'[c] = client[c]
    PROVE  /\ client'[c].pc = "open" =>
                client'[c].etag <= rows'[client'[c].product][client'[c].version].sha256
           /\ client'[c].pc = "served" =>
                /\ client'[c].body \in Builds
                /\ BuildDate[client'[c].body] = client'[c].version
                /\ client'[c].body >= client'[c].etag
  <1>1. CASE client[c].pc = "open"
    <2> DEFINE p == client[c].product
               v == client[c].version
    <2>1. p \in Products /\ v \in Versions
      BY <1>1 DEF TypeInv, LocalsOK
    <2>2. client[c].etag <= rows[p][v].sha256
      BY <1>1 DEF DownloadsOK
    <2>3. rows[p][v].sha256 <= rows'[p][v].sha256
      BY <2>1, DigestGrows
    <2>4. /\ client[c].etag \in Nat
          /\ rows[p][v].sha256 \in Nat
          /\ rows'[p][v].sha256 \in Nat
      <3>1. \A b \in Builds \cup {NoBuild} : b \in Nat
        BY Numbers DEF NoBuild
      <3>2. client[c].etag \in Builds \cup {NoBuild}
        BY DEF TypeInv, TypeOK, ClientState
      <3>3. rows[p][v].sha256 \in Builds \cup {NoBuild}
        BY <2>1, Numbers
      <3>4. rows'[p][v].sha256 \in Nat
        BY <2>1, DigestAfter
      <3> QED
        BY <3>1, <3>2, <3>3, <3>4
    <2> HIDE DEF p, v
    <2>5. client[c].etag <= rows'[p][v].sha256
      BY <2>2, <2>3, <2>4
    <2> QED
      BY <1>1, <2>5 DEF p, v
  <1>2. CASE client[c].pc # "open"
    BY <1>2 DEF DownloadsOK, ServedIsRequested
  <1> QED
    BY <1>1, <1>2

(* A look-up takes the ETag from the row, an open reads the file that is   *)
(* there, and every other step leaves requests alone or drops them.        *)
LEMMA DownloadsNext ==
    TypeInv /\ TypeInv' /\ Inv /\ DownloadsOK /\ [Next]_vars => DownloadsOK'
  <1> SUFFICES ASSUME TypeInv, TypeInv', Inv, DownloadsOK, [Next]_vars, NEW c \in Clients
               PROVE  /\ client'[c].pc = "open" =>
                           client'[c].etag <= rows'[client'[c].product][client'[c].version].sha256
                      /\ client'[c].pc = "served" =>
                           /\ client'[c].body \in Builds
                           /\ BuildDate[client'[c].body] = client'[c].version
                           /\ client'[c].body >= client'[c].etag
    BY DEF DownloadsOK, ServedIsRequested
  <1> USE DEF ClientState
  <1>1. client[c] \in ClientState /\ DOMAIN client = Clients
    BY DEF TypeInv, TypeOK
  <1>2. CASE client'[c] = client[c]
    BY <1>2, DownloadsSame
  <1>3. CASE client'[c] = IdleClient
    BY <1>3 DEF IdleClient
  <1>4. ASSUME NEW p \in Products, NEW v \in Versions, DownloadLookup(c, p, v)
        PROVE  /\ client'[c].pc = "open"
               /\ client'[c].etag <= rows'[client'[c].product][client'[c].version].sha256
    <2>1. /\ client'[c] = [pc |-> "open", product |-> p, version |-> v,
                           etag |-> rows[p][v].sha256, body |-> NoBuild]
          /\ rows' = rows
      BY <1>1, <1>4 DEF DownloadLookup
    <2>2. rows[p][v].sha256 <= rows[p][v].sha256
      <3>1. rows[p][v].sha256 \in Builds \cup {NoBuild} /\ \A b \in Builds : b \in Nat
        BY Numbers
      <3> QED
        BY <3>1 DEF NoBuild
    <2> QED
      BY <2>1, <2>2
  <1>5. ASSUME DownloadOpen(c), client'[c] # IdleClient
        PROVE  /\ client'[c].pc = "served"
               /\ client'[c].body \in Builds
               /\ BuildDate[client'[c].body] = client'[c].version
               /\ client'[c].body >= client'[c].etag
    <2> DEFINE p == client[c].product
               v == client[c].version
               file == artifacts[p][v]
    <2>1. /\ client[c].pc = "open"
          /\ file # NoBuild
          /\ client'[c] = [client[c] EXCEPT !.pc = "served", !.body = file]
      BY <1>1, <1>5 DEF DownloadOpen
    <2>2. p \in Products /\ v \in Versions
      BY <2>1 DEF TypeInv, LocalsOK
    <2>3. file \in Builds /\ BuildDate[file] = v /\ rows[p][v].sha256 <= file
      BY <2>1, <2>2 DEF Inv, CatalogOK
    <2>4. client[c].etag <= rows[p][v].sha256
      BY <2>1 DEF DownloadsOK
    <2>5. client[c].etag \in Nat /\ rows[p][v].sha256 \in Nat /\ file \in Nat
      <3>1. \A b \in Builds \cup {NoBuild} : b \in Nat
        BY Numbers DEF NoBuild
      <3>2. rows[p][v].sha256 \in Builds \cup {NoBuild}
        BY <2>2, Numbers
      <3> QED
        BY <1>1, <2>3, <3>1, <3>2
    <2> HIDE DEF p, v, file
    <2>6. file >= client[c].etag
      BY <2>3, <2>4, <2>5
    <2>7. /\ client'[c].pc = "served" /\ client'[c].body = file
          /\ client'[c].version = client[c].version
          /\ client'[c].etag = client[c].etag
      BY <1>1, <2>1
    <2> QED
      BY <2>3, <2>6, <2>7 DEF v
  <1>6. \/ client'[c] = client[c]
        \/ client'[c] = IdleClient
        \/ \E p \in Products, v \in Versions : DownloadLookup(c, p, v)
        \/ DownloadOpen(c)
    <2>1. ASSUME NEW k \in Clients, k # c,
                 DownloadStep(k) \/ \E p \in Products, v \in Versions : DownloadLookup(k, p, v)
          PROVE  client'[c] = client[c]
      BY <1>1, <2>1 DEF DownloadStep, DownloadLookup, DownloadOpen, DownloadDone
    <2>2. CASE DownloadDone(c)
      BY <1>1, <2>2 DEF DownloadDone
    <2>3. CASE Crash
      BY <2>3 DEF Crash
    <2>4. CASE client' = client
      BY <2>4
    <2> QED
      BY <2>1, <2>2, <2>3, <2>4
         DEF vars, Next, NextWithoutRollback, SyncStep, SyncBegin, SyncLoadFails, SyncLoad,
             SyncFails, Fail, SyncNotModified, SyncDownload, SyncValidate, SyncStage,
             SyncCommit, SyncPublish, SyncRecord, CleanupList, CleanupStep, CleanupDelete,
             CleanupMark, CleanupMarkFails, CleanupEnd, DownloadStep, Rollback,
             UpstreamRelease, DeadlinePasses
  <1> QED
    BY <1>2, <1>3, <1>4, <1>5, <1>6

(* A client is never sent a truncated file, one of another date, or one    *)
(* older than the ETag that goes with it, although the handler reads the   *)
(* row and opens the file in two steps and a sync may replace, a cleanup   *)
(* remove, and a rollback demote the version in between.                   *)
THEOREM DownloadsAreSound == Spec => []ServedIsRequested
  <1>1. Init => DownloadsOK
    BY DEF Init, DownloadsOK, ServedIsRequested, IdleClient
  <1>2. TypeInv /\ Inv /\ (TypeInv /\ Inv)' /\ DownloadsOK /\ [Next]_vars => DownloadsOK'
    BY DownloadsNext
  <1>3. DownloadsOK => ServedIsRequested
    BY DEF DownloadsOK
  <1> QED
    BY <1>1, <1>2, <1>3, Invariance, PTL DEF Spec

(***************************************************************************)
(* When a sync may skip.                                                   *)
(***************************************************************************)
(* A sync has no outcome before its last step.                             *)
LEMMA OutcomeNext == TypeInv /\ OutcomeIsLast /\ [Next]_vars => OutcomeIsLast'
  <1> SUFFICES ASSUME TypeInv, OutcomeIsLast, [Next]_vars, NEW s \in Syncers,
                      sync'[s].pc # "record"
               PROVE  sync'[s].status = "none"
    BY DEF OutcomeIsLast
  <1> USE DEF SyncState
  <1>1. DOMAIN sync = Syncers /\ \A t \in Syncers : sync[t] \in SyncState
    BY DEF TypeInv, TypeOK
  <1>2. CASE sync'[s] = sync[s]
    BY <1>2 DEF OutcomeIsLast
  <1>3. ASSUME NEW t \in Syncers, t # s, SyncStep(t) \/ \E p \in Products : SyncBegin(t, p)
        PROVE  sync'[s] = sync[s]
    BY <1>1, <1>3
       DEF SyncStep, SyncBegin, SyncLoadFails, SyncLoad, SyncFails, Fail, SyncNotModified,
           SyncDownload, SyncValidate, SyncStage, SyncCommit, SyncPublish, SyncRecord
  <1>4. CASE SyncLoadFails(s) \/ SyncRecord(s) \/ Crash
    BY <1>1, <1>4 DEF SyncLoadFails, SyncRecord, Crash, IdleSync
  <1>5. CASE SyncFails(s) \/ SyncNotModified(s) \/ SyncPublish(s)
    BY <1>1, <1>5 DEF SyncFails, Fail, SyncNotModified, SyncPublish
  <1>6. CASE \/ SyncLoad(s) \/ SyncDownload(s) \/ SyncValidate(s) \/ SyncStage(s)
             \/ SyncCommit(s) \/ \E p \in Products : SyncBegin(s, p)
    <2>1. sync[s].pc # "record" /\ sync'[s].status = sync[s].status
      BY <1>1, <1>6
         DEF SyncLoad, SyncDownload, SyncValidate, SyncStage, SyncCommit, SyncBegin
    <2> QED
      BY <2>1 DEF OutcomeIsLast
  <1>7. CASE sync' = sync
    BY <1>2, <1>7
  <1> QED
    BY <1>2, <1>3, <1>4, <1>5, <1>6, <1>7
       DEF vars, Next, NextWithoutRollback, SyncStep, CleanupList, CleanupStep, CleanupDelete,
           CleanupMark, CleanupMarkFails, CleanupEnd, DownloadLookup, DownloadStep,
           DownloadOpen, DownloadDone, Rollback, UpstreamRelease, DeadlinePasses

(* A skip compares the right row: released_at is at most the row's digest, *)
(* and the digest at most what upstream offers.                            *)
LEMMA SkipStep ==
    ASSUME TypeInv, Inv, OutcomeIsLast, Next, NEW s \in Syncers,
           sync[s].pc = "download", sync'[s].status = "SKIPPED"
    PROVE  \E v \in sync[s].current :
              rows[sync[s].product][v].sha256 = upstream[sync[s].product]
  <1> USE DEF SyncState
  <1>1. DOMAIN sync = Syncers /\ \A t \in Syncers : sync[t] \in SyncState
    BY DEF TypeInv, TypeOK
  <1>2. sync[s].status = "none"
    BY DEF OutcomeIsLast
  <1>3. SyncNotModified(s)
    <2>1. ASSUME NEW t \in Syncers, t # s, SyncStep(t) \/ \E p \in Products : SyncBegin(t, p)
          PROVE  sync'[s] = sync[s]
      BY <1>1, <2>1
         DEF SyncStep, SyncBegin, SyncLoadFails, SyncLoad, SyncFails, Fail, SyncNotModified,
             SyncDownload, SyncValidate, SyncStage, SyncCommit, SyncPublish, SyncRecord
    <2>2. ~Crash
      BY DEF Crash, IdleSync
    <2>3. /\ ~SyncLoadFails(s) /\ ~SyncLoad(s) /\ ~SyncValidate(s) /\ ~SyncStage(s)
          /\ ~SyncCommit(s) /\ ~SyncPublish(s) /\ ~SyncRecord(s)
          /\ \A p \in Products : ~SyncBegin(s, p)
      BY DEF SyncLoadFails, SyncLoad, SyncValidate, SyncStage, SyncCommit, SyncPublish,
             SyncRecord, SyncBegin
    <2>4. ~SyncFails(s) /\ ~SyncDownload(s)
      BY <1>1, <1>2 DEF SyncFails, Fail, SyncDownload
    <2>5. sync'[s] # sync[s]
      BY <1>2
    <2> QED
      BY <2>1, <2>2, <2>3, <2>4, <2>5
         DEF Next, NextWithoutRollback, SyncStep, CleanupList, CleanupStep, CleanupDelete,
             CleanupMark, CleanupMarkFails, CleanupEnd, DownloadLookup, DownloadStep,
             DownloadOpen, DownloadDone, Rollback, UpstreamRelease, DeadlinePasses
  <1> DEFINE p == sync[s].product
  <1>4. PICK v \in sync[s].current : rows[p][v].released_at >= upstream[p]
    BY <1>3 DEF SyncNotModified, IfModifiedSince
  <1>5. p \in Products /\ v \in Versions
    BY <1>1 DEF TypeInv, LocalsOK
  <1>6. rows[p][v].released_at <= rows[p][v].sha256 /\ rows[p][v].sha256 <= upstream[p]
    BY <1>5 DEF Inv, CatalogOK
  <1>7. /\ rows[p][v].released_at \in Nat
        /\ rows[p][v].sha256 \in Nat
        /\ upstream[p] \in Nat
    BY <1>5, Numbers DEF NoBuild
  <1>8. rows[p][v].sha256 = upstream[p]
    <2> HIDE DEF p
    <2> QED
      BY <1>4, <1>6, <1>7
  <1> QED
    BY <1>8

(* A sync that answers 304 with SKIPPED had read, as the current version,  *)
(* the very build upstream offers: in no behaviour, whatever was rolled    *)
(* back or republished, does the If-Modified-Since date of the current row *)
(* make a sync miss a build.                                               *)
THEOREM SkipsAreSound == Spec => SkipIsSound
  <1>1. Init => OutcomeIsLast
    BY DEF Init, OutcomeIsLast, IdleSync
  <1>2. TypeInv /\ Inv /\ OutcomeIsLast /\ [Next]_vars => OutcomeIsLast'
    BY OutcomeNext
  <1>3. TypeInv /\ Inv /\ OutcomeIsLast /\ [Next]_vars =>
           [\A s \in Syncers :
               sync[s].pc = "download" /\ sync'[s].status = "SKIPPED" =>
                   \E v \in sync[s].current :
                       rows[sync[s].product][v].sha256 = upstream[sync[s].product]]_vars
    BY SkipStep
  <1> QED
    BY <1>1, <1>2, <1>3, Invariance, PTL DEF Spec, SkipIsSound

(***************************************************************************)
(* Retention.  Without rollbacks the current version is never purged.      *)
(***************************************************************************)
(* In an empty service nothing is superseded or listed.                    *)
LEMMA KeptInit == Init => SupersededStaysBehind
  <1> SUFFICES ASSUME Init PROVE SupersededStaysBehind
    OBVIOUS
  <1>1. \A p \in Products : \A v \in Versions :
           ~rows[p][v].is_current /\ ~Exists(rows[p][v])
    BY DEF Init, EmptyTable, NoRow, Exists
  <1>2. \A c \in Cleaners : cleaner[c].todo \cup cleaner[c].at = {}
    BY DEF Init, IdleCleaner
  <1>3. \A s \in Syncers : sync[s].pc # "publish"
    BY DEF Init, IdleSync
  <1> QED
    BY <1>1, <1>2, <1>3 DEF SupersededStaysBehind

(* A step that touches neither rows nor files, lists no new version and    *)
(* takes no sync to its publication.                                       *)
LEMMA KeptSame ==
    ASSUME SupersededStaysBehind,
           UNCHANGED <<rows, artifacts>>,
           \A c \in Cleaners : cleaner'[c].todo \cup cleaner'[c].at
                                 \subseteq cleaner[c].todo \cup cleaner[c].at,
           \A s \in Syncers : sync'[s].pc = "publish" => sync'[s] = sync[s]
    PROVE  SupersededStaysBehind'
  <1>1. \A p \in Products : \A v \in Versions : Behind(p, v)' <=> Behind(p, v)
    BY DEF Behind
  <1>2. \A c \in Cleaners : \A e \in cleaner'[c].todo \cup cleaner'[c].at :
           Behind(e.product, e.version)'
    BY DEF SupersededStaysBehind, Behind
  <1> QED
    BY <1>1, <1>2 DEF SupersededStaysBehind

(* A row's date is at most that of a build at least as new as its digest.  *)
LEMMA DateOrder ==
    ASSUME TypeInv, Inv, NEW p \in Products, NEW v \in Versions, NEW b \in Builds,
           Exists(rows[p][v]), rows[p][v].sha256 <= b
    PROVE  v <= BuildDate[b] /\ v \in Nat /\ BuildDate[b] \in Nat
  <1>1. rows[p][v].sha256 \in Builds /\ BuildDate[rows[p][v].sha256] = v
    BY Numbers DEF Exists, Inv, CatalogOK
  <1> QED
    BY <1>1, BuildDateAssumption

(* Dates are comparable.                                                   *)
LEMMA VersionsAreNaturals == \A v \in Versions : v \in Nat
  BY BuildDateAssumption DEF Versions

(* The rename puts a file in place and removes none.                       *)
LEMMA KeptCommit ==
    ASSUME TypeInv, Inv, SupersededStaysBehind, NEW s \in Syncers, SyncCommit(s)
    PROVE  SupersededStaysBehind'
  <1> DEFINE p == sync[s].product
             d == BuildDate[sync[s].build]
  <1>1. /\ p \in Products /\ d \in Versions
        /\ sync[s].staging = sync[s].build /\ sync[s].build # NoBuild
    BY DateIsVersion, Numbers DEF SyncCommit, InFlight, TypeInv, LocalsOK, Inv, NewestInFlight
  <1>2. /\ UNCHANGED <<rows, cleaner>>
        /\ artifacts'[p][d] # NoBuild
        /\ \A q \in Products : \A v \in Versions :
              artifacts'[q][v] = artifacts[q][v] \/ (q = p /\ v = d)
    BY <1>1 DEF SyncCommit, TypeInv, TypeOK
  <1>3. /\ \A t \in Syncers \ {s} : sync'[t] = sync[t]
        /\ sync'[s].product = p /\ sync'[s].build = sync[s].build
    BY DEF SyncCommit, TypeInv, TypeOK, SyncState
  <1>4. \A t \in Syncers : sync'[t].pc = "publish" =>
           artifacts'[sync'[t].product][BuildDate[sync'[t].build]] # NoBuild
    <2> SUFFICES ASSUME NEW t \in Syncers, sync'[t].pc = "publish"
                 PROVE  artifacts'[sync'[t].product][BuildDate[sync'[t].build]] # NoBuild
      OBVIOUS
    <2>1. CASE t = s
      BY <1>2, <1>3, <2>1
    <2>2. CASE t # s
      <3>1. /\ sync[t].product \in Products /\ BuildDate[sync[t].build] \in Versions
            /\ artifacts[sync[t].product][BuildDate[sync[t].build]] # NoBuild
        BY <1>3, <2>2, DateIsVersion
           DEF TypeInv, LocalsOK, InFlight, SupersededStaysBehind
      <3> QED
        BY <1>2, <1>3, <2>2, <3>1
    <2> QED
      BY <2>1, <2>2
  <1> HIDE DEF p, d
  <1>5. \A q \in Products : \A v \in Versions :
           rows[q][v].is_current => ~rows[q][v].is_deleted /\ artifacts'[q][v] # NoBuild
    BY <1>2 DEF SupersededStaysBehind
  <1> QED
    BY <1>2, <1>4, <1>5 DEF SupersededStaysBehind, Behind

(* A publication is no older than the current version: all stay behind.    *)
LEMMA KeptPublish ==
    ASSUME TypeInv, Inv, SupersededStaysBehind, NEW s \in Syncers, SyncPublish(s)
    PROVE  SupersededStaysBehind'
  <1>0. PICK p \in Products, b \in Builds : p = sync[s].product /\ b = sync[s].build
    BY DEF SyncPublish, InFlight, TypeInv, LocalsOK
  <1> DEFINE d == BuildDate[b]
  <1>1. /\ d \in Versions
        /\ \A v \in Versions : rows[p][v].sha256 <= b
        /\ artifacts[p][d] # NoBuild
    BY <1>0, DateIsVersion
       DEF SyncPublish, InFlight, TypeInv, LocalsOK, Inv, NewestInFlight, SupersededStaysBehind
  <1>2. /\ rows'[p] = PublishNewVersion(rows[p], d, b)
        /\ \A q \in Products : q # p => rows'[q] = rows[q]
        /\ UNCHANGED <<artifacts, cleaner>>
    BY <1>0 DEF SyncPublish, TypeInv, TypeOK
  <1>3. rows[p] \in Table
    BY Numbers
  <1>4. /\ rows'[p][d].is_current /\ ~rows'[p][d].is_deleted
        /\ \A v \in Versions \ {d} : /\ ~rows'[p][v].is_current
                                      /\ rows'[p][v].sha256 = rows[p][v].sha256
    BY <1>1, <1>2, <1>3, PublishRows, SupersedeRows
  <1>5. \A v \in Versions : Exists(rows[p][v]) => v <= d /\ v \in Nat /\ d \in Nat
    BY <1>1, DateOrder
  <1>6. \A t \in Syncers : sync'[t].pc = "publish" => sync'[t] = sync[t]
    BY DEF SyncPublish, TypeInv, TypeOK, SyncState
  <1> HIDE DEF d
  <1>7. ASSUME NEW v \in Versions, Behind(p, v) PROVE Behind(p, v)' /\ v # d
    <2>1. PICK w \in Versions : rows[p][w].is_current /\ v < w
      BY <1>7 DEF Behind
    <2>2. Exists(rows[p][w])
      BY <1>1, <2>1 DEF Inv, CatalogOK, Scheduled
    <2>3. v < d
      BY <1>5, <2>1, <2>2, VersionsAreNaturals
    <2> QED
      BY <1>1, <1>4, <2>3, VersionsAreNaturals DEF Behind
  <1>8. ASSUME NEW v \in Versions, Exists(rows[p][v]), v # d PROVE Behind(p, v)'
    <2>1. v < d
      BY <1>5, <1>8
    <2> QED
      BY <1>1, <1>4, <2>1 DEF Behind
  <1>9. ASSUME NEW q \in Products, NEW v \in Versions, Behind(q, v) PROVE Behind(q, v)'
    BY <1>2, <1>7, <1>9 DEF Behind
  <1>10. ASSUME NEW q \in Products, NEW v \in Versions
         PROVE  /\ rows'[q][v].is_current =>
                     ~rows'[q][v].is_deleted /\ artifacts'[q][v] # NoBuild
                /\ Exists(rows'[q][v]) /\ ~rows'[q][v].is_current => Behind(q, v)'
    <2>1. CASE q # p
      BY <1>2, <1>9, <2>1 DEF SupersededStaysBehind
    <2>2. CASE q = p
      BY <1>1, <1>2, <1>4, <1>8, <2>2 DEF Exists
    <2> QED
      BY <2>1, <2>2
  <1>11. \A c \in Cleaners : \A e \in cleaner'[c].todo \cup cleaner'[c].at :
            Behind(e.product, e.version)'
    <2> SUFFICES ASSUME NEW c \in Cleaners, NEW e \in cleaner[c].todo \cup cleaner[c].at
                 PROVE  Behind(e.product, e.version)'
      BY <1>2
    <2>1. cleaner[c].todo \subseteq Listed /\ cleaner[c].at \subseteq Listed
      BY DEF TypeInv, TypeOK, CleanerState
    <2>2. e.product \in Products /\ e.version \in Versions /\ Behind(e.product, e.version)
      BY <2>1 DEF Listed, SupersededStaysBehind
    <2> QED
      BY <1>9, <2>2
  <1>12. \A t \in Syncers : sync'[t].pc = "publish" =>
            artifacts'[sync'[t].product][BuildDate[sync'[t].build]] # NoBuild
    BY <1>2, <1>6 DEF SupersededStaysBehind
  <1> QED
    BY <1>10, <1>11, <1>12 DEF SupersededStaysBehind

(* What a cleanup has listed is neither current nor about to be published. *)
LEMMA ListedIsApart ==
    ASSUME TypeInv, Inv, SupersededStaysBehind,
           NEW c \in Cleaners, NEW e \in cleaner[c].todo \cup cleaner[c].at
    PROVE  /\ e.product \in Products /\ e.version \in Versions
           /\ ~rows[e.product][e.version].is_current
           /\ \A s \in Syncers :
                sync[s].pc = "publish" /\ sync[s].product = e.product =>
                    BuildDate[sync[s].build] # e.version
  <1>1. cleaner[c].todo \subseteq Listed /\ cleaner[c].at \subseteq Listed
    BY DEF TypeInv, TypeOK, CleanerState
  <1>2. e.product \in Products /\ e.version \in Versions
    BY <1>1 DEF Listed
  <1>3. PICK w \in Versions : rows[e.product][w].is_current /\ e.version < w
    BY DEF SupersededStaysBehind, Behind
  <1>4. ~rows[e.product][e.version].is_current
    <2>1. e.version # w
      BY <1>2, <1>3, VersionsAreNaturals
    <2> QED
      BY <1>2, <1>3, <2>1 DEF Inv, CatalogOK, OneCurrent
  <1>5. ASSUME NEW s \in Syncers, sync[s].pc = "publish", sync[s].product = e.product
        PROVE  BuildDate[sync[s].build] # e.version
    <2>1. sync[s].build \in Builds /\ rows[e.product][w].sha256 <= sync[s].build
      BY <1>5 DEF TypeInv, LocalsOK, InFlight, Inv, NewestInFlight
    <2>2. Exists(rows[e.product][w])
      BY <1>2, <1>3 DEF Inv, CatalogOK, Scheduled
    <2>3. w <= BuildDate[sync[s].build] /\ BuildDate[sync[s].build] \in Nat
      BY <1>2, <2>1, <2>2, DateOrder
    <2> QED
      BY <1>2, <1>3, <2>3, VersionsAreNaturals
  <1> QED
    BY <1>2, <1>4, <1>5

(* A cleanup lists and purges only what is behind the current version.     *)
LEMMA KeptCleanup ==
    ASSUME TypeInv, Inv, SupersededStaysBehind, NEW c \in Cleaners,
           CleanupList(c) \/ CleanupStep(c)
    PROVE  SupersededStaysBehind'
  <1>1. DOMAIN cleaner = Cleaners /\ cleaner[c] \in CleanerState
    BY DEF TypeInv, TypeOK
  <1>2. CASE CleanupList(c)
    <2>1. /\ UNCHANGED <<rows, artifacts, sync>>
          /\ \A k \in Cleaners \ {c} : cleaner'[k] = cleaner[k]
          /\ cleaner'[c].at = {}
          /\ cleaner'[c].todo =
                UNION {{[product |-> p, version |-> v,
                         storage_path |-> rows[p][v].storage_path] :
                           v \in GetExpiredVersions(rows[p])} : p \in Products}
      BY <1>1, <1>2 DEF CleanupList
    <2>2. ASSUME NEW e \in cleaner'[c].todo PROVE Behind(e.product, e.version)
      <3>1. PICK p \in Products : \E v \in GetExpiredVersions(rows[p]) :
              e = [product |-> p, version |-> v, storage_path |-> rows[p][v].storage_path]
        BY <2>1, <2>2
      <3>2. PICK v \in GetExpiredVersions(rows[p]) :
              e = [product |-> p, version |-> v, storage_path |-> rows[p][v].storage_path]
        BY <3>1
      <3>3. v \in Versions /\ Exists(rows[p][v]) /\ ~rows[p][v].is_current
        BY DEF GetExpiredVersions, IsLive
      <3>4. e.product = p /\ e.version = v
        BY <3>2
      <3> QED
        BY <3>3, <3>4 DEF SupersededStaysBehind
    <2>3. \A k \in Cleaners : \A e \in cleaner'[k].todo \cup cleaner'[k].at :
             Behind(e.product, e.version)
      BY <2>1, <2>2 DEF SupersededStaysBehind
    <2> QED
      BY <2>1, <2>3 DEF SupersededStaysBehind, Behind
  <1>3. CASE CleanupDelete(c)
    <2>1. PICK e \in cleaner[c].todo :
             /\ \E left \in {NoBuild, artifacts[e.product][e.version]} :
                   artifacts' = [artifacts EXCEPT ![e.product][e.version] = left]
             /\ cleaner' = [cleaner EXCEPT ![c] =
                              [pc |-> "mark", todo |-> cleaner[c].todo \ {e}, at |-> {e}]]
             /\ UNCHANGED <<rows, sync>>
      BY <1>3 DEF CleanupDelete
    <2>2. /\ e.product \in Products /\ e.version \in Versions
          /\ ~rows[e.product][e.version].is_current
          /\ \A s \in Syncers :
                sync[s].pc = "publish" /\ sync[s].product = e.product =>
                    BuildDate[sync[s].build] # e.version
      BY ListedIsApart
    <2>3. \A q \in Products : \A v \in Versions :
             artifacts'[q][v] = artifacts[q][v] \/ (q = e.product /\ v = e.version)
      BY <2>1, <2>2 DEF TypeInv, TypeOK
    <2>4. \A k \in Cleaners : cleaner'[k].todo \cup cleaner'[k].at
                                 \subseteq cleaner[k].todo \cup cleaner[k].at
      BY <1>1, <2>1
    <2>5. \A s \in Syncers : sync[s].pc = "publish" =>
             artifacts'[sync[s].product][BuildDate[sync[s].build]] # NoBuild
      <3> SUFFICES ASSUME NEW s \in Syncers, sync[s].pc = "publish"
                   PROVE  artifacts'[sync[s].product][BuildDate[sync[s].build]] # NoBuild
        OBVIOUS
      <3>1. /\ sync[s].product \in Products /\ BuildDate[sync[s].build] \in Versions
            /\ artifacts[sync[s].product][BuildDate[sync[s].build]] # NoBuild
        BY DateIsVersion DEF TypeInv, LocalsOK, InFlight, SupersededStaysBehind
      <3> QED
        BY <2>2, <2>3, <3>1
    <2>6. \A q \in Products : \A v \in Versions :
             rows[q][v].is_current => ~rows[q][v].is_deleted /\ artifacts'[q][v] # NoBuild
      BY <2>2, <2>3 DEF SupersededStaysBehind
    <2> QED
      BY <2>1, <2>4, <2>5, <2>6 DEF SupersededStaysBehind, Behind
  <1>4. CASE CleanupMark(c)
    <2>1. PICK e \in cleaner[c].at :
             /\ rows' = [rows EXCEPT ![e.product] = MarkVersionDeleted(@, e.version)]
             /\ UNCHANGED <<artifacts, sync>>
      BY <1>4 DEF CleanupMark
    <2>2. /\ e.product \in Products /\ e.version \in Versions
          /\ ~rows[e.product][e.version].is_current
      BY ListedIsApart
    <2>3. \A q \in Products :
             \/ q = e.product /\ rows'[q] = MarkVersionDeleted(rows[q], e.version)
             \/ rows'[q] = rows[q]
      BY <2>1 DEF TypeInv, TypeOK
    <2>4. \A q \in Products : \A v \in Versions :
             /\ rows'[q][v].is_current = rows[q][v].is_current
             /\ rows'[q][v].sha256 = rows[q][v].sha256
             /\ rows[q][v].is_current => rows'[q][v].is_deleted = rows[q][v].is_deleted
      BY <2>2, <2>3, Numbers, MarkRows
    <2>5. \A q \in Products : \A v \in Versions : Behind(q, v) => Behind(q, v)'
      BY <2>4 DEF Behind
    <2>6. \A k \in Cleaners : cleaner'[k].todo \cup cleaner'[k].at
                                 \subseteq cleaner[k].todo \cup cleaner[k].at
      BY <1>1, <1>4 DEF CleanupMark, CleanerState
    <2>7. \A k \in Cleaners : \A x \in cleaner'[k].todo \cup cleaner'[k].at :
             Behind(x.product, x.version)'
      BY <2>5, <2>6, ListedIsApart DEF SupersededStaysBehind
    <2> QED
      BY <2>1, <2>4, <2>5, <2>7 DEF SupersededStaysBehind, Exists
  <1>5. CASE CleanupMarkFails(c) \/ CleanupEnd(c)
    <2>1. \A k \in Cleaners : cleaner'[k].todo \cup cleaner'[k].at
                                 \subseteq cleaner[k].todo \cup cleaner[k].at
      BY <1>1, <1>5 DEF CleanupMarkFails, CleanupEnd, CleanerState, IdleCleaner
    <2> QED
      BY <1>5, <2>1, KeptSame DEF CleanupMarkFails, CleanupEnd
  <1> QED
    BY <1>2, <1>3, <1>4, <1>5 DEF CleanupStep

(* Every step of SyncProduct keeps superseded versions behind.             *)
LEMMA KeptSync ==
    ASSUME TypeInv, Inv, SupersededStaysBehind, NEW s \in Syncers,
           SyncStep(s) \/ \E p \in Products : SyncBegin(s, p)
    PROVE  SupersededStaysBehind'
  <1>1. sync[s] \in SyncState /\ DOMAIN sync = Syncers
    BY DEF TypeInv, TypeOK
  <1>2. ASSUME ~SyncCommit(s), ~SyncPublish(s)
        PROVE  /\ UNCHANGED <<rows, artifacts, cleaner>>
               /\ \A t \in Syncers \ {s} : sync'[t] = sync[t]
               /\ sync'[s].pc # "publish"
    BY <1>1, <1>2
       DEF SyncStep, SyncBegin, SyncLoadFails, SyncLoad, SyncFails, Fail, SyncNotModified,
           SyncDownload, SyncValidate, SyncStage, SyncRecord, SyncState, IdleSync
  <1> QED
    BY <1>2, KeptCommit, KeptPublish, KeptSame

(* So do releases, deadlines and crashes.                                  *)
LEMMA KeptEnvironment ==
    ASSUME TypeInv, SupersededStaysBehind,
           \/ \E p \in Products : \/ UpstreamRelease(p)
                                  \/ \E v \in Versions : DeadlinePasses(p, v)
           \/ Crash
    PROVE  SupersededStaysBehind'
  <1>1. ASSUME NEW p \in Products, UpstreamRelease(p) PROVE SupersededStaysBehind'
    BY <1>1, KeptSame DEF UpstreamRelease
  <1>2. ASSUME NEW p \in Products, NEW v \in Versions, DeadlinePasses(p, v)
        PROVE  SupersededStaysBehind'
    <2>1. /\ rows'[p][v] = [rows[p][v] EXCEPT !.cleanup_deadline = "passed"]
          /\ \A w \in Versions : w # v => rows'[p][w] = rows[p][w]
          /\ \A q \in Products : q # p => rows'[q] = rows[q]
          /\ UNCHANGED <<artifacts, sync, cleaner>>
      BY <1>2 DEF DeadlinePasses, TypeInv, TypeOK, Table
    <2>2. rows[p][v] \in Row
      BY Numbers
    <2>3. /\ rows'[p][v].sha256 = rows[p][v].sha256
          /\ rows'[p][v].is_current = rows[p][v].is_current
          /\ rows'[p][v].is_deleted = rows[p][v].is_deleted
      BY <2>1, <2>2 DEF Row
    <2>4. \A q \in Products : \A w \in Versions :
             /\ rows'[q][w].sha256 = rows[q][w].sha256
             /\ rows'[q][w].is_current = rows[q][w].is_current
             /\ rows'[q][w].is_deleted = rows[q][w].is_deleted
      BY <2>1, <2>3
    <2>5. \A q \in Products : \A w \in Versions : Behind(q, w) => Behind(q, w)'
      BY <2>4 DEF Behind
    <2>6. \A c \in Cleaners : \A e \in cleaner[c].todo \cup cleaner[c].at :
             Behind(e.product, e.version)'
      <3> SUFFICES ASSUME NEW c \in Cleaners, NEW e \in cleaner[c].todo \cup cleaner[c].at
                   PROVE  Behind(e.product, e.version)'
        OBVIOUS
      <3>1. cleaner[c].todo \subseteq Listed /\ cleaner[c].at \subseteq Listed
        BY DEF TypeInv, TypeOK, CleanerState
      <3>2. e.product \in Products /\ e.version \in Versions
        BY <3>1 DEF Listed
      <3> QED
        BY <2>5, <3>2 DEF SupersededStaysBehind
    <2> QED
      BY <2>1, <2>4, <2>5, <2>6 DEF SupersededStaysBehind, Exists
  <1>3. CASE Crash
    BY <1>3, KeptSame DEF Crash, IdleSync, IdleCleaner
  <1> QED
    BY <1>1, <1>2, <1>3

(* Downloads only read.                                                    *)
LEMMA KeptDownload ==
    ASSUME SupersededStaysBehind, NEW c \in Clients,
           DownloadStep(c) \/ \E p \in Products, v \in Versions : DownloadLookup(c, p, v)
    PROVE  SupersededStaysBehind'
  BY KeptSame DEF DownloadStep, DownloadLookup, DownloadOpen, DownloadDone

(* Without rollbacks the retention invariant is inductive.                 *)
LEMMA KeptNext ==
    TypeInv /\ Inv /\ SupersededStaysBehind /\ [NextWithoutRollback]_vars
        => SupersededStaysBehind'
  <1> SUFFICES ASSUME TypeInv, Inv, SupersededStaysBehind, [NextWithoutRollback]_vars
               PROVE  SupersededStaysBehind'
    OBVIOUS
  <1>1. CASE UNCHANGED vars
    BY <1>1, KeptSame DEF vars
  <1> QED
    BY <1>1, KeptSync, KeptCleanup, KeptDownload, KeptEnvironment DEF NextWithoutRollback

(* Types, invariant and retention hold as long as nobody rolls back.       *)
LEMMA KeptInvariance == SpecWithoutRollback => [](TypeInv /\ Inv /\ SupersededStaysBehind)
  <1>1. Init => TypeInv /\ Inv /\ SupersededStaysBehind
    BY TypeInit, InvInit, KeptInit
  <1>2. TypeInv /\ Inv /\ SupersededStaysBehind /\ [NextWithoutRollback]_vars
           => (TypeInv /\ Inv /\ SupersededStaysBehind)'
    BY TypeNext, InvNext, KeptNext DEF Next
  <1> QED
    BY <1>1, <1>2, PTL DEF SpecWithoutRollback

(* As long as no operator rolls back, every superseded version, and every  *)
(* version on some cleanup's list however stale, is older than the current *)
(* one, and a sync about to publish has its file in storage.               *)
THEOREM SupersededIsForGood == SpecWithoutRollback => []SupersededStaysBehind
  BY KeptInvariance, PTL

(* As long as no operator rolls back, the current version of a product is  *)
(* never marked deleted and its file is always in storage, whatever syncs  *)
(* and cleanups overlap and wherever the process dies: RunCleanup works    *)
(* from a list that may be stale, but a superseded version never becomes   *)
(* current again.                                                          *)
THEOREM CurrentIsNeverPurged == SpecWithoutRollback => []CurrentIsKept
  <1>1. TypeInv /\ Inv /\ SupersededStaysBehind => CurrentIsKept
    <2> SUFFICES ASSUME TypeInv, Inv, SupersededStaysBehind,
                        NEW p \in Products, NEW v \in Versions, rows[p][v].is_current
                 PROVE  /\ IsLive(rows[p][v])
                        /\ artifacts[p][v] \in Builds
                        /\ artifacts[p][v] >= rows[p][v].sha256
      BY DEF CurrentIsKept
    <2>1. Exists(rows[p][v]) /\ ~rows[p][v].is_deleted /\ artifacts[p][v] # NoBuild
      BY DEF Inv, CatalogOK, Scheduled, SupersededStaysBehind
    <2>2. artifacts[p][v] \in Builds /\ rows[p][v].sha256 <= artifacts[p][v]
      BY <2>1 DEF Inv, CatalogOK
    <2> QED
      BY <2>1, <2>2, Numbers DEF IsLive, NoBuild
  <1> QED
    BY <1>1, KeptInvariance, PTL
=============================================================================
