--------------------------- MODULE CatalogProofs ---------------------------
(* What the transactions of internal/db/products.go do to one product's    *)
(* rows, for every table, version and build.                               *)
EXTENDS Catalog, TLAPS

(* A build's date is a version.                                            *)
LEMMA DateIsVersion ==
    ASSUME NEW b \in Builds PROVE BuildDate[b] \in Versions
  BY DEF Versions

(* Superseding clears is_current everywhere and touches no digest.         *)
LEMMA SupersedeRows ==
    ASSUME NEW t \in Table
    PROVE  /\ Supersede(t) \in Table
           /\ \A v \in Versions :
                /\ ~Supersede(t)[v].is_current
                /\ Supersede(t)[v].sha256 = t[v].sha256
                /\ Supersede(t)[v].released_at = t[v].released_at
                /\ Supersede(t)[v].is_deleted = t[v].is_deleted
                /\ Supersede(t)[v].cleanup_deadline =
                     IF t[v].is_current THEN "pending" ELSE t[v].cleanup_deadline
  BY DEF Table, Row, Supersede

(* PublishNewVersion: its own row is current and live, others superseded.  *)
LEMMA PublishRows ==
    ASSUME NEW t \in Table, NEW v \in Versions, NEW b \in Builds
    PROVE  /\ PublishNewVersion(t, v, b) \in Table
           /\ PublishNewVersion(t, v, b)[v].sha256 = b
           /\ PublishNewVersion(t, v, b)[v].released_at =
                IF Exists(t[v]) THEN t[v].released_at ELSE b
           /\ PublishNewVersion(t, v, b)[v].is_current
           /\ ~PublishNewVersion(t, v, b)[v].is_deleted
           /\ PublishNewVersion(t, v, b)[v].cleanup_deadline = "null"
           /\ \A w \in Versions \ {v} :
                PublishNewVersion(t, v, b)[w] = Supersede(t)[w]
  <1>1. Supersede(t) \in Table
    BY SupersedeRows
  <1>2. t[v] \in Row
    BY DEF Table
  <1> QED
    BY <1>1, <1>2 DEF PublishNewVersion, Table, Row, Exists

(* A publication writes the digest of its own row and of no other.         *)
LEMMA PublishDigests ==
    ASSUME NEW t \in Table, NEW v \in Versions, NEW b \in Builds
    PROVE  /\ PublishNewVersion(t, v, b)[v].sha256 = b
           /\ \A w \in Versions \ {v} : PublishNewVersion(t, v, b)[w].sha256 = t[w].sha256
  <1>1. \A w \in Versions \ {v} : PublishNewVersion(t, v, b)[w] = Supersede(t)[w]
    BY PublishRows
  <1>2. \A w \in Versions : Supersede(t)[w].sha256 = t[w].sha256
    BY SupersedeRows
  <1>3. PublishNewVersion(t, v, b)[v].sha256 = b
    BY PublishRows
  <1> QED
    BY <1>1, <1>2, <1>3

(* RollbackToVersion: the promoted row is current, others superseded.      *)
LEMMA RollbackRows ==
    ASSUME NEW t \in Table, NEW v \in Versions
    PROVE  /\ RollbackToVersion(t, v) \in Table
           /\ RollbackToVersion(t, v)[v].sha256 = t[v].sha256
           /\ RollbackToVersion(t, v)[v].released_at = t[v].released_at
           /\ RollbackToVersion(t, v)[v].is_deleted = t[v].is_deleted
           /\ RollbackToVersion(t, v)[v].is_current
           /\ RollbackToVersion(t, v)[v].cleanup_deadline = "null"
           /\ \A w \in Versions \ {v} : RollbackToVersion(t, v)[w] = Supersede(t)[w]
  <1>1. Supersede(t) \in Table
    BY SupersedeRows
  <1>2. /\ Supersede(t)[v].sha256 = t[v].sha256
        /\ Supersede(t)[v].released_at = t[v].released_at
        /\ Supersede(t)[v].is_deleted = t[v].is_deleted
    BY SupersedeRows
  <1> QED
    BY <1>1, <1>2 DEF RollbackToVersion, Table, Row

(* MarkVersionDeleted touches neither is_current nor a deadline.           *)
LEMMA MarkRows ==
    ASSUME NEW t \in Table, NEW v \in Versions
    PROVE  /\ MarkVersionDeleted(t, v) \in Table
           /\ \A w \in Versions :
                /\ MarkVersionDeleted(t, v)[w].sha256 = t[w].sha256
                /\ MarkVersionDeleted(t, v)[w].released_at = t[w].released_at
                /\ MarkVersionDeleted(t, v)[w].is_current = t[w].is_current
                /\ MarkVersionDeleted(t, v)[w].cleanup_deadline = t[w].cleanup_deadline
                /\ w # v => MarkVersionDeleted(t, v)[w] = t[w]
  BY DEF Table, Row, MarkVersionDeleted

(* Neither a rollback nor a purge changes a digest.                        *)
LEMMA RollbackKeepsDigests ==
    ASSUME NEW t \in Table, NEW v \in Versions
    PROVE  \A w \in Versions : RollbackToVersion(t, v)[w].sha256 = t[w].sha256
  <1> SUFFICES ASSUME NEW w \in Versions
               PROVE  RollbackToVersion(t, v)[w].sha256 = t[w].sha256
    OBVIOUS
  <1>1. CASE w = v
    BY <1>1, RollbackRows
  <1>2. CASE w # v
    BY <1>2, RollbackRows, SupersedeRows
  <1> QED
    BY <1>1, <1>2

(* PublishNewVersion leaves exactly one current version, and a deadline on *)
(* every other row.                                                        *)
LEMMA PublishKeepsCatalog ==
    ASSUME NEW t \in Table, NEW v \in Versions, NEW b \in Builds, Scheduled(t)
    PROVE  /\ OneCurrent(PublishNewVersion(t, v, b))
           /\ Scheduled(PublishNewVersion(t, v, b))
  <1>1. b # NoBuild
    BY MaxBuildAssumption DEF Builds, NoBuild
  <1>2. \A w \in Versions \ {v} : ~PublishNewVersion(t, v, b)[w].is_current
    BY SupersedeRows, PublishRows
  <1>3. OneCurrent(PublishNewVersion(t, v, b))
    BY <1>2 DEF OneCurrent
  <1>4. ASSUME NEW w \in Versions \ {v}, Exists(Supersede(t)[w])
        PROVE  Supersede(t)[w].cleanup_deadline # "null"
    <2>1. Exists(t[w])
      BY <1>4, SupersedeRows DEF Exists
    <2> QED
      BY <2>1, SupersedeRows DEF Scheduled
  <1>5. Scheduled(PublishNewVersion(t, v, b))
    BY <1>1, <1>2, <1>4, PublishRows DEF Scheduled, Exists
  <1> QED
    BY <1>3, <1>5

(* So does RollbackToVersion, when the target row is live.                 *)
LEMMA RollbackKeepsCatalog ==
    ASSUME NEW t \in Table, NEW v \in Versions, Scheduled(t), IsLive(t[v])
    PROVE  /\ OneCurrent(RollbackToVersion(t, v))
           /\ Scheduled(RollbackToVersion(t, v))
  <1>1. Exists(t[v]) /\ Exists(RollbackToVersion(t, v)[v])
    BY RollbackRows DEF IsLive, Exists
  <1>2. \A w \in Versions \ {v} : ~RollbackToVersion(t, v)[w].is_current
    BY SupersedeRows, RollbackRows
  <1>3. OneCurrent(RollbackToVersion(t, v))
    BY <1>2 DEF OneCurrent
  <1>4. ASSUME NEW w \in Versions \ {v}, Exists(Supersede(t)[w])
        PROVE  Supersede(t)[w].cleanup_deadline # "null"
    <2>1. Exists(t[w])
      BY <1>4, SupersedeRows DEF Exists
    <2> QED
      BY <2>1, SupersedeRows DEF Scheduled
  <1>5. Scheduled(RollbackToVersion(t, v))
    BY <1>1, <1>2, <1>4, RollbackRows DEF Scheduled
  <1> QED
    BY <1>3, <1>5

(* A purge keeps the catalogue consistent.                                 *)
LEMMA MarkKeepsCatalog ==
    ASSUME NEW t \in Table, NEW v \in Versions, OneCurrent(t), Scheduled(t)
    PROVE  /\ OneCurrent(MarkVersionDeleted(t, v))
           /\ Scheduled(MarkVersionDeleted(t, v))
  <1>1. \A w \in Versions : /\ MarkVersionDeleted(t, v)[w].is_current = t[w].is_current
                            /\ MarkVersionDeleted(t, v)[w].cleanup_deadline = t[w].cleanup_deadline
                            /\ Exists(MarkVersionDeleted(t, v)[w]) <=> Exists(t[w])
    BY MarkRows DEF Exists
  <1>2. OneCurrent(MarkVersionDeleted(t, v))
    BY <1>1, Zenon DEF OneCurrent
  <1>3. Scheduled(MarkVersionDeleted(t, v))
    BY <1>1, Zenon DEF Scheduled
  <1> QED
    BY <1>2, <1>3
============================================================================
