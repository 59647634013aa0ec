------------------------------ MODULE Catalog ------------------------------
(***************************************************************************)
(* The table product_versions and the queries of internal/db/products.go,  *)
(* as operators on the rows of one product.  Every query and every WithTx  *)
(* transaction is atomic: the database is opened with one connection       *)
(* (db.go, SetMaxOpenConns(1)), so statements and transactions serialize.  *)
(*                                                                         *)
(* Abstractions.  A build of a GeoLite database is a number, its build     *)
(* epoch: later builds are larger, and since MMDB files that differ have   *)
(* different digests, sha256 and released_at are the build they stand for. *)
(* A version is the UTC date of a build; two builds of one day share it.   *)
(* A deadline is "pending" until the clock passes it.  superseded_at is    *)
(* written exactly where cleanup_deadline is and nothing reads it.         *)
(***************************************************************************)
EXTENDS Naturals

CONSTANTS MaxBuild,     \* builds that upstream may release (bound)
          BuildDate     \* the version tag, YYYY-MM-DD, of each build

Builds == 1..MaxBuild

ASSUME MaxBuildAssumption == MaxBuild \in Nat \ {0}
ASSUME BuildDateAssumption ==
    /\ BuildDate \in [Builds -> Nat]
    /\ \A a, b \in Builds : a <= b => BuildDate[a] <= BuildDate[b]

Versions == {BuildDate[b] : b \in Builds}

NoBuild == 0

Row == [sha256           : Builds \cup {NoBuild},
        released_at      : Builds \cup {NoBuild},
        storage_path     : {"", "stored"},
        is_current       : BOOLEAN,
        cleanup_deadline : {"null", "pending", "passed"},
        is_deleted       : BOOLEAN]

(* A version that has no row.  UNIQUE (product_id, version) makes the rows *)
(* of a product a function of the version.                                 *)
NoRow == [sha256 |-> NoBuild, released_at |-> NoBuild, storage_path |-> "",
          is_current |-> FALSE, cleanup_deadline |-> "null", is_deleted |-> FALSE]

Table == [Versions -> Row]
EmptyTable == [v \in Versions |-> NoRow]

Exists(r)  == r.sha256 # NoBuild
IsLive(r)  == Exists(r) /\ ~r.is_deleted
----------------------------------------------------------------------------
(* WHERE is_current = 1 AND is_deleted = 0 LIMIT 1: any one of these.      *)
GetCurrentVersion(t) == {v \in Versions : t[v].is_current /\ IsLive(t[v])}

GetProductVersion(t, version) == {v \in {version} : IsLive(t[v])}

(* Mutant: the deadline is compared, is_current and NULL are forgotten.    *)
ExpiredOrCurrent(t) ==
    {v \in Versions : IsLive(t[v]) /\ t[v].cleanup_deadline # "pending"}

GetExpiredVersions(t) ==
    {v \in Versions : /\ IsLive(t[v])
                      /\ ~t[v].is_current
                      /\ t[v].cleanup_deadline = "passed"}

(* UPDATE ... SET is_current = 0, cleanup_deadline = ? WHERE is_current = 1 *)
Supersede(t) ==
    [v \in Versions |->
        IF t[v].is_current
        THEN [t[v] EXCEPT !.is_current = FALSE, !.cleanup_deadline = "pending"]
        ELSE t[v]]

(* The insert, whose ON CONFLICT clause keeps the released_at of the row   *)
(* it finds.                                                               *)
PublishNewVersion(t, version, build) ==
    [Supersede(t) EXCEPT ![version] =
        [sha256           |-> build,
         released_at      |-> IF Exists(t[version]) THEN t[version].released_at
                                                    ELSE build,
         storage_path     |-> "stored",
         is_current       |-> TRUE,
         cleanup_deadline |-> "null",
         is_deleted       |-> FALSE]]

(* Mutants: rollback does not demote the old current version; rollback     *)
(* leaves the promoted row its deadline.                                   *)
RollbackWithoutDemote(t, version) ==
    [t EXCEPT ![version].is_current = TRUE, ![version].cleanup_deadline = "null"]

RollbackKeepsDeadline(t, version) ==
    [Supersede(t) EXCEPT ![version].is_current = TRUE]

(* The caller has checked that the row is live, in the same transaction.   *)
RollbackToVersion(t, version) ==
    [Supersede(t) EXCEPT ![version].is_current = TRUE,
                         ![version].cleanup_deadline = "null"]

(* Mutant: the path is cleared, the flag is not set.                       *)
MarkPathOnly(t, version) == [t EXCEPT ![version].storage_path = ""]

MarkVersionDeleted(t, version) ==
    [t EXCEPT ![version].is_deleted = TRUE, ![version].storage_path = ""]
----------------------------------------------------------------------------
(* A version has a deadline exactly when it is not current, a current row  *)
(* is a row, and no two rows are current.                                  *)
OneCurrent(t) == \A v, w \in Versions : t[v].is_current /\ t[w].is_current => v = w

Scheduled(t) ==
    \A v \in Versions :
        /\ t[v].is_current => Exists(t[v])
        /\ Exists(t[v]) => (t[v].is_current <=> t[v].cleanup_deadline = "null")
============================================================================
