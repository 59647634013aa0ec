-------------------------- MODULE DistributionInv --------------------------
(* The inductive invariants behind the properties of Distribution.         *)
EXTENDS Distribution

(* A call that has a downloaded build in hand.                             *)
InFlight == {"validate", "stage", "commit", "publish"}

LocalsOK ==
    /\ \A s \in Syncers :
          /\ sync[s].pc # "idle" => sync[s].product \in Products
          /\ sync[s].pc \in InFlight => sync[s].build \in Builds
    /\ \A c \in Clients :
          client[c].pc # "idle" => /\ client[c].product \in Products
                                   /\ client[c].version \in Versions

TypeInv == TypeOK /\ LocalsOK

(* A product's mutex is held by every running sync of it: there is one.    *)
OneSyncPerProduct ==
    /\ \A s \in Syncers : sync[s].pc # "idle" => sync[s].product \in locks
    /\ \A s, t \in Syncers :
          /\ s # t
          /\ sync[s].pc # "idle"
          /\ sync[t].pc # "idle"
          => sync[s].product # sync[t].product

(* A row and a file hold builds of their date, a file is never older than  *)
(* its row, and nothing is newer than what upstream offers.                *)
CatalogOK ==
    /\ \A p \in Products : OneCurrent(rows[p]) /\ Scheduled(rows[p])
    /\ \A p \in Products : \A v \in Versions :
          /\ Exists(rows[p][v]) => BuildDate[rows[p][v].sha256] = v
          /\ rows[p][v].released_at <= rows[p][v].sha256
          /\ rows[p][v].sha256 <= upstream[p]
          /\ artifacts[p][v] # NoBuild =>
                /\ artifacts[p][v] \in Builds
                /\ BuildDate[artifacts[p][v]] = v
                /\ rows[p][v].sha256 <= artifacts[p][v]
                /\ artifacts[p][v] <= upstream[p]

(* A build in flight is at least as new as all the product has.            *)
NewestInFlight ==
    \A s \in Syncers : sync[s].pc \in InFlight =>
        /\ sync[s].build <= upstream[sync[s].product]
        /\ \A v \in Versions :
              /\ rows[sync[s].product][v].sha256 <= sync[s].build
              /\ artifacts[sync[s].product][v] <= sync[s].build
        /\ sync[s].pc = "commit" => sync[s].staging = sync[s].build
        /\ sync[s].pc = "publish" =>
              artifacts[sync[s].product][BuildDate[sync[s].build]] \in {NoBuild, sync[s].build}

(* The inductive invariant of the service, rollbacks included.             *)
Inv == OneSyncPerProduct /\ CatalogOK /\ NewestInFlight

(* A request that has its row and not yet its file: the row's digest is by *)
(* now the ETag's or a newer one.  And what is served is what was asked.   *)
DownloadsOK ==
    /\ \A c \in Clients : client[c].pc = "open" =>
          client[c].etag <= rows[client[c].product][client[c].version].sha256
    /\ ServedIsRequested

(* A running sync has no outcome until it goes to record one.              *)
OutcomeIsLast == \A s \in Syncers : sync[s].pc # "record" => sync[s].status = "none"

(* Older than the current version of its product.                          *)
Behind(p, v) == \E w \in Versions : rows[p][w].is_current /\ v < w

(* Without rollbacks a version that is once superseded stays behind the    *)
(* current one, so neither a sync nor the current row ever meets a version *)
(* that some cleanup has listed.                                           *)
SupersededStaysBehind ==
    /\ \A p \in Products : \A v \in Versions :
          /\ rows[p][v].is_current =>
                ~rows[p][v].is_deleted /\ artifacts[p][v] # NoBuild
          /\ Exists(rows[p][v]) /\ ~rows[p][v].is_current => Behind(p, v)
    /\ \A c \in Cleaners : \A e \in cleaner[c].todo \cup cleaner[c].at :
          Behind(e.product, e.version)
    /\ \A s \in Syncers : sync[s].pc = "publish" =>
          artifacts[sync[s].product][BuildDate[sync[s].build]] # NoBuild
============================================================================
