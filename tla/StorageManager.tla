--------------------------- MODULE StorageManager ---------------------------
(***************************************************************************)
(* The storage manager (internal/storage/manager.go) with its two drivers, *)
(* the settings page that switches them at run time (internal/ui) and the  *)
(* start of the process (main.go), in which the scheduler runs before      *)
(* ReloadStorage has restored the driver.                                  *)
(*                                                                         *)
(* There is one S3 bucket, named in the settings or not yet.  A storage    *)
(* path tells the driver that made it (p/v/f or artifacts/p/v/f), so a     *)
(* driver never finds a path of the other.  How the filesystem stages a    *)
(* file is in Distribution; here its operations are atomic, which its      *)
(* RWMutex and the rename give, while S3 needs two calls to open.          *)
(***************************************************************************)
EXTENDS Catalog

CONSTANTS Callers,    \* concurrent calls of the manager
          Saves       \* concurrent requests that save the settings

ASSUME SavesAssumption == "main" \notin Saves

VARIABLES
    settings,    \* table settings: storage_backend, and whether s3_bucket is set
    manager,     \* StorageManager: activeDriver, and whether s3Storage is not nil
    phase,       \* "boot" until main has called ReloadStorage
    objects,     \* what each driver holds for each version
    call,        \* the call each caller is in
    save         \* handleSettingsSave requests, and main's own ReloadStorage

managerVars == <<settings, manager, phase, objects, call, save>>

Drivers == {"filesystem", "s3"}
StoragePath == [driver : Drivers, version : Versions]
Reloaders == Saves \cup {"main"}

NoPath == [driver |-> "nil", version |-> 0]
NoCall == [op |-> "none", path |-> NoPath, data |-> NoBuild, active |-> "filesystem",
           fallback |-> "nil", pc |-> "idle", status |-> "none", body |-> NoBuild]

(* data: the build to store, or the sha256 of the row that a download read. *)
CallState ==
    [op       : {"store", "open", "delete"},
     path     : StoragePath,
     data     : Builds \cup {NoBuild},
     active   : Drivers,
     fallback : Drivers \cup {"nil"},
     pc       : {"active", "activeGet", "fallback", "fallbackGet", "done"},
     status   : {"pending", "ok", "notfound", "error"},
     body     : Builds \cup {NoBuild}]

SaveState == {"idle", "backend", "reload", "register", "activate", "filesystem"}

StorageTypeOK ==
    /\ settings \in [storage_backend : Drivers, s3_bucket : BOOLEAN]
    /\ manager  \in [activeDriver : Drivers, s3Storage : BOOLEAN]
    /\ phase    \in {"boot", "serving"}
    /\ objects  \in [Drivers -> [Versions -> Builds \cup {NoBuild}]]
    /\ call     \in [Callers -> CallState \cup {NoCall}]
    /\ save     \in [Reloaders -> SaveState]

(* Mutant: the zero value of activeDriver.                                 *)
UnsetManager == [activeDriver |-> "", s3Storage |-> FALSE]

(* NewStorageManager, and main on its way to ReloadStorage.                *)
NewManager == [activeDriver |-> "filesystem", s3Storage |-> FALSE]
Starting == [a \in Reloaders |-> IF a = "main" THEN "reload" ELSE "idle"]

ManagerInit ==
    /\ settings = [storage_backend |-> "filesystem", s3_bucket |-> FALSE]
    /\ manager  = NewManager
    /\ phase    = "boot"
    /\ objects  = [d \in Drivers |-> [v \in Versions |-> NoBuild]]
    /\ call     = [c \in Callers |-> NoCall]
    /\ save     = Starting
----------------------------------------------------------------------------
(* handleSettingsSave and ReloadStorage.  The errors of SetSetting and of  *)
(* GetSetting are ignored: when the request's context is cancelled nothing *)
(* is written any more and every setting reads as empty.  The context of   *)
(* main is not cancelled.  What the form says is chosen where it is used.  *)

(* An empty bucket field leaves that setting as it is, like a write that   *)
(* fails.                                                                  *)
SaveBucket(a, bucket) ==
    /\ phase = "serving"
    /\ save[a] = "idle"
    /\ settings' = [settings EXCEPT !.s3_bucket = @ \/ bucket]
    /\ save' = [save EXCEPT ![a] = "backend"]
    /\ UNCHANGED <<manager, phase, objects, call>>

SaveBackend(a) ==
    /\ save[a] = "backend"
    /\ \E backend \in Drivers : settings' = [settings EXCEPT !.storage_backend = backend]
    /\ save' = [save EXCEPT ![a] = "reload"]
    /\ UNCHANGED <<manager, phase, objects, call>>

ReloadStorage(a) ==
    /\ save[a] = "reload"
    /\ \E s3 \in {settings.storage_backend = "s3", settings.storage_backend = "s3" /\ a = "main"} :
          save' = [save EXCEPT ![a] = IF s3 THEN "register" ELSE "filesystem"]
    /\ UNCHANGED <<settings, manager, phase, objects, call>>

(* The bucket is read, and the driver registered when there is one: once   *)
(* named, the bucket is never unset, so that the two are one step.         *)
SetS3Storage(a) ==
    /\ save[a] = "register"
    /\ \E named \in {settings.s3_bucket, settings.s3_bucket /\ a = "main"} :
          /\ manager' = [manager EXCEPT !.s3Storage = @ \/ named]
          /\ save' = [save EXCEPT ![a] = IF named THEN "activate" ELSE "filesystem"]
    /\ UNCHANGED <<settings, phase, objects, call>>

(* The end of ReloadStorage; main goes on to serve requests.               *)
SetActiveDriver(a) ==
    /\ \/ /\ save[a] = "activate"
          /\ manager' = [manager EXCEPT !.activeDriver = IF manager.s3Storage THEN "s3" ELSE @]
       \/ /\ save[a] = "filesystem"
          /\ manager' = [manager EXCEPT !.activeDriver = "filesystem"]
    /\ save' = [save EXCEPT ![a] = "idle"]
    /\ phase' = IF a = "main" THEN "serving" ELSE phase
    /\ UNCHANGED <<settings, objects, call>>
----------------------------------------------------------------------------
(* Calls of the manager.                                                   *)

(* currentBackends: a snapshot taken once, at the start of a call.         *)
Active == IF manager.activeDriver = "s3" /\ manager.s3Storage THEN "s3" ELSE "filesystem"

Fallback == IF Active = "s3" THEN "filesystem"
            ELSE IF manager.s3Storage THEN "s3" ELSE "nil"

Begin(c, op, p, x) ==
    /\ call[c].pc = "idle"
    /\ call' = [call EXCEPT ![c] =
                  [op |-> op, path |-> p, data |-> x, active |-> Active,
                   fallback |-> Fallback, pc |-> "active", status |-> "pending",
                   body |-> NoBuild]]
    /\ UNCHANGED <<settings, manager, phase, objects, save>>

BeginStore(c, v, x) == Begin(c, "store", [driver |-> Active, version |-> v], x)

(* The driver a call is at, and what it finds there.                       *)
Asked(c) == IF call[c].pc \in {"active", "activeGet"} THEN call[c].active ELSE call[c].fallback

Found(c) == IF Asked(c) = call[c].path.driver
            THEN objects[Asked(c)][call[c].path.version] ELSE NoBuild

(* An S3 request whose answer is lost has taken effect and fails.          *)
Answers(driver) == IF driver = "s3" THEN {"ok", "error"} ELSE {"ok"}

Put(d, v, x) == objects' = [objects EXCEPT ![d][v] = x]

(* StoreArtifact uses the active driver only.                              *)
StoreArtifact(c) ==
    /\ call[c].op = "store" /\ call[c].pc = "active"
    /\ Put(call[c].active, call[c].path.version, call[c].data)
    /\ \E answer \in Answers(call[c].active) :
          call' = [call EXCEPT ![c].pc = "done", ![c].status = answer]
    /\ UNCHANGED <<settings, manager, phase, save>>

(* Mutant: the second driver is never asked.                               *)
OpenActiveOnly(c) ==
    /\ call[c].op = "open" /\ call[c].pc = "active"
    /\ call' = [call EXCEPT ![c] =
         [@ EXCEPT !.pc = "done", !.body = Found(c),
                   !.status = IF Found(c) = NoBuild THEN "notfound" ELSE "ok"]]
    /\ UNCHANGED <<settings, manager, phase, objects, save>>

(* Stat and Open of the filesystem, or HeadObject: only "not found" leads  *)
(* to the fallback driver.                                                 *)
OpenArtifact(c) ==
    /\ call[c].op = "open" /\ call[c].pc \in {"active", "fallback"}
    /\ call' = [call EXCEPT ![c] =
         IF Found(c) = NoBuild
         THEN IF call[c].pc = "active" /\ call[c].fallback # "nil"
              THEN [@ EXCEPT !.pc = "fallback"]
              ELSE [@ EXCEPT !.pc = "done", !.status = "notfound"]
         ELSE IF Asked(c) = "filesystem"
         THEN [@ EXCEPT !.pc = "done", !.status = "ok", !.body = Found(c)]
         ELSE [@ EXCEPT !.pc = IF call[c].pc = "active" THEN "activeGet" ELSE "fallbackGet"]]
    /\ UNCHANGED <<settings, manager, phase, objects, save>>

(* GetObject: an object that has gone since HeadObject is a plain error.   *)
OpenGet(c) ==
    /\ call[c].pc \in {"activeGet", "fallbackGet"}
    /\ call' = [call EXCEPT ![c] =
         [@ EXCEPT !.pc = "done", !.body = Found(c),
                   !.status = IF Found(c) = NoBuild THEN "error" ELSE "ok"]]
    /\ UNCHANGED <<settings, manager, phase, objects, save>>

(* Mutant: the error of the active driver is swallowed as well.            *)
DeletedAnyway(c, answer) ==
    [call[c] EXCEPT !.status = "ok",
                    !.pc = IF call[c].pc = "active" /\ call[c].fallback # "nil"
                           THEN "fallback" ELSE "done"]

(* Where a deletion goes on, and whose answer it keeps: the first one's.   *)
Deleted(c, answer) ==
    IF call[c].pc = "active"
    THEN [call[c] EXCEPT !.status = answer,
                         !.pc = IF call[c].fallback = "nil" THEN "done" ELSE "fallback"]
    ELSE [call[c] EXCEPT !.pc = "done"]

(* Deleting what is not there succeeds on both drivers.                    *)
DeleteArtifact(c) ==
    /\ call[c].op = "delete" /\ call[c].pc \in {"active", "fallback"}
    /\ IF Asked(c) = call[c].path.driver
       THEN Put(Asked(c), call[c].path.version, NoBuild)
       ELSE UNCHANGED objects
    /\ \E answer \in Answers(Asked(c)) : call' = [call EXCEPT ![c] = Deleted(c, answer)]
    /\ UNCHANGED <<settings, manager, phase, save>>

(* The driver that is asked fails: an outage, an I/O error, no permission. *)
DriverFails(c) ==
    /\ call[c].pc \in {"active", "activeGet", "fallback", "fallbackGet"}
    /\ call' = [call EXCEPT ![c] =
         IF call[c].op = "delete" THEN Deleted(c, "error")
         ELSE [@ EXCEPT !.pc = "done", !.status = "error"]]
    /\ UNCHANGED <<settings, manager, phase, objects, save>>

Return(c) ==
    /\ call[c].pc = "done"
    /\ call' = [call EXCEPT ![c] = NoCall]
    /\ UNCHANGED <<settings, manager, phase, objects, save>>

(* The process stops and is started again.                                 *)
Restart ==
    /\ manager' = NewManager
    /\ phase' = "boot"
    /\ call' = [c \in Callers |-> NoCall]
    /\ save' = Starting
    /\ UNCHANGED <<settings, objects>>

CallStep(c) ==
    \/ StoreArtifact(c) \/ OpenArtifact(c) \/ OpenGet(c) \/ DeleteArtifact(c)
    \/ DriverFails(c)

SaveStep(a) ==
    SaveBackend(a) \/ ReloadStorage(a) \/ SetS3Storage(a) \/ SetActiveDriver(a)

ManagerNext ==
    \/ \E c \in Callers :
          \/ \E v \in Versions, x \in Builds : BeginStore(c, v, x)
          \/ \E op \in {"open", "delete"}, p \in StoragePath, x \in Builds \cup {NoBuild} :
                Begin(c, op, p, x)
          \/ CallStep(c) \/ Return(c)
    \/ \E a \in Saves, bucket \in BOOLEAN : SaveBucket(a, bucket)
    \/ \E a \in Reloaders : SaveStep(a)
    \/ Restart

ManagerSpec == ManagerInit /\ [][ManagerNext]_managerVars
----------------------------------------------------------------------------
(* The refinement mapping.  A call takes effect where its path is kept: a  *)
(* deletion is pending until the driver of the path was asked, and an open *)
(* that the active driver of the path denied is decided before the other   *)
(* driver denies it too.                                                   *)
PlaceOf(r) == IF r.path.driver = r.active THEN "primary"
              ELSE IF r.path.driver = r.fallback THEN "secondary" ELSE "unknown"

StatusOf(r) ==
    IF r.pc = "fallback" /\ r.op = "open" /\ PlaceOf(r) = "primary" THEN "notfound"
    ELSE IF r.pc = "fallback" /\ r.op = "delete" /\ PlaceOf(r) # "primary" THEN "pending"
    ELSE r.status

RequestOf(r) ==
    IF r.op = "none"
    THEN [op |-> "none", path |-> NoPath, data |-> NoBuild, place |-> "primary",
          status |-> "none", body |-> NoBuild]
    ELSE [op |-> r.op, path |-> r.path, data |-> r.data, place |-> PlaceOf(r),
          status |-> StatusOf(r), body |-> r.body]

StoredNow == [p \in StoragePath |-> objects[p.driver][p.version]]
Requests  == [c \in Callers |-> RequestOf(call[c])]

Store == INSTANCE ArtifactStore WITH
    Paths <- StoragePath, Contents <- Builds \cup {NoBuild}, None <- NoBuild,
    stored <- StoredNow, request <- Requests

(* Whatever saves, failures and restarts come between the steps of a call, *)
(* the manager is one store: an open returns what its path holds at one    *)
(* moment of the call, whichever driver keeps it, and says "not found"     *)
(* only when nothing is there or the driver of the path was not registered *)
(* when the call began; a deletion that says ok has happened when the path *)
(* is kept by the driver that was active.                                  *)
ImplementsStore == Store!Spec
=============================================================================
