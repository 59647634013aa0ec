----------------------------- MODULE Operations -----------------------------
(***************************************************************************)
(* The life of the process around its database: the forward-only migrations *)
(* that every start runs first (internal/db/migrator.go, main.go), and the *)
(* snapshots that the scheduler and administrators take once it is up      *)
(* (internal/workers/backup.go, VacuumInto in internal/db/db.go).          *)
(*                                                                         *)
(* A release embeds scripts, numbered by version; the digest of a script   *)
(* stands for its text.  A snapshot is named after the second in which the *)
(* call began, and the name orders snapshots.                              *)
(***************************************************************************)
EXTENDS Integers, FiniteSets, FiniteSetsExt

CONSTANTS Releases,
          Digests,
          Scripts,      \* of each release: a function from versions to digests
          Calls,        \* concurrent calls of CreateBackup (bound)
          MaxSecond,    \* seconds that pass (bound)
          Keep          \* retentionCount

(* Atoi reads a version from the name of a script, 0001_..., and a digest  *)
(* is a text in hexadecimal, never the one that stands for no record.      *)
ASSUME ScriptsAssumption ==
    \A r \in Releases : /\ DOMAIN Scripts[r] \subseteq Nat
                        /\ \A v \in DOMAIN Scripts[r] : Scripts[r][v] \in Digests
ASSUME DigestsAssumption   == "none" \notin Digests
ASSUME MaxSecondAssumption == MaxSecond \in Nat \ {0}
ASSUME KeepAssumption      == Keep \in Nat \ {0}

Versions == UNION {DOMAIN Scripts[r] : r \in Releases}
Seconds  == 1..MaxSecond

VARIABLES
    release,           \* the installed release
    process,           \* main: down, in RunMigrations, or serving
    migrations,        \* the scripts that RunMigrations has yet to process
    schema_migrations, \* the table
    executed,          \* how often each script has changed the schema
    clock,
    files,             \* the directory BACKUP_ROOT
    backup,            \* local state of each call
    taken              \* history: how many calls, up to two, chose each name

opVars == <<release, process, migrations, schema_migrations, executed, clock, files,
            backup, taken>>
bootVars   == <<release, process, migrations, schema_migrations, executed>>
backupVars == <<clock, files, backup, taken>>

Schema == {v \in Versions : executed[v] > 0}

File   == [state : {"none", "partial", "whole"}, schema : SUBSET Versions,
           release : Releases \cup {"none"}]
NoFile == [state |-> "none", schema |-> {}, release |-> "none"]

CallState == [pc : {"idle", "remove", "exec", "vacuum", "rotate", "delete"},
              name : Seconds \cup {0}, toDelete : SUBSET Seconds]
IdleCall  == [pc |-> "idle", name |-> 0, toDelete |-> {}]

OperationsTypeOK ==
    /\ release \in Releases
    /\ process \in {"down", "migrating", "serving"}
    /\ migrations \in SUBSET DOMAIN Scripts[release]
    /\ schema_migrations \in [Versions -> Digests \cup {"none"}]
    /\ executed \in [Versions -> 0..1]
    /\ clock  \in Seconds
    /\ files  \in [Seconds -> File]
    /\ backup \in [Calls -> CallState]
    /\ taken  \in [Seconds -> 0..2]

OperationsInit ==
    /\ release \in Releases
    /\ process = "down"
    /\ migrations = {}
    /\ schema_migrations = [v \in Versions |-> "none"]
    /\ executed = [v \in Versions |-> 0]
    /\ clock  = 1
    /\ files  = [s \in Seconds |-> NoFile]
    /\ backup = [c \in Calls |-> IdleCall]
    /\ taken  = [s \in Seconds |-> 0]
----------------------------------------------------------------------------
(* The operator installs a release, newer or older, while nothing runs.    *)
Install(r) ==
    /\ process = "down" /\ r # release
    /\ release' = r
    /\ UNCHANGED <<process, migrations, schema_migrations, executed, backupVars>>

(* RunMigrations reads the embedded scripts.                               *)
Boot ==
    /\ process = "down"
    /\ process' = "migrating"
    /\ migrations' = DOMAIN Scripts[release]
    /\ UNCHANGED <<release, schema_migrations, executed, backupVars>>

NextMigration == Min(migrations)

(* Mutant: a recorded script is run again, and fails on what is there.     *)
RunRecordedAgain ==
    /\ process = "migrating" /\ migrations # {}
    /\ schema_migrations[NextMigration] = Scripts[release][NextMigration]
    /\ process' = "down"
    /\ migrations' = {}
    /\ UNCHANGED <<release, schema_migrations, executed, backupVars>>

(* Mutant: a script that has changed since it was applied is passed over.  *)
VerifyAnyDigest ==
    /\ process = "migrating" /\ migrations # {}
    /\ schema_migrations[NextMigration] # "none"
    /\ migrations' = migrations \ {NextMigration}
    /\ UNCHANGED <<release, process, schema_migrations, executed, backupVars>>

(* A script that is recorded with this digest is passed over.              *)
VerifyMigration ==
    /\ process = "migrating" /\ migrations # {}
    /\ schema_migrations[NextMigration] = Scripts[release][NextMigration]
    /\ migrations' = migrations \ {NextMigration}
    /\ UNCHANGED <<release, process, schema_migrations, executed, backupVars>>

(* Mutant: the script and its record are not one transaction.              *)
ApplyThenRecord ==
    LET v == NextMigration
    IN  /\ process = "migrating" /\ migrations # {}
        /\ schema_migrations[v] = "none"
        /\ executed' = [executed EXCEPT ![v] = @ + 1]
        /\ \/ /\ schema_migrations' = [schema_migrations EXCEPT ![v] = Scripts[release][v]]
              /\ migrations' = migrations \ {v}
              /\ UNCHANGED process
           \/ /\ process' = "down" /\ migrations' = {}
              /\ UNCHANGED schema_migrations
        /\ UNCHANGED <<release, backupVars>>

(* A new script runs in one transaction with the insert of its record.     *)
ApplyMigration ==
    LET v == NextMigration
    IN  /\ process = "migrating" /\ migrations # {}
        /\ schema_migrations[v] = "none"
        /\ executed' = [executed EXCEPT ![v] = @ + 1]
        /\ schema_migrations' = [schema_migrations EXCEPT ![v] = Scripts[release][v]]
        /\ migrations' = migrations \ {v}
        /\ UNCHANGED <<release, process, backupVars>>

(* Recorded with another digest: log.Fatalf.                               *)
Mismatch(v) == schema_migrations[v] \notin {"none", Scripts[release][v]}

MigrationRefused ==
    /\ process = "migrating" /\ migrations # {} /\ Mismatch(NextMigration)
    /\ process' = "down"
    /\ migrations' = {}
    /\ UNCHANGED <<release, schema_migrations, executed, backupVars>>

(* Storage, scheduler and HTTP server start after the last script.         *)
Serve ==
    /\ process = "migrating" /\ migrations = {}
    /\ process' = "serving"
    /\ UNCHANGED <<release, migrations, schema_migrations, executed, backupVars>>

(* The process stops or is stopped, or a statement fails while it starts:  *)
(* a transaction that has not committed is undone, files stay as they are. *)
Crash ==
    /\ process # "down"
    /\ process' = "down"
    /\ migrations' = {}
    /\ backup' = [c \in Calls |-> IdleCall]
    /\ UNCHANGED <<release, schema_migrations, executed, clock, files, taken>>
----------------------------------------------------------------------------
Goto(c, pc) == backup' = [backup EXCEPT ![c].pc = pc]
Name(c)     == backup[c].name
Present(s)  == files[s].state # "none"

Tick ==
    /\ clock < MaxSecond
    /\ clock' = clock + 1
    /\ UNCHANGED <<bootVars, files, backup, taken>>

(* CreateBackup, called by the scheduler or by handleCreateBackup, makes   *)
(* up its name.                                                            *)
CreateBackup(c) ==
    /\ process = "serving" /\ backup[c].pc = "idle"
    /\ backup' = [backup EXCEPT ![c] = [pc |-> "remove", name |-> clock, toDelete |-> {}]]
    /\ taken' = [taken EXCEPT ![clock] = IF @ = 2 THEN 2 ELSE @ + 1]
    /\ UNCHANGED <<bootVars, clock, files>>

(* VacuumInto removes a file of that name, finished, broken or being       *)
(* written.                                                                *)
RemoveTarget(c) ==
    /\ backup[c].pc = "remove"
    /\ files' = [files EXCEPT ![Name(c)] = NoFile]
    /\ Goto(c, "exec")
    /\ UNCHANGED <<bootVars, clock, taken>>

(* VACUUM INTO gets the only connection and creates its file; it refuses   *)
(* one that is there, unless it is empty.                                  *)
VacuumBegin(c) ==
    /\ backup[c].pc = "exec"
    /\ \A d \in Calls : backup[d].pc # "vacuum"
    /\ files[Name(c)].state # "whole"
    /\ files' = [files EXCEPT ![Name(c)] =
                    [state |-> "partial", schema |-> {}, release |-> release]]
    /\ Goto(c, "vacuum")
    /\ UNCHANGED <<bootVars, clock, taken>>

(* The snapshot is complete, at its path unless it was unlinked meanwhile. *)
VacuumEnd(c) ==
    /\ backup[c].pc = "vacuum"
    /\ files' = IF Present(Name(c))
                THEN [files EXCEPT ![Name(c)] =
                        [state |-> "whole", schema |-> Schema, release |-> release]]
                ELSE files
    /\ Goto(c, "rotate")
    /\ UNCHANGED <<bootVars, clock, taken>>

(* Mutant: the error of the statement is ignored.                          *)
VacuumErrorIgnored(c) ==
    /\ backup[c].pc \in {"exec", "vacuum"}
    /\ Goto(c, "rotate")
    /\ UNCHANGED <<bootVars, clock, files, taken>>

(* It fails, at once or on the way: what was written stays, and CreateBackup *)
(* returns the error before it rotates.                                    *)
VacuumFails(c) ==
    /\ backup[c].pc \in {"exec", "vacuum"}
    /\ backup' = [backup EXCEPT ![c] = IdleCall]
    /\ UNCHANGED <<bootVars, clock, files, taken>>

Newer(s) == {t \in Seconds : t > s}

(* Mutant: the list is cut at the wrong end.                               *)
NewestSnapshots ==
    LET snapshots == {s \in Seconds : Present(s)}
    IN  {s \in snapshots : Cardinality(snapshots \ Newer(s)) > Keep}

(* All but the last Keep of the sorted names, whatever the files hold.     *)
OldSnapshots ==
    LET snapshots == {s \in Seconds : Present(s)}
    IN  {s \in snapshots : Cardinality(snapshots \cap Newer(s)) >= Keep}

(* rotateLocalBackups reads the directory ...                              *)
RotateList(c) ==
    /\ backup[c].pc = "rotate"
    /\ backup' = [backup EXCEPT ![c].pc = "delete", ![c].toDelete = OldSnapshots]
    /\ UNCHANGED <<bootVars, clock, files, taken>>

(* ... and deletes the files one by one, oldest first, ignoring errors.    *)
RotateDelete(c) ==
    LET s == Min(backup[c].toDelete)
    IN  /\ backup[c].pc = "delete" /\ backup[c].toDelete # {}
        /\ files' \in {files, [files EXCEPT ![s] = NoFile]}
        /\ backup' = [backup EXCEPT ![c].toDelete = @ \ {s}]
        /\ UNCHANGED <<bootVars, clock, taken>>

Return(c) ==
    /\ backup[c].pc = "delete" /\ backup[c].toDelete = {}
    /\ backup' = [backup EXCEPT ![c] = IdleCall]
    /\ UNCHANGED <<bootVars, clock, files, taken>>
----------------------------------------------------------------------------
BootStep ==
    \/ Boot \/ VerifyMigration \/ ApplyMigration \/ MigrationRefused \/ Serve

BackupStep(c) ==
    \/ CreateBackup(c) \/ RemoveTarget(c) \/ VacuumBegin(c) \/ VacuumEnd(c) \/ VacuumFails(c)
    \/ RotateList(c) \/ RotateDelete(c) \/ Return(c)

OperationsNext ==
    \/ \E r \in Releases : Install(r)
    \/ BootStep
    \/ Crash
    \/ Tick
    \/ \E c \in Calls : BackupStep(c)

(* The supervisor restarts the process, and it does not stop at the same   *)
(* script for ever; nothing is assumed of operators, clocks or backups.    *)
OperationsFairness ==
    /\ WF_opVars(Boot)
    /\ \A v \in Versions :
          SF_opVars(migrations # {} /\ NextMigration = v /\ (VerifyMigration \/ ApplyMigration))
    /\ SF_opVars(Serve)

OperationsSpec == OperationsInit /\ [][OperationsNext]_opVars /\ OperationsFairness
----------------------------------------------------------------------------
(* While requests are served, every script of the installed release is     *)
(* recorded with its digest and has taken effect once, no matter at which  *)
(* statement earlier starts broke off, and which releases made them.       *)
(* Scripts of a newer release may be there as well: nothing in the         *)
(* migrator refuses a downgrade.                                           *)
ServesVerified ==
    process = "serving" =>
        \A v \in DOMAIN Scripts[release] :
            schema_migrations[v] = Scripts[release][v] /\ executed[v] = 1

(* Every complete snapshot can be restored under the release that took it. *)
(* main ends the migrations before it starts the scheduler, so no backup   *)
(* sees the database between two of them.                                  *)
SnapshotIsMigrated ==
    \A s \in Seconds : files[s].state = "whole" =>
        DOMAIN Scripts[files[s].release] \subseteq files[s].schema

Reused(s) == taken[s] = 2

(* A call that is past VACUUM INTO has its snapshot, complete, unless a    *)
(* second call of the same second took its name, or newer names have       *)
(* already rotated it out.                                                 *)
SuccessIsASnapshot ==
    \A c \in Calls : backup[c].pc = "rotate" =>
        \/ files[Name(c)].state = "whole"
        \/ Reused(Name(c))
        \/ Cardinality({t \in Newer(Name(c)) : Present(t) \/ Reused(t)}) >= Keep

(* Rotation never goes too far: a complete snapshot disappears only while  *)
(* Keep newer names exist, also when two rotations work on lists that are  *)
(* out of date.  Names that two calls of one second shared may be missing. *)
KeepsTheNewest ==
    [][\A s \in Seconds :
          files[s].state = "whole" /\ files'[s].state # "whole" =>
              \/ Reused(s)
              \/ Cardinality({t \in Newer(s) : Present(t) \/ Reused(t)}) >= Keep]_opVars

(* However often a start breaks off, the service comes up, unless a script *)
(* was edited after it had been applied.                                   *)
ComesUp == []<>(process = "serving" \/ \E v \in DOMAIN Scripts[release] : Mismatch(v))
=============================================================================
