----------------------------- MODULE Scheduling -----------------------------
(***************************************************************************)
(* The scheduler (internal/workers/scheduler.go) over Distribution: one    *)
(* goroutine runs cleanups, syncs and backups in turn.  It starts with a   *)
(* cleanup; after that three tickers wake it, one every hour and two every *)
(* day of uptime.  A restart sets the tickers back, so a process that dies *)
(* more often than daily never syncs by schedule.                          *)
(*                                                                         *)
(* A ticker's channel holds one tick, and further ones are dropped while   *)
(* the goroutine is busy.  What a backup does is in Operations, and how    *)
(* the calls of administrators interleave with these in Distribution.      *)
(***************************************************************************)
EXTENDS Distribution

CONSTANTS ScheduledSync,      \* the calls that the goroutine makes
          ScheduledCleanup

ASSUME SchedulerAssumption ==
    ScheduledSync \in Syncers /\ ScheduledCleanup \in Cleaners

VARIABLES
    scheduler,   \* where the goroutine is, and the products it has yet to sync
    ticks        \* the tickers whose channel holds a tick

schedulerVars  == <<scheduler, ticks>>
schedulingVars == <<vars, schedulerVars>>

Tickers == {"cleanup", "sync", "backup"}

SchedulerState == [pc : {"list", "cleanup", "select", "sync", "backup"},
                   todo : SUBSET Products]
StartOfScheduler == [pc |-> "list", todo |-> {}]

(* The goroutine makes one call at a time.                                 *)
SchedulingTypeOK ==
    /\ TypeOK
    /\ scheduler \in SchedulerState
    /\ ticks \in SUBSET Tickers
    /\ cleaner[ScheduledCleanup].pc # "idle" <=> scheduler.pc = "cleanup"
    /\ sync[ScheduledSync].pc # "idle" \/ scheduler.todo # {} => scheduler.pc = "sync"

SchedulingInit ==
    /\ Init
    /\ scheduler = StartOfScheduler
    /\ ticks  = {}
----------------------------------------------------------------------------
(* The tickers of the cleanup, and with it those of sync and backup.       *)
HourPasses ==
    /\ ticks' = ticks \cup {"cleanup"}
    /\ UNCHANGED <<vars, scheduler>>

DayPasses ==
    /\ ticks' = Tickers
    /\ UNCHANGED <<vars, scheduler>>

(* The goroutine goes from one place to another.                           *)
Goes(from, to) ==
    scheduler.pc = from /\ scheduler' = [scheduler EXCEPT !.pc = to]

(* RunCleanup, at the start and at every tick.                             *)
ListExpired == Goes("list", "cleanup") /\ CleanupList(ScheduledCleanup)

(* The query fails, and the loop goes on.                                  *)
ListFails == Goes("list", "select") /\ UNCHANGED vars

Purge ==
    /\ scheduler.pc = "cleanup"
    /\ \/ CleanupDelete(ScheduledCleanup) \/ CleanupMark(ScheduledCleanup)
       \/ CleanupMarkFails(ScheduledCleanup)
    /\ UNCHANGED scheduler

PurgeEnds == Goes("cleanup", "select") /\ CleanupEnd(ScheduledCleanup)

(* runScheduledSync goes through the products, whatever becomes of each.   *)
(* One that is disabled, or that an administrator's call is syncing, is    *)
(* passed over.                                                            *)
NextProduct(p) ==
    /\ scheduler.pc = "sync" /\ sync[ScheduledSync].pc = "idle"
    /\ p \in scheduler.todo
    /\ scheduler' = [scheduler EXCEPT !.todo = @ \ {p}]
    /\ \/ SyncBegin(ScheduledSync, p)
       \/ UNCHANGED vars

SyncGoesOn == scheduler.pc = "sync" /\ SyncStep(ScheduledSync) /\ UNCHANGED scheduler

(* Mutants: the syncs are left to goroutines of their own; the goroutine   *)
(* waits until each product has a new build.                               *)
SyncsInBackground ==
    /\ scheduler.todo = {}
    /\ Goes("sync", "select") /\ UNCHANGED vars

SyncsEndOnSuccess ==
    /\ scheduler.todo = {} /\ sync[ScheduledSync].pc = "idle"
    /\ \A p \in Products : sync_runs[p] = "SUCCESS"
    /\ Goes("sync", "select") /\ UNCHANGED vars

SyncsEnd ==
    /\ scheduler.todo = {} /\ sync[ScheduledSync].pc = "idle"
    /\ Goes("sync", "select") /\ UNCHANGED vars

BackupEnds == Goes("backup", "select") /\ UNCHANGED vars

Take(ticker) == ticker \in ticks /\ ticks' = ticks \ {ticker}

SelectCleanup == Take("cleanup") /\ Goes("select", "list") /\ UNCHANGED vars
SelectBackup  == Take("backup") /\ Goes("select", "backup") /\ UNCHANGED vars

(* ListProducts; when it fails there is nothing to sync.                   *)
SelectSync(products) ==
    /\ Take("sync")
    /\ scheduler.pc = "select"
    /\ scheduler' = [pc |-> "sync", todo |-> products]
    /\ UNCHANGED vars
----------------------------------------------------------------------------
SchedulerStep ==
    \/ /\ \/ ListExpired \/ ListFails \/ Purge \/ PurgeEnds
          \/ SyncGoesOn \/ SyncsEnd \/ BackupEnds
          \/ \E p \in Products : NextProduct(p)
       /\ UNCHANGED ticks
    \/ SelectCleanup \/ SelectBackup
    \/ \E products \in {{}, Products} : SelectSync(products)

OtherStep ==
    /\ \E p \in Products : \/ UpstreamRelease(p)
                           \/ \E v \in Versions : DeadlinePasses(p, v) \/ Rollback(p, v)
    /\ UNCHANGED schedulerVars

(* The timers start anew with the process.                                 *)
Restart ==
    /\ Crash
    /\ scheduler' = StartOfScheduler
    /\ ticks' = {}

SchedulingNext == HourPasses \/ DayPasses \/ SchedulerStep \/ OtherStep \/ Restart

(* An hour passes unless the process dies before, the goroutine keeps      *)
(* running (the MaxMind client's timeout ends every request), and a select *)
(* does not pass a ticker over for ever.  A query or a deletion that keeps *)
(* being reached does not fail, or meet a crash, each time; nor is a       *)
(* product that keeps coming up passed over, or its sync broken off, each  *)
(* time.  Days are not assumed to pass, and nothing is assumed of crashes, *)
(* rollbacks or releases.                                                  *)
SchedulingFairness ==
    /\ WF_schedulingVars("cleanup" \notin ticks /\ (HourPasses \/ Restart))
    /\ WF_schedulingVars(SchedulerStep)
    /\ SF_schedulingVars(SelectCleanup)
    /\ SF_schedulingVars(SelectBackup)
    /\ SF_schedulingVars(SelectSync(Products))
    /\ SF_schedulingVars(ListExpired /\ UNCHANGED ticks)
    /\ \A p \in Products :
          []<>(p \in scheduler.todo) =>
             []<>(/\ sync[ScheduledSync].product = p
                  /\ sync[ScheduledSync].status \in {"SUCCESS", "SKIPPED"})
    /\ SF_schedulingVars(CleanupDelete(ScheduledCleanup) /\ UNCHANGED schedulerVars)
    /\ SF_schedulingVars(CleanupMark(ScheduledCleanup) /\ UNCHANGED schedulerVars)

SchedulingSpec ==
    SchedulingInit /\ [][SchedulingNext]_schedulingVars /\ SchedulingFairness
----------------------------------------------------------------------------
(* A tick is never left in its channel for ever: however long the syncs of *)
(* a day take, whatever fails, and however often the other tickers wake    *)
(* it, the one goroutine comes back to each, or the process dies.          *)
TicksAreTaken == \A t \in Tickers : t \in ticks ~> t \notin ticks

(* Again and again the process stays up for a day, until its goroutine     *)
(* comes to a tick for the syncs.                                          *)
StaysUp == []<>(scheduler.pc = "select" /\ "sync" \in ticks)

(* If so, the current version is again and again the build that upstream   *)
(* offers, however often syncs fail, the process dies in the middle of one *)
(* or an operator rolls back.                                              *)
AgainFresh ==
    StaysUp => \A p \in Products :
        []<>(\E v \in GetCurrentVersion(rows[p]) : rows[p][v].sha256 = upstream[p])

(* A version past its deadline is eventually purged or current again, also *)
(* when the process never stays up for an hour: it cleans up at its start. *)
ExpiredIsPurged ==
    \A p \in Products, v \in Versions :
        v \in GetExpiredVersions(rows[p]) ~> v \notin GetExpiredVersions(rows[p])
============================================================================
