------------------------- MODULE OperationsProofs -------------------------
(***************************************************************************)
(* Starts, migrations and backups, for all releases, scripts, numbers of   *)
(* concurrent calls of CreateBackup and retention counts.                  *)
(***************************************************************************)
EXTENDS Operations, FiniteSetTheorems, WellFoundedInduction, TLAPS

(* A script is recorded exactly when it has taken effect, a process that   *)
(* is down is at no script, and the scripts a start has behind it are      *)
(* recorded with the digests of its release.                               *)
BootInv ==
    /\ \A v \in Versions : schema_migrations[v] = "none" <=> executed[v] = 0
    /\ process # "migrating" => migrations = {}
    /\ process # "down" =>
          \A v \in DOMAIN Scripts[release] \ migrations :
              schema_migrations[v] = Scripts[release][v]

(* Backups run only while the process serves.                              *)
CallsOK ==
    \A c \in Calls : backup[c].pc # "idle" => process = "serving" /\ Name(c) \in Seconds

Uses(c, s) == backup[c].pc # "idle" /\ Name(c) = s

(* Two calls that use one name know of it, and so does one that is to find *)
(* a file where it is going to write.                                      *)
NamesOK ==
    /\ \A s \in Seconds : Present(s) => taken[s] >= 1
    /\ \A c \in Calls, s \in Seconds : Uses(c, s) => taken[s] >= 1
    /\ \A c, d \in Calls, s \in Seconds :
          c # d /\ Uses(c, s) /\ Uses(d, s) => Reused(s)
    /\ \A c \in Calls, s \in Seconds :
          Uses(c, s) /\ backup[c].pc \in {"remove", "exec"} /\ Present(s) => Reused(s)

(* The names after s that exist, or that two calls shared.                 *)
NewerKept(s) == {t \in Newer(s) : Present(t) \/ Reused(t)}
Enough(s)    == Cardinality(NewerKept(s)) >= Keep

(* Whatever a rotation has listed may go, however old the list is, and a   *)
(* call that is writing, or has written, still has its file or lost it to  *)
(* a second call or to a rotation.                                         *)
RotationOK ==
    /\ \A c \in Calls : \A s \in backup[c].toDelete : Enough(s)
    /\ \A c \in Calls, s \in Seconds :
          backup[c].pc = "vacuum" /\ Name(c) = s => Present(s) \/ Reused(s) \/ Enough(s)
    /\ \A c \in Calls, s \in Seconds :
          backup[c].pc = "rotate" /\ Name(c) = s =>
              files[s].state = "whole" \/ Reused(s) \/ Enough(s)

OperationsInv ==
    /\ OperationsTypeOK /\ BootInv /\ CallsOK /\ SnapshotIsMigrated
    /\ NamesOK /\ RotationOK
----------------------------------------------------------------------------
(* A set of versions or names has a least one.                             *)
LEMMA LeastOfNaturals ==
    ASSUME NEW S \in SUBSET Nat, S # {}
    PROVE  Min(S) \in S
  <1>1. IsWellFoundedOn(OpToRel(<, Nat), Nat)
    BY NatLessThanWellFounded
  <1>2. PICK x \in S : \A y \in S : ~(<<y, x>> \in OpToRel(<, Nat))
    BY <1>1, WFMin
  <1>3. ASSUME NEW y \in S PROVE x <= y
    <2>1. <<y, x>> \in Nat \X Nat
      OBVIOUS
    <2>2. ~(y < x)
      BY <1>2, <2>1 DEF OpToRel
    <2> QED
      BY <2>2
  <1> QED
    BY <1>3 DEF Min

(* The script that a start is at is one of its release.                    *)
LEMMA NextIsAScript ==
    ASSUME OperationsTypeOK, migrations # {}
    PROVE  /\ NextMigration \in migrations
           /\ NextMigration \in DOMAIN Scripts[release]
           /\ NextMigration \in Versions
           /\ Scripts[release][NextMigration] \in Digests
  <1>1. migrations \in SUBSET Nat /\ release \in Releases
        /\ migrations \subseteq DOMAIN Scripts[release]
    BY ScriptsAssumption DEF OperationsTypeOK
  <1>2. NextMigration \in migrations
    BY <1>1, LeastOfNaturals DEF NextMigration
  <1> QED
    BY <1>1, <1>2, ScriptsAssumption DEF Versions

(* A set of names with enough in it.                                       *)
LEMMA MoreIsEnough ==
    ASSUME NEW T \in SUBSET Seconds, NEW S \in SUBSET T, Cardinality(S) >= Keep
    PROVE  Cardinality(T) >= Keep
  <1>1. IsFiniteSet(Seconds)
    BY MaxSecondAssumption, FS_Interval DEF Seconds
  <1>2. IsFiniteSet(T)
    BY <1>1, FS_Subset
  <1>3. IsFiniteSet(S) /\ Cardinality(S) <= Cardinality(T)
    BY <1>2, FS_Subset
  <1>4. Cardinality(S) \in Nat /\ Cardinality(T) \in Nat
    BY <1>2, <1>3, FS_CardinalityType
  <1> QED
    BY <1>3, <1>4, KeepAssumption

(* Enough newer names stay enough as long as none of them goes.            *)
LEMMA EnoughStays ==
    ASSUME NEW s \in Seconds, Enough(s),
           \A t \in Newer(s) : Present(t) \/ Reused(t) => Present(t)' \/ Reused(t)'
    PROVE  Enough(s)'
  <1>1. NewerKept(s) \subseteq NewerKept(s)' /\ NewerKept(s)' \subseteq Seconds
    BY DEF NewerKept, Newer
  <1>2. Cardinality(NewerKept(s)) >= Keep
    BY DEF Enough
  <1>3. Cardinality(NewerKept(s)') >= Keep
    BY <1>1, <1>2, MoreIsEnough
  <1> QED
    BY <1>3 DEF Enough

(* Backups see nothing of a step that leaves files, calls and names alone. *)
LEMMA BackupSame ==
    ASSUME SnapshotIsMigrated, NamesOK, RotationOK, UNCHANGED <<files, backup, taken>>
    PROVE  SnapshotIsMigrated' /\ NamesOK' /\ RotationOK'
  <1>1. SnapshotIsMigrated'
    BY DEF SnapshotIsMigrated
  <1>2. NamesOK'
    BY DEF NamesOK, Uses, Present, Reused, Name
  <1>3. \A s \in Seconds : NewerKept(s)' = NewerKept(s)
    BY DEF NewerKept, Newer, Present, Reused
  <1>4. RotationOK'
    BY DEF RotationOK, Enough, NewerKept, Newer, Present, Reused, Name
  <1> QED
    BY <1>1, <1>2, <1>4

(* Nothing is installed, recorded or backed up at first.                   *)
LEMMA OperationsStart == OperationsInit => OperationsInv
  <1> SUFFICES ASSUME OperationsInit PROVE OperationsInv
    OBVIOUS
  <1>1. 1 \in Seconds
    BY MaxSecondAssumption DEF Seconds
  <1>2. OperationsTypeOK
    BY <1>1 DEF OperationsInit, OperationsTypeOK, NoFile, File, IdleCall, CallState
  <1>3. BootInv
    BY DEF OperationsInit, BootInv
  <1>4. CallsOK /\ SnapshotIsMigrated
    BY DEF OperationsInit, CallsOK, SnapshotIsMigrated, IdleCall, NoFile
  <1>5. NamesOK
    BY DEF OperationsInit, NamesOK, Uses, IdleCall, NoFile, Present
  <1>6. RotationOK
    BY DEF OperationsInit, RotationOK, IdleCall
  <1> QED
    BY <1>2, <1>3, <1>4, <1>5, <1>6 DEF OperationsInv

(* Installations and the steps of a start.                                 *)
LEMMA BootKeeps ==
    ASSUME OperationsInv, BootStep \/ \E r \in Releases : Install(r)
    PROVE  OperationsInv'
  <1> USE DEF OperationsInv
  <1>1. UNCHANGED <<clock, files, backup, taken>>
    BY DEF BootStep, Install, Boot, VerifyMigration, ApplyMigration, MigrationRefused, Serve,
           backupVars
  <1>2. process # "serving"
    BY DEF BootStep, Install, Boot, VerifyMigration, ApplyMigration, MigrationRefused, Serve
  <1>3. CallsOK'
    BY <1>1, <1>2 DEF CallsOK
  <1>4. SnapshotIsMigrated' /\ NamesOK' /\ RotationOK'
    BY <1>1, BackupSame
  <1>5. OperationsTypeOK' /\ BootInv'
    <2>1. ASSUME NEW r \in Releases, Install(r) PROVE OperationsTypeOK' /\ BootInv'
      BY <1>1, <2>1 DEF Install, OperationsTypeOK, BootInv
    <2>2. CASE Boot
      BY <1>1, <2>2 DEF Boot, OperationsTypeOK, BootInv
    <2>3. CASE VerifyMigration
      BY <1>1, <2>3 DEF VerifyMigration, OperationsTypeOK, BootInv
    <2>4. CASE ApplyMigration
      <3> DEFINE v == NextMigration
                 d == Scripts[release][v]
      <3>1. v \in Versions /\ d \in Digests /\ v \in migrations
        BY <2>4, NextIsAScript DEF ApplyMigration
      <3>2. schema_migrations[v] = "none" /\ executed[v] = 0 /\ d # "none"
        BY <2>4, <3>1, DigestsAssumption DEF ApplyMigration, BootInv
      <3>3. /\ executed' = [executed EXCEPT ![v] = 1]
            /\ schema_migrations' = [schema_migrations EXCEPT ![v] = d]
            /\ migrations' = migrations \ {v}
            /\ UNCHANGED <<release, process>> /\ process = "migrating"
        BY <2>4, <3>2 DEF ApplyMigration
      <3> HIDE DEF v
      <3>4. OperationsTypeOK'
        BY <1>1, <3>1, <3>3 DEF OperationsTypeOK
      <3>5. \A w \in Versions : /\ executed'[w] = IF w = v THEN 1 ELSE executed[w]
                                /\ schema_migrations'[w] = IF w = v THEN d ELSE schema_migrations[w]
        BY <3>3 DEF OperationsTypeOK
      <3>6. \A w \in DOMAIN Scripts[release] : w \in Versions
        BY DEF OperationsTypeOK, Versions
      <3>7. BootInv'
        BY <3>2, <3>3, <3>5, <3>6 DEF BootInv
      <3> QED
        BY <3>4, <3>7
    <2>5. CASE MigrationRefused
      BY <1>1, <2>5 DEF MigrationRefused, OperationsTypeOK, BootInv
    <2>6. CASE Serve
      BY <1>1, <2>6 DEF Serve, OperationsTypeOK, BootInv
    <2> QED
      BY <2>1, <2>2, <2>3, <2>4, <2>5, <2>6 DEF BootStep
  <1> QED
    BY <1>3, <1>4, <1>5

(* The process stops, or a second passes.                                  *)
LEMMA CrashOrTickKeeps == ASSUME OperationsInv, Crash \/ Tick PROVE OperationsInv'
  <1> USE DEF OperationsInv
  <1>1. CASE Crash
    <2>1. /\ \A c \in Calls : backup'[c] = IdleCall
          /\ UNCHANGED <<release, schema_migrations, executed, clock, files, taken>>
          /\ process' = "down" /\ migrations' = {}
      BY <1>1 DEF Crash
    <2>2. OperationsTypeOK'
      BY <1>1 DEF Crash, OperationsTypeOK, IdleCall, CallState
    <2>3. BootInv' /\ CallsOK' /\ SnapshotIsMigrated'
      BY <2>1 DEF BootInv, CallsOK, SnapshotIsMigrated, IdleCall
    <2>4. NamesOK'
      BY <2>1 DEF NamesOK, Uses, Present, IdleCall
    <2>5. RotationOK'
      BY <2>1 DEF RotationOK, IdleCall
    <2> QED
      BY <2>2, <2>3, <2>4, <2>5
  <1>2. CASE Tick
    <2>1. UNCHANGED <<bootVars, files, backup, taken>>
      BY <1>2 DEF Tick
    <2>2. clock' \in Seconds
      BY <1>2, MaxSecondAssumption DEF Tick, OperationsTypeOK, Seconds
    <2>3. OperationsTypeOK' /\ BootInv' /\ CallsOK'
      BY <2>1, <2>2 DEF bootVars, OperationsTypeOK, BootInv, CallsOK, Name
    <2> QED
      BY <2>1, <2>3, BackupSame
  <1> QED
    BY <1>1, <1>2
----------------------------------------------------------------------------
(* What a call of CreateBackup may do in one step, its first one apart: it *)
(* writes only under its own name, and what it takes away was shared or    *)
(* has enough newer names.                                                 *)
LEMMA CallKeeps ==
    ASSUME OperationsInv, NEW c \in Calls, NEW x \in CallState,
           backup' = [backup EXCEPT ![c] = x],
           UNCHANGED <<bootVars, clock, taken>>,
           files' \in [Seconds -> File],
           x.pc # "idle" => backup[c].pc # "idle" /\ x.name = Name(c),
           x.pc # "remove",
           x.pc = "exec" => ~Present(x.name)',
           x.pc = "vacuum" => Present(x.name)',
           x.pc = "rotate" =>
              files'[x.name].state = "whole" \/ Reused(x.name) \/ Enough(x.name),
           \A s \in x.toDelete : Enough(s),
           \A s \in Seconds : Enough(s) => Enough(s)',
           \A s \in Seconds : Present(s)' =>
              Present(s) \/ (s = Name(c) /\ backup[c].pc # "idle"),
           \A s \in Seconds : Present(s) /\ ~Present(s)' => Reused(s) \/ Enough(s),
           \A s \in Seconds : files[s].state = "whole" /\ files'[s].state # "whole" =>
              Reused(s) \/ Enough(s),
           \A s \in Seconds : files'[s].state = "whole" =>
              files'[s] = files[s] \/ DOMAIN Scripts[files'[s].release] \subseteq files'[s].schema
    PROVE  OperationsInv'
  <1> USE DEF OperationsInv
  <1>1. /\ backup'[c] = x /\ \A d \in Calls : d # c => backup'[d] = backup[d]
        /\ backup' \in [Calls -> CallState]
        /\ \A d \in Calls : backup[d].toDelete \subseteq Seconds
        /\ x.toDelete \subseteq Seconds
    BY DEF OperationsTypeOK, CallState
  <1>2. OperationsTypeOK'
    BY <1>1 DEF OperationsTypeOK, bootVars
  <1>3. BootInv'
    BY DEF BootInv, bootVars
  <1>4. CallsOK'
    BY <1>1 DEF CallsOK, Name, bootVars
  <1>5. SnapshotIsMigrated'
    BY DEF SnapshotIsMigrated
  <1>6. \A s \in Seconds : Reused(s)' <=> Reused(s)
    BY DEF Reused
  <1>7. \A d \in Calls, s \in Seconds : Uses(d, s)' => Uses(d, s)
    BY <1>1 DEF Uses, Name
  <1>8. NamesOK'
    <2>1. \A s \in Seconds : Present(s)' => taken[s] >= 1
      BY DEF NamesOK, Uses
    <2>2. \A d \in Calls, s \in Seconds : Uses(d, s)' => taken[s] >= 1
      BY <1>7 DEF NamesOK
    <2>3. \A d, e \in Calls, s \in Seconds :
             d # e /\ Uses(d, s)' /\ Uses(e, s)' => Reused(s)
      BY <1>7 DEF NamesOK
    <2>4. ASSUME NEW d \in Calls, NEW s \in Seconds,
                 Uses(d, s)', backup'[d].pc \in {"remove", "exec"}, Present(s)'
          PROVE  Reused(s)
      <3>1. d # c
        BY <1>1, <2>4 DEF Uses, Name
      <3>2. Uses(d, s) /\ backup[d].pc \in {"remove", "exec"}
        BY <1>1, <1>7, <2>4, <3>1
      <3>3. CASE Present(s)
        BY <3>2, <3>3 DEF NamesOK
      <3>4. CASE s = Name(c) /\ backup[c].pc # "idle"
        <4>1. Uses(c, s)
          BY <3>4 DEF Uses
        <4> QED
          BY <3>1, <3>2, <4>1 DEF NamesOK
      <3> QED
        BY <2>4, <3>3, <3>4
    <2> QED
      BY <1>6, <2>1, <2>2, <2>3, <2>4 DEF NamesOK
  <1>9. RotationOK'
    <2>1. ASSUME NEW d \in Calls, NEW s \in backup'[d].toDelete PROVE Enough(s)'
      <3>1. s \in Seconds /\ Enough(s)
        BY <1>1 DEF RotationOK
      <3> QED
        BY <3>1
    <2>2. ASSUME NEW d \in Calls, NEW s \in Seconds, backup'[d].pc = "vacuum", Name(d)' = s
          PROVE  Present(s)' \/ Reused(s)' \/ Enough(s)'
      <3>1. CASE d = c
        BY <1>1, <2>2, <3>1 DEF Name
      <3>2. CASE d # c
        <4>1. Present(s) \/ Reused(s) \/ Enough(s)
          BY <1>1, <2>2, <3>2 DEF RotationOK, Name
        <4> QED
          BY <1>6, <4>1
      <3> QED
        BY <3>1, <3>2
    <2>3. ASSUME NEW d \in Calls, NEW s \in Seconds, backup'[d].pc = "rotate", Name(d)' = s
          PROVE  files'[s].state = "whole" \/ Reused(s)' \/ Enough(s)'
      <3>1. CASE d = c
        <4>1. files'[s].state = "whole" \/ Reused(s) \/ Enough(s)
          BY <1>1, <2>3, <3>1 DEF Name
        <4> QED
          BY <1>6, <4>1
      <3>2. CASE d # c
        <4>1. files[s].state = "whole" \/ Reused(s) \/ Enough(s)
          BY <1>1, <2>3, <3>2 DEF RotationOK, Name
        <4> QED
          BY <1>6, <4>1
      <3> QED
        BY <3>1, <3>2
    <2> QED
      BY <2>1, <2>2, <2>3 DEF RotationOK
  <1> QED
    BY <1>2, <1>3, <1>4, <1>5, <1>8, <1>9

(* The state of a call that goes on to another statement.                  *)
LEMMA CallMoves ==
    ASSUME OperationsInv, NEW c \in Calls,
           NEW pc \in {"exec", "vacuum", "rotate"}, Goto(c, pc)
    PROVE  LET x == [backup[c] EXCEPT !.pc = pc]
           IN  /\ x \in CallState /\ backup' = [backup EXCEPT ![c] = x]
               /\ x.pc = pc /\ x.name = Name(c)
               /\ \A s \in x.toDelete : s \in Seconds /\ Enough(s)
  <1>1. backup[c] \in CallState
    BY DEF OperationsInv, OperationsTypeOK
  <1>2. \A s \in backup[c].toDelete : s \in Seconds /\ Enough(s)
    BY <1>1 DEF OperationsInv, RotationOK, CallState
  <1> QED
    BY <1>1, <1>2 DEF Goto, CallState, Name

(* The name of a call that has begun.                                      *)
LEMMA CallName ==
    ASSUME OperationsInv, NEW c \in Calls, backup[c].pc # "idle"
    PROVE  Name(c) \in Seconds /\ Uses(c, Name(c)) /\ process = "serving"
  BY DEF OperationsInv, CallsOK, Uses

(* A call that leaves the files alone.                                     *)
LEMMA SameFilesSameEnough ==
    ASSUME UNCHANGED <<files, taken>>
    PROVE  \A s \in Seconds : /\ Enough(s) => Enough(s)'
                              /\ Present(s)' <=> Present(s)
  BY DEF Enough, NewerKept, Newer, Present, Reused

(* os.Remove takes away what a second call of the same second has put      *)
(* there, and nothing else.                                                *)
LEMMA RemoveTargetKeeps ==
    ASSUME OperationsInv, NEW c \in Calls, RemoveTarget(c) PROVE OperationsInv'
  <1> DEFINE x == [backup[c] EXCEPT !.pc = "exec"]
  <1>0. PICK n \in Seconds : n = Name(c)
    BY CallName DEF RemoveTarget
  <1>1. /\ Uses(c, n) /\ backup[c].pc = "remove"
        /\ files' = [files EXCEPT ![n] = NoFile]
        /\ UNCHANGED <<bootVars, clock, taken>>
    BY <1>0, CallName DEF RemoveTarget
  <1>2. /\ x \in CallState /\ backup' = [backup EXCEPT ![c] = x]
        /\ x.pc = "exec" /\ x.name = n
        /\ \A s \in x.toDelete : s \in Seconds /\ Enough(s)
    BY <1>0, CallMoves DEF RemoveTarget
  <1> HIDE DEF x
  <1>3. /\ \A s \in Seconds : s # n => files'[s] = files[s]
        /\ files'[n] = NoFile /\ files' \in [Seconds -> File]
    BY <1>1 DEF OperationsInv, OperationsTypeOK, NoFile, File
  <1>4. Present(n) => Reused(n)
    BY <1>1 DEF OperationsInv, NamesOK
  <1>5. /\ ~Present(n)' /\ \A s \in Seconds : Present(s)' => Present(s)
        /\ \A s \in Seconds : Present(s) /\ ~Present(s)' => Reused(s)
        /\ \A s \in Seconds : files[s].state = "whole" /\ files'[s].state # "whole" => Reused(s)
        /\ \A s \in Seconds : files'[s].state = "whole" => files'[s] = files[s]
    BY <1>1, <1>3, <1>4 DEF Present, NoFile
  <1>6. \A t \in Seconds : Present(t) \/ Reused(t) => Present(t)' \/ Reused(t)'
    BY <1>1, <1>5 DEF Reused
  <1>7. \A s \in Seconds : Enough(s) => Enough(s)'
    BY <1>6, EnoughStays DEF Newer
  <1> QED
    BY <1>0, <1>1, <1>2, <1>3, <1>5, <1>7, CallKeeps

(* VACUUM INTO begins to write, never over a complete snapshot.            *)
LEMMA VacuumBeginKeeps ==
    ASSUME OperationsInv, NEW c \in Calls, VacuumBegin(c) PROVE OperationsInv'
  <1> DEFINE x == [backup[c] EXCEPT !.pc = "vacuum"]
             f == [state |-> "partial", schema |-> {}, release |-> release]
  <1>0. PICK n \in Seconds : n = Name(c)
    BY CallName DEF VacuumBegin
  <1>1. /\ Uses(c, n) /\ backup[c].pc = "exec"
        /\ files' = [files EXCEPT ![n] = f] /\ files[n].state # "whole"
        /\ UNCHANGED <<bootVars, clock, taken>>
    BY <1>0, CallName DEF VacuumBegin
  <1>2. /\ x \in CallState /\ backup' = [backup EXCEPT ![c] = x]
        /\ x.pc = "vacuum" /\ x.name = n
        /\ \A s \in x.toDelete : s \in Seconds /\ Enough(s)
    BY <1>0, CallMoves DEF VacuumBegin
  <1>3. f \in File /\ f.state = "partial"
    BY DEF OperationsInv, OperationsTypeOK, File
  <1> HIDE DEF x, f
  <1>4. /\ \A s \in Seconds : s # n => files'[s] = files[s]
        /\ files'[n] = f /\ files' \in [Seconds -> File]
    BY <1>1, <1>3 DEF OperationsInv, OperationsTypeOK
  <1>5. /\ Present(n)' /\ \A s \in Seconds : Present(s)' => Present(s) \/ s = n
        /\ \A s \in Seconds : Present(s) => Present(s)'
        /\ \A s \in Seconds : files[s].state = "whole" => files'[s].state = "whole"
        /\ \A s \in Seconds : files'[s].state = "whole" => files'[s] = files[s]
    BY <1>1, <1>3, <1>4 DEF Present
  <1>6. \A t \in Seconds : Present(t) \/ Reused(t) => Present(t)' \/ Reused(t)'
    BY <1>1, <1>5 DEF Reused
  <1>7. \A s \in Seconds : Enough(s) => Enough(s)'
    BY <1>6, EnoughStays DEF Newer
  <1>8. \A s \in Seconds : Present(s)' => Present(s) \/ (s = Name(c) /\ backup[c].pc # "idle")
    BY <1>0, <1>1, <1>5
  <1>9. x.name = Name(c)
    BY <1>0, <1>2
  <1> QED
    BY <1>1, <1>2, <1>4, <1>5, <1>7, <1>8, <1>9, CallKeeps

(* A server has every script of its release, so a complete snapshot has.   *)
LEMMA ServingIsMigrated ==
    ASSUME OperationsInv, process = "serving"
    PROVE  DOMAIN Scripts[release] \subseteq Schema
  <1> SUFFICES ASSUME NEW v \in DOMAIN Scripts[release] PROVE v \in Schema
    OBVIOUS
  <1>1. release \in Releases /\ v \in Versions /\ Scripts[release][v] \in Digests
    BY ScriptsAssumption DEF OperationsInv, OperationsTypeOK, Versions
  <1>2. schema_migrations[v] = Scripts[release][v]
    BY DEF OperationsInv, BootInv
  <1>3. executed[v] # 0 /\ executed[v] \in 0..1
    BY <1>1, <1>2, DigestsAssumption DEF OperationsInv, BootInv, OperationsTypeOK
  <1> QED
    BY <1>1, <1>3 DEF Schema

(* The statement ends: the file is complete, or its name was unlinked.     *)
LEMMA VacuumEndKeeps ==
    ASSUME OperationsInv, NEW c \in Calls, VacuumEnd(c) PROVE OperationsInv'
  <1> DEFINE x == [backup[c] EXCEPT !.pc = "rotate"]
             n == Name(c)
             f == [state |-> "whole", schema |-> Schema, release |-> release]
  <1>1. /\ n \in Seconds /\ Uses(c, n) /\ backup[c].pc = "vacuum" /\ process = "serving"
        /\ files' = IF Present(n) THEN [files EXCEPT ![n] = f] ELSE files
        /\ UNCHANGED <<bootVars, clock, taken>>
    BY CallName DEF VacuumEnd
  <1>2. /\ x \in CallState /\ backup' = [backup EXCEPT ![c] = x]
        /\ x.pc = "rotate" /\ x.name = n
        /\ \A s \in x.toDelete : s \in Seconds /\ Enough(s)
    BY CallMoves DEF VacuumEnd
  <1>3. f \in File /\ f.state = "whole" /\ DOMAIN Scripts[f.release] \subseteq f.schema
    <2>1. DOMAIN Scripts[release] \subseteq Schema /\ Schema \subseteq Versions
      BY <1>1, ServingIsMigrated DEF Schema
    <2> QED
      BY <2>1 DEF OperationsInv, OperationsTypeOK, File
  <1> HIDE DEF f
  <1>4. /\ \A s \in Seconds : s # n => files'[s] = files[s]
        /\ Present(n) => files'[n] = f
        /\ ~Present(n) => files'[n] = files[n]
        /\ files' \in [Seconds -> File]
    BY <1>1, <1>3 DEF OperationsInv, OperationsTypeOK
  <1>5. /\ \A s \in Seconds : Present(s)' <=> Present(s)
        /\ \A s \in Seconds : files[s].state = "whole" => files'[s].state = "whole"
        /\ \A s \in Seconds : files'[s].state = "whole" =>
              files'[s] = files[s] \/ DOMAIN Scripts[files'[s].release] \subseteq files'[s].schema
    BY <1>1, <1>3, <1>4 DEF Present
  <1>6. files'[n].state = "whole" \/ Reused(n) \/ Enough(n)
    BY <1>1, <1>3, <1>4 DEF OperationsInv, RotationOK
  <1>7. \A t \in Seconds : Present(t) \/ Reused(t) => Present(t)' \/ Reused(t)'
    BY <1>1, <1>5 DEF Reused
  <1>8. \A s \in Seconds : Enough(s) => Enough(s)'
    BY <1>7, EnoughStays DEF Newer
  <1> HIDE DEF x
  <1> QED
    BY <1>1, <1>2, <1>4, <1>5, <1>6, <1>8, CallKeeps

(* A call that fails or returns is forgotten, and its file stays.          *)
LEMMA CallEnds ==
    ASSUME OperationsInv, NEW c \in Calls, VacuumFails(c) \/ Return(c) PROVE OperationsInv'
  <1>1. /\ backup' = [backup EXCEPT ![c] = IdleCall]
        /\ UNCHANGED <<bootVars, clock, files, taken>>
    BY DEF VacuumFails, Return
  <1>2. IdleCall \in CallState /\ IdleCall.pc = "idle" /\ IdleCall.toDelete = {}
    BY DEF IdleCall, CallState
  <1>3. files' \in [Seconds -> File]
    BY <1>1 DEF OperationsInv, OperationsTypeOK
  <1>4. \A s \in Seconds : /\ Enough(s) => Enough(s)'
                           /\ Present(s)' <=> Present(s)
                           /\ files'[s] = files[s]
    BY <1>1, SameFilesSameEnough
  <1> HIDE DEF IdleCall
  <1> QED
    BY <1>1, <1>2, <1>3, <1>4, CallKeeps

(* A rotation lists what has Keep newer files at that moment.              *)
LEMMA RotateListKeeps ==
    ASSUME OperationsInv, NEW c \in Calls, RotateList(c) PROVE OperationsInv'
  <1> DEFINE x == [backup[c] EXCEPT !.pc = "delete", !.toDelete = OldSnapshots]
  <1>1. /\ Name(c) \in Seconds /\ backup[c].pc = "rotate"
        /\ backup' = [backup EXCEPT ![c] = x]
        /\ UNCHANGED <<bootVars, clock, files, taken>>
    BY CallName DEF RotateList
  <1>2. OldSnapshots \subseteq Seconds
    BY DEF OldSnapshots
  <1>3. x \in CallState /\ x.pc = "delete" /\ x.name = Name(c) /\ x.toDelete = OldSnapshots
    BY <1>2 DEF OperationsInv, OperationsTypeOK, CallState, Name
  <1>4. ASSUME NEW s \in OldSnapshots PROVE Enough(s)
    <2> DEFINE S == {t \in Seconds : Present(t)} \cap Newer(s)
    <2>1. Cardinality(S) >= Keep
      BY <1>4 DEF OldSnapshots
    <2>2. S \subseteq NewerKept(s) /\ NewerKept(s) \subseteq Seconds
      BY DEF NewerKept, Newer
    <2> HIDE DEF S
    <2> QED
      BY <2>1, <2>2, MoreIsEnough DEF Enough
  <1>5. files' \in [Seconds -> File]
    BY <1>1 DEF OperationsInv, OperationsTypeOK
  <1>6. \A s \in Seconds : /\ Enough(s) => Enough(s)'
                           /\ Present(s)' <=> Present(s)
                           /\ files'[s] = files[s]
    BY <1>1, SameFilesSameEnough
  <1> HIDE DEF x
  <1> QED
    BY <1>1, <1>3, <1>4, <1>5, <1>6, CallKeeps

(* A deletion takes no name away from the newer ones of a name with few of *)
(* them: those after the deleted one are Keep already.                     *)
LEMMA RotateDeleteKeeps ==
    ASSUME OperationsInv, NEW c \in Calls, RotateDelete(c) PROVE OperationsInv'
  <1>0. PICK n : n = Min(backup[c].toDelete)
    OBVIOUS
  <1> DEFINE x == [backup[c] EXCEPT !.toDelete = @ \ {n}]
  <1>1. /\ Name(c) \in Seconds /\ backup[c].pc = "delete" /\ backup[c].toDelete # {}
        /\ backup[c] \in CallState /\ backup[c].toDelete \in SUBSET Seconds
        /\ backup' = [backup EXCEPT ![c] = x]
        /\ files' \in {files, [files EXCEPT ![n] = NoFile]}
        /\ UNCHANGED <<bootVars, clock, taken>>
    BY <1>0, CallName DEF RotateDelete, OperationsInv, OperationsTypeOK, CallState
  <1>2. backup[c].toDelete \in SUBSET Nat
    BY <1>1, MaxSecondAssumption DEF Seconds
  <1>3. n \in backup[c].toDelete
    BY <1>0, <1>1, <1>2, LeastOfNaturals
  <1>4. n \in Seconds /\ Enough(n)
    BY <1>1, <1>3 DEF OperationsInv, RotationOK
  <1>5. /\ x \in CallState /\ x.pc = "delete" /\ x.name = Name(c)
        /\ x.toDelete \subseteq backup[c].toDelete
    BY <1>1 DEF CallState, Name
  <1>6. \A s \in x.toDelete : Enough(s)
    BY <1>5 DEF OperationsInv, RotationOK
  <1> HIDE DEF x
  <1>7. /\ \A s \in Seconds : s # n => files'[s] = files[s]
        /\ files'[n] = NoFile \/ files'[n] = files[n]
        /\ files' \in [Seconds -> File]
    <2>1. files \in [Seconds -> File] /\ NoFile \in File
      BY DEF OperationsInv, OperationsTypeOK, NoFile, File
    <2>2. CASE files' = files
      BY <2>1, <2>2
    <2>3. CASE files' = [files EXCEPT ![n] = NoFile]
      BY <1>4, <2>1, <2>3
    <2> QED
      BY <1>1, <2>2, <2>3
  <1>8. /\ \A s \in Seconds : Present(s)' => Present(s)
        /\ \A s \in Seconds : Present(s) /\ ~Present(s)' => s = n
        /\ \A s \in Seconds : files[s].state = "whole" /\ files'[s].state # "whole" => s = n
        /\ \A s \in Seconds : files'[s].state = "whole" => files'[s] = files[s]
    BY <1>4, <1>7 DEF Present, NoFile
  <1>9. \A t \in Seconds : t # n /\ (Present(t) \/ Reused(t)) => Present(t)' \/ Reused(t)'
    BY <1>1, <1>8 DEF Reused
  <1>10. Enough(n)'
    <2>1. \A t \in Newer(n) : Present(t) \/ Reused(t) => Present(t)' \/ Reused(t)'
      BY <1>4, <1>9 DEF Newer, Seconds
    <2> QED
      BY <1>4, <2>1, EnoughStays
  <1>11. ASSUME NEW s \in Seconds, Enough(s) PROVE Enough(s)'
    <2>1. CASE s < n
      <3>1. NewerKept(n)' \subseteq NewerKept(s)' /\ NewerKept(s)' \subseteq Seconds
        BY <1>4, <2>1 DEF NewerKept, Newer, Seconds
      <3>2. Cardinality(NewerKept(n)') >= Keep
        BY <1>10 DEF Enough
      <3>3. Cardinality(NewerKept(s)') >= Keep
        BY <3>1, <3>2, MoreIsEnough
      <3> QED
        BY <3>3 DEF Enough
    <2>2. CASE ~(s < n)
      <3>1. \A t \in Newer(s) : Present(t) \/ Reused(t) => Present(t)' \/ Reused(t)'
        BY <1>4, <1>9, <2>2 DEF Newer, Seconds
      <3> QED
        BY <1>11, <3>1, EnoughStays
    <2> QED
      BY <2>1, <2>2
  <1> QED
    BY <1>1, <1>4, <1>5, <1>6, <1>7, <1>8, <1>11, CallKeeps

(* A call takes the second it began in for its name; it is at least the    *)
(* second to do so when the name is in use or a file has it.               *)
LEMMA CreateBackupKeeps ==
    ASSUME OperationsInv, NEW c \in Calls, CreateBackup(c) PROVE OperationsInv'
  <1> USE DEF OperationsInv
  <1>1. /\ process = "serving" /\ backup[c].pc = "idle"
        /\ UNCHANGED <<bootVars, clock, files>>
        /\ clock \in Seconds /\ taken \in [Seconds -> 0..2]
    BY DEF CreateBackup, OperationsTypeOK
  <1>2. PICK n \in Seconds : n = clock
    BY <1>1
  <1>3. /\ backup'[c] = [pc |-> "remove", name |-> n, toDelete |-> {}]
        /\ \A d \in Calls : d # c => backup'[d] = backup[d]
        /\ backup' \in [Calls -> CallState]
    BY <1>2 DEF CreateBackup, OperationsTypeOK, CallState
  <1>4. /\ taken' \in [Seconds -> 0..2]
        /\ \A s \in Seconds : s # n => taken'[s] = taken[s]
        /\ taken'[n] = IF taken[n] = 2 THEN 2 ELSE taken[n] + 1
    BY <1>1, <1>2 DEF CreateBackup
  <1>5. /\ \A s \in Seconds : Reused(s) => Reused(s)'
        /\ \A s \in Seconds : taken[s] >= 1 => taken'[s] >= 1
        /\ taken[n] >= 1 => Reused(n)'
        /\ taken'[n] >= 1
    BY <1>1, <1>4 DEF Reused
  <1>6. \A s \in Seconds : Present(s)' <=> Present(s)
    BY <1>1 DEF Present
  <1>7. \A d \in Calls, s \in Seconds : Uses(d, s)' => IF d = c THEN s = n ELSE Uses(d, s)
    BY <1>3 DEF Uses, Name
  <1>8. OperationsTypeOK'
    BY <1>1, <1>3, <1>4 DEF OperationsTypeOK, bootVars
  <1>9. BootInv' /\ SnapshotIsMigrated'
    BY <1>1 DEF BootInv, SnapshotIsMigrated, bootVars
  <1>10. CallsOK'
    BY <1>1, <1>3 DEF CallsOK, Name, bootVars
  <1>11. NamesOK'
    <2>1. \A s \in Seconds : Present(s)' => taken'[s] >= 1
      BY <1>5, <1>6 DEF NamesOK
    <2>2. \A d \in Calls, s \in Seconds : Uses(d, s)' => taken'[s] >= 1
      BY <1>5, <1>7 DEF NamesOK
    <2>3. ASSUME NEW d \in Calls, NEW e \in Calls, NEW s \in Seconds,
                 d # e, Uses(d, s)', Uses(e, s)'
          PROVE  Reused(s)'
      BY <1>5, <1>7, <2>3 DEF NamesOK
    <2>4. ASSUME NEW d \in Calls, NEW s \in Seconds,
                 Uses(d, s)', backup'[d].pc \in {"remove", "exec"}, Present(s)'
          PROVE  Reused(s)'
      <3>1. CASE d = c
        BY <1>5, <1>6, <1>7, <2>4, <3>1 DEF NamesOK
      <3>2. CASE d # c
        BY <1>3, <1>5, <1>6, <1>7, <2>4, <3>2 DEF NamesOK
      <3> QED
        BY <3>1, <3>2
    <2> QED
      BY <2>1, <2>2, <2>3, <2>4 DEF NamesOK
  <1>12. \A s \in Seconds : Enough(s) => Enough(s)'
    BY <1>5, <1>6, EnoughStays DEF Newer
  <1>13. RotationOK'
    <2>1. ASSUME NEW d \in Calls, NEW s \in backup'[d].toDelete PROVE Enough(s)'
      <3>1. d # c /\ s \in backup[d].toDelete /\ s \in Seconds
        BY <1>3 DEF OperationsTypeOK, CallState
      <3> QED
        BY <1>12, <3>1 DEF RotationOK
    <2>2. ASSUME NEW d \in Calls, NEW s \in Seconds, backup'[d].pc = "vacuum", Name(d)' = s
          PROVE  Present(s)' \/ Reused(s)' \/ Enough(s)'
      <3>1. backup[d].pc = "vacuum" /\ Name(d) = s
        BY <1>3, <2>2 DEF Name
      <3> QED
        BY <1>5, <1>6, <1>12, <3>1 DEF RotationOK
    <2>3. ASSUME NEW d \in Calls, NEW s \in Seconds, backup'[d].pc = "rotate", Name(d)' = s
          PROVE  files'[s].state = "whole" \/ Reused(s)' \/ Enough(s)'
      <3>1. backup[d].pc = "rotate" /\ Name(d) = s
        BY <1>3, <2>3 DEF Name
      <3> QED
        BY <1>1, <1>5, <1>12, <3>1 DEF RotationOK
    <2> QED
      BY <2>1, <2>2, <2>3 DEF RotationOK
  <1> QED
    BY <1>8, <1>9, <1>10, <1>11, <1>13
----------------------------------------------------------------------------
(* Every step of the service keeps the invariant.                          *)
LEMMA OperationsStep == OperationsInv /\ [OperationsNext]_opVars => OperationsInv'
  <1> SUFFICES ASSUME OperationsInv, [OperationsNext]_opVars PROVE OperationsInv'
    OBVIOUS
  <1>1. CASE BootStep \/ \E r \in Releases : Install(r)
    BY <1>1, BootKeeps
  <1>2. CASE Crash \/ Tick
    BY <1>2, CrashOrTickKeeps
  <1>3. ASSUME NEW c \in Calls, BackupStep(c) PROVE OperationsInv'
    BY <1>3, CreateBackupKeeps, RemoveTargetKeeps, VacuumBeginKeeps, VacuumEndKeeps, CallEnds,
       RotateListKeeps, RotateDeleteKeeps DEF BackupStep
  <1>4. CASE UNCHANGED opVars
    <2>1. UNCHANGED <<bootVars, clock, files, backup, taken>>
      BY <1>4 DEF opVars, bootVars
    <2>2. OperationsTypeOK' /\ BootInv' /\ CallsOK'
      BY <2>1 DEF OperationsInv, bootVars, OperationsTypeOK, BootInv, CallsOK, Name
    <2> QED
      BY <2>1, <2>2, BackupSame DEF OperationsInv
  <1> QED
    BY <1>1, <1>2, <1>3, <1>4 DEF OperationsNext

(* The invariant holds from the first start on.                            *)
LEMMA OperationsInvariant == OperationsSpec => []OperationsInv
  BY OperationsStart, OperationsStep, PTL DEF OperationsSpec

(* The database, the files and the calls always have these types.          *)
THEOREM OperationsTypes == OperationsSpec => []OperationsTypeOK
  <1>1. OperationsInv => OperationsTypeOK
    BY DEF OperationsInv
  <1> QED
    BY <1>1, OperationsInvariant, PTL

(* Whatever releases were installed before, and wherever their starts      *)
(* broke off, a server finds each script of its own recorded and applied   *)
(* once.                                                                   *)
THEOREM ServerIsVerified == OperationsSpec => []ServesVerified
  <1>1. OperationsInv => ServesVerified
    <2> SUFFICES ASSUME OperationsInv, process = "serving", NEW v \in DOMAIN Scripts[release]
                 PROVE  schema_migrations[v] = Scripts[release][v] /\ executed[v] = 1
      BY DEF ServesVerified
    <2>1. v \in Schema
      BY ServingIsMigrated
    <2>2. executed[v] = 1
      BY <2>1 DEF Schema, OperationsInv, OperationsTypeOK
    <2> QED
      BY <2>2 DEF OperationsInv, BootInv
  <1> QED
    BY <1>1, OperationsInvariant, PTL

(* A complete snapshot has every script of the release that took it.       *)
THEOREM SnapshotsAreMigrated == OperationsSpec => []SnapshotIsMigrated
  <1>1. OperationsInv => SnapshotIsMigrated
    BY DEF OperationsInv
  <1> QED
    BY <1>1, OperationsInvariant, PTL

(* A backup that CreateBackup is about to report is there, unless its name *)
(* was shared or rotated out.                                              *)
THEOREM SuccessIsTrue == OperationsSpec => []SuccessIsASnapshot
  <1>1. OperationsInv => SuccessIsASnapshot
    <2> SUFFICES ASSUME OperationsInv, NEW c \in Calls, backup[c].pc = "rotate"
                 PROVE  \/ files[Name(c)].state = "whole"
                        \/ Reused(Name(c))
                        \/ Enough(Name(c))
      BY DEF SuccessIsASnapshot, Enough, NewerKept
    <2> QED
      BY CallName DEF OperationsInv, RotationOK
  <1> QED
    BY <1>1, OperationsInvariant, PTL

(* Rotation never goes too far, however many calls rotate at a time, on    *)
(* lists of whatever age: what is lost was shared or has Keep newer names. *)
THEOREM RotationKeepsTheNewest == OperationsSpec => KeepsTheNewest
  <1> DEFINE Lost(s) == files[s].state = "whole" /\ files'[s].state # "whole"
  <1>1. ASSUME OperationsInv, [OperationsNext]_opVars, NEW s \in Seconds, Lost(s)
        PROVE  Reused(s) \/ Enough(s)
    <2>0. files \in [Seconds -> File] /\ files' # files
      BY <1>1 DEF OperationsInv, OperationsTypeOK
    <2>1. PICK c \in Calls : RemoveTarget(c) \/ VacuumBegin(c) \/ VacuumEnd(c) \/ RotateDelete(c)
      BY <1>1, <2>0 DEF OperationsNext, Install, BootStep, Boot, VerifyMigration, ApplyMigration,
         MigrationRefused, Serve, Crash, Tick, BackupStep, CreateBackup, VacuumFails, RotateList,
         Return, opVars, backupVars
    <2>2. CASE RemoveTarget(c)
      <3>1. Name(c) = s /\ Uses(c, s) /\ Present(s) /\ backup[c].pc = "remove"
        BY <1>1, <2>0, <2>2, CallName DEF RemoveTarget, Present
      <3> QED
        BY <1>1, <3>1 DEF OperationsInv, NamesOK
    <2>3. CASE VacuumBegin(c)
      BY <1>1, <2>0, <2>3 DEF VacuumBegin
    <2>4. CASE VacuumEnd(c)
      BY <1>1, <2>0, <2>4 DEF VacuumEnd
    <2>5. CASE RotateDelete(c)
      <3>1. backup[c].toDelete \in SUBSET Nat /\ backup[c].toDelete # {}
        BY <1>1, <2>5, MaxSecondAssumption
           DEF OperationsInv, OperationsTypeOK, CallState, RotateDelete, Seconds
      <3>2. Min(backup[c].toDelete) \in backup[c].toDelete
        BY <3>1, LeastOfNaturals
      <3>3. s = Min(backup[c].toDelete)
        BY <1>1, <2>0, <2>5 DEF RotateDelete
      <3> QED
        BY <1>1, <3>2, <3>3 DEF OperationsInv, RotationOK
    <2> QED
      BY <2>1, <2>2, <2>3, <2>4, <2>5
  <1>2. OperationsInv /\ [OperationsNext]_opVars =>
           [\A s \in Seconds :
               files[s].state = "whole" /\ files'[s].state # "whole" =>
                   \/ Reused(s)
                   \/ Cardinality({t \in Newer(s) : Present(t) \/ Reused(t)}) >= Keep]_opVars
    BY <1>1 DEF Enough, NewerKept
  <1> QED
    BY <1>2, OperationsInvariant, PTL DEF OperationsSpec, KeepsTheNewest
============================================================================
