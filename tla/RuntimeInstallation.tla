------------------------ MODULE RuntimeInstallation ------------------------
(***************************************************************************)
(* The account-local installation of the managed runtime: the files under  *)
(* the install root (current.json, pending-installation.json, versions/)   *)
(* and the connector processes, one per open vault, that change them.      *)
(*                                                                         *)
(* Every action is the work between two awaits that touches the disk, so a *)
(* process may be killed, and another process may run, between any two.    *)
(* A rename is atomic; a JSON file is replaced by a rename and is atomic   *)
(* too, except that a kill may leave its temporary file behind (litter).   *)
(***************************************************************************)
EXTENDS FiniteSets, Naturals

CONSTANTS
  Vaults,            \* connector processes that share the install root
  Versions,          \* package versions that may be installed
  Operations,        \* operation ids (randomUUID); bounds the installations
  None,              \* no version, no operation, no lock owner
  CrashPoints,       \* control points at which a process may be terminated
  IOFailures,        \* file operations that may throw
  InitiallyDamaged,  \* versions that may be damaged at the start
  MaxCrashes         \* bound on terminations

VARIABLES
  pointer,    \* current.json
  journal,    \* pending-installation.json
  dirs,       \* versions/<version>: what the directory holds
  staged,     \* versions/.<version>.<op>.staged
  backup,     \* versions/.<version>.<op>.backup
  failed,     \* versions/.<version>.<op>.failed
  litter,     \* a temporary JSON file was left in the install root
  lock,       \* owner recorded in the installation lock directory
  pc,         \* control point of each process
  handle,     \* the PendingRuntimePackageInstallation (or draft) of each process
  before,     \* history: what an operation found when it displaced a package
  used,       \* operation ids drawn so far
  crashes     \* terminations so far

disk == <<pointer, journal, dirs, staged, backup, failed, litter>>
vars == <<pointer, journal, dirs, staged, backup, failed, litter, lock, pc,
          handle, before, used, crashes>>

-----------------------------------------------------------------------------
(* Contents of a directory: Absent, Damaged (partly copied, partly removed *)
(* or corrupted), or a package that verifies, named by where it came from: *)
(* shipped before the behaviour starts, or copied by an operation.         *)
Absent == "absent"
Damaged == "damaged"
Shipped == "shipped"
Intact == {Shipped} \cup Operations
Content == {Absent, Damaged} \cup Intact

Pointer == [version : Versions \cup {None}, previous : Versions \cup {None}]
NoPointer == [version |-> None, previous |-> None]

JournalStates == {"prepared", "activated", "finalizing"}
Record == [op : Operations \cup {None},
           state : JournalStates \cup {"none", "draft"},
           version : Versions \cup {None},
           previous : Pointer,
           had : BOOLEAN]
NoRecord == [op |-> None, state |-> "none", version |-> None,
             previous |-> NoPointer, had |-> FALSE]

(* Control points inside withInstallationLock. *)
Locked == {"pruning", "staging", "staged", "displaced", "unjournaled", "removing"}
RollingBack == {"rollback1", "rollback2", "rollback3"}
ControlPoints == Locked \cup RollingBack \cup
  {"loading", "refused", "recovering", "idle", "held", "activating", "cleaning", "sealing"}

(* Control points from which a JSON file is being written next.            *)
Writing == {"unjournaled", "held", "activating", "rollback2"}

(* Control points at which a kill leaves a disk that the next plugin load  *)
(* cannot repair.                                                          *)
CrashWindows == {"displaced", "unjournaled", "removing"} \cup RollingBack

(* File operations that may throw, by the step they belong to.             *)
Failures == {"prune", "stage", "displace", "promote", "record", "activate",
             "cleanup", "seal", "rollback-move", "rollback-backup",
             "rollback-pointer", "rollback-seal", "compensate", "remove"}
FailureWindows == {"rollback-pointer", "rollback-seal", "compensate", "remove"}

ASSUME ConstantAssumption ==
  /\ None \notin Versions \cup Operations \cup Vaults
  /\ Operations \cap {Absent, Damaged, Shipped} = {}
  /\ CrashPoints \subseteq ControlPoints \ {"loading"}
  /\ IOFailures \subseteq Failures
  /\ InitiallyDamaged \subseteq Versions
  /\ MaxCrashes \in Nat

(* What an error-path rename achieves: it succeeds, or may fail as well.   *)
Compensated == IF "compensate" \in IOFailures THEN BOOLEAN ELSE {TRUE}

(* Mutant: the whole prior pointer is kept instead of its version.         *)
ActivationPointer_Chained(version, previous) ==
  [version |-> version, previous |-> previous]

(* The pointer that names the candidate and remembers what it replaces.    *)
ActivationPointer(version, previous) ==
  [version |-> version,
   previous |-> IF previous.version = version THEN previous.previous
                                              ELSE previous.version]

(* The checks of resumePendingInstall on the recorded installation.        *)
ResumeAccepts(j) ==
  /\ dirs[j.version] \in Intact
  /\ j.had /\ j.state # "finalizing" => backup[j.op] \in Intact
  /\ \/ pointer = ActivationPointer(j.version, j.previous)
     \/ j.state = "prepared" /\ pointer = j.previous

(* mkdir of the lock directory succeeds, or its recorded owner is gone.    *)
LockAvailable == \A u \in Vaults : lock = u => pc[u] \notin Locked

-----------------------------------------------------------------------------
(* The process starts its plugin load; nothing is running.  The pointer    *)
(* names a package that is there; other versions may be retained.          *)
Init ==
  /\ pointer \in Pointer
  /\ dirs \in [Versions -> {Absent, Damaged, Shipped}]
  /\ \A n \in Versions : dirs[n] = Damaged => n \in InitiallyDamaged
  /\ pointer.version = None => pointer.previous = None
  /\ pointer.version # None =>
       /\ dirs[pointer.version] # Absent
       /\ pointer.previous # pointer.version
  /\ journal = NoRecord
  /\ staged = [o \in Operations |-> Absent]
  /\ backup = [o \in Operations |-> Absent]
  /\ failed = [o \in Operations |-> Absent]
  /\ litter = FALSE
  /\ lock = None
  /\ pc = [v \in Vaults |-> "loading"]
  /\ handle = [v \in Vaults |-> NoRecord]
  /\ before = [o \in Operations |-> [pointer |-> NoPointer, package |-> Absent]]
  /\ used = {}
  /\ crashes = 0

Goto(v, point) == pc' = [pc EXCEPT ![v] = point]
Forget(v) == handle' = [handle EXCEPT ![v] = NoRecord]
SetHandle(v, r) == handle' = [handle EXCEPT ![v] = r]

(* The operation threw inside withInstallationLock: its finally releases.  *)
LeaveLocked(v) ==
  /\ lock' = None
  /\ Goto(v, "idle")
  /\ Forget(v)

-----------------------------------------------------------------------------
(* prepareInstall *)

(* Mutant: a pending journal does not stop another prepare.                *)
BeginPrepare_Unguarded(v, n, o) ==
  /\ pc[v] = "idle"
  /\ LockAvailable
  /\ o \notin used
  /\ lock' = v
  /\ used' = used \cup {o}
  /\ SetHandle(v, [NoRecord EXCEPT !.op = o, !.state = "draft", !.version = n])
  /\ Goto(v, "pruning")
  /\ UNCHANGED <<disk, before, crashes>>

(* The lock is taken, no journal is pending and the source verifies.       *)
BeginPrepare(v, n, o) ==
  /\ pc[v] = "idle"
  /\ LockAvailable
  /\ journal = NoRecord
  /\ o \notin used
  /\ lock' = v
  /\ used' = used \cup {o}
  /\ SetHandle(v, [NoRecord EXCEPT !.op = o, !.state = "draft", !.version = n])
  /\ Goto(v, "pruning")
  /\ UNCHANGED <<disk, before, crashes>>

(* Directories of earlier operations are removed: no journal names them.   *)
Prune(v) ==
  /\ pc[v] = "pruning"
  /\ staged' = [o \in Operations |-> Absent]
  /\ backup' = [o \in Operations |-> Absent]
  /\ failed' = [o \in Operations |-> Absent]
  /\ Goto(v, "staging")
  /\ UNCHANGED <<pointer, journal, dirs, litter, lock, handle, before, used, crashes>>

PruneFails(v) ==
  /\ pc[v] = "pruning"
  /\ "prune" \in IOFailures
  /\ LeaveLocked(v)
  /\ UNCHANGED <<disk, before, used, crashes>>

(* The package is copied and verified in the staging directory.            *)
Stage(v) ==
  /\ pc[v] = "staging"
  /\ staged' = [staged EXCEPT ![handle[v].op] = handle[v].op]
  /\ Goto(v, "staged")
  /\ UNCHANGED <<pointer, journal, dirs, backup, failed, litter, lock, handle,
                 before, used, crashes>>

StageFails(v) ==
  /\ pc[v] = "staging"
  /\ "stage" \in IOFailures
  /\ \E left \in {Absent, Damaged} :
        staged' = [staged EXCEPT ![handle[v].op] = left]
  /\ LeaveLocked(v)
  /\ UNCHANGED <<pointer, journal, dirs, backup, failed, litter, before, used, crashes>>

(* A package of the same version that is already there is moved aside.     *)
Displace(v) ==
  LET o == handle[v].op
      n == handle[v].version
      had == dirs[n] # Absent
  IN /\ pc[v] = "staged"
     /\ SetHandle(v, [handle[v] EXCEPT !.previous = pointer, !.had = had])
     /\ backup' = [backup EXCEPT ![o] = dirs[n]]
     /\ dirs' = [dirs EXCEPT ![n] = Absent]
     /\ before' = [before EXCEPT ![o] = [pointer |-> pointer, package |-> dirs[n]]]
     /\ Goto(v, "displaced")
     /\ UNCHANGED <<pointer, journal, staged, failed, litter, lock, used, crashes>>

DisplaceFails(v) ==
  /\ pc[v] = "staged"
  /\ "displace" \in IOFailures
  /\ dirs[handle[v].version] # Absent
  /\ LeaveLocked(v)
  /\ UNCHANGED <<disk, before, used, crashes>>

(* The staged package becomes versions/<version>.                          *)
Promote(v) ==
  LET o == handle[v].op
      n == handle[v].version
  IN /\ pc[v] = "displaced"
     /\ dirs' = [dirs EXCEPT ![n] = staged[o]]
     /\ staged' = [staged EXCEPT ![o] = Absent]
     /\ Goto(v, "unjournaled")
     /\ UNCHANGED <<pointer, journal, backup, failed, litter, lock, handle, before, used,
                    crashes>>

(* Mutant: the package moved aside is not renamed back.                    *)
PromoteFails_NoUndo(v) ==
  /\ pc[v] = "displaced"
  /\ "promote" \in IOFailures
  /\ LeaveLocked(v)
  /\ UNCHANGED <<disk, before, used, crashes>>

(* The rename throws: the package moved aside is renamed back.             *)
PromoteFails(v) ==
  LET o == handle[v].op
      n == handle[v].version
  IN /\ pc[v] = "displaced"
     /\ "promote" \in IOFailures
     /\ \E restored \in Compensated :
          IF handle[v].had /\ restored
          THEN /\ dirs' = [dirs EXCEPT ![n] = backup[o]]
               /\ backup' = [backup EXCEPT ![o] = Absent]
          ELSE UNCHANGED <<dirs, backup>>
     /\ LeaveLocked(v)
     /\ UNCHANGED <<pointer, journal, staged, failed, litter, before, used, crashes>>

(* The journal is written and prepareInstall returns its handle.           *)
RecordPrepared(v) ==
  LET prepared == [handle[v] EXCEPT !.state = "prepared"]
  IN /\ pc[v] = "unjournaled"
     /\ journal' = prepared
     /\ SetHandle(v, prepared)
     /\ lock' = None
     /\ Goto(v, "held")
     /\ UNCHANGED <<pointer, dirs, staged, backup, failed, litter, before, used, crashes>>

(* Writing the journal throws: the candidate is moved out and removed, and *)
(* the package moved aside is renamed back if its place is free.           *)
RecordFails(v) ==
  LET o == handle[v].op
      n == handle[v].version
  IN /\ pc[v] = "unjournaled"
     /\ "record" \in IOFailures
     /\ \E removed, restored \in Compensated :
          IF removed /\ restored /\ handle[v].had
          THEN /\ dirs' = [dirs EXCEPT ![n] = backup[o]]
               /\ backup' = [backup EXCEPT ![o] = Absent]
          ELSE /\ dirs' = IF removed THEN [dirs EXCEPT ![n] = Absent] ELSE dirs
               /\ UNCHANGED backup
     /\ LeaveLocked(v)
     /\ UNCHANGED <<pointer, journal, staged, failed, litter, before, used, crashes>>

-----------------------------------------------------------------------------
(* The pending installation: activate, finalize and rollback *)

(* activate: the pointer is switched first, then the journal says so.      *)
Activate(v) ==
  /\ pc[v] = "held"
  /\ handle[v].state = "prepared"
  /\ pointer' = ActivationPointer(handle[v].version, handle[v].previous)
  /\ Goto(v, "activating")
  /\ UNCHANGED <<journal, dirs, staged, backup, failed, litter, lock, handle,
                 before, used, crashes>>

RecordActivated(v) ==
  LET activated == [handle[v] EXCEPT !.state = "activated"]
  IN /\ pc[v] = "activating"
     /\ journal' = activated
     /\ SetHandle(v, activated)
     /\ Goto(v, "held")
     /\ UNCHANGED <<pointer, dirs, staged, backup, failed, litter, lock, before, used,
                    crashes>>

(* Mutant: the handle believes in the activation that was undone.          *)
ActivateFails_Believed(v) ==
  /\ pc[v] = "activating"
  /\ "activate" \in IOFailures
  /\ pointer' = handle[v].previous
  /\ SetHandle(v, [handle[v] EXCEPT !.state = "activated"])
  /\ Goto(v, "held")
  /\ UNCHANGED <<journal, dirs, staged, backup, failed, litter, lock, before, used, crashes>>

(* The journal cannot be written: the prior pointer is put back.           *)
ActivateFails(v) ==
  /\ pc[v] = "activating"
  /\ "activate" \in IOFailures
  /\ \E restored \in Compensated :
        pointer' = IF restored THEN handle[v].previous ELSE pointer
  /\ Goto(v, "held")
  /\ UNCHANGED <<journal, dirs, staged, backup, failed, litter, lock, handle,
                 before, used, crashes>>

(* Mutant: the backup is deleted before acceptance is recorded.            *)
BeginFinalize_Unrecorded(v) ==
  /\ pc[v] = "held"
  /\ handle[v].state \in {"activated", "finalizing"}
  /\ SetHandle(v, [handle[v] EXCEPT !.state = "finalizing"])
  /\ Goto(v, "cleaning")
  /\ UNCHANGED <<disk, lock, before, used, crashes>>

(* finalize: acceptance is recorded before the backup is deleted.          *)
BeginFinalize(v) ==
  LET finalizing == [handle[v] EXCEPT !.state = "finalizing"]
  IN /\ pc[v] = "held"
     /\ handle[v].state \in {"activated", "finalizing"}
     /\ journal' = IF handle[v].state = "finalizing" THEN journal ELSE finalizing
     /\ SetHandle(v, finalizing)
     /\ Goto(v, "cleaning")
     /\ UNCHANGED <<pointer, dirs, staged, backup, failed, litter, lock, before, used,
                    crashes>>

RemoveBackup(v) ==
  /\ pc[v] = "cleaning"
  /\ backup' = IF handle[v].had
               THEN [backup EXCEPT ![handle[v].op] = Absent] ELSE backup
  /\ Goto(v, "sealing")
  /\ UNCHANGED <<pointer, journal, dirs, staged, failed, litter, lock, handle,
                 before, used, crashes>>

(* The backup is locked: it may be partly deleted, the journal stays.      *)
RemoveBackupFails(v) ==
  /\ pc[v] = "cleaning"
  /\ "cleanup" \in IOFailures
  /\ handle[v].had
  /\ \E left \in {backup[handle[v].op], Damaged} :
        backup' = [backup EXCEPT ![handle[v].op] = left]
  /\ Goto(v, "held")
  /\ UNCHANGED <<pointer, journal, dirs, staged, failed, litter, lock, handle,
                 before, used, crashes>>

(* The journal is removed: the installation is over.                       *)
Seal(v) ==
  /\ pc[v] = "sealing"
  /\ journal' = NoRecord
  /\ Forget(v)
  /\ Goto(v, "idle")
  /\ UNCHANGED <<pointer, dirs, staged, backup, failed, litter, lock, before, used,
                 crashes>>

SealFails(v) ==
  /\ pc[v] = "sealing"
  /\ "seal" \in IOFailures
  /\ Goto(v, "held")
  /\ UNCHANGED <<disk, lock, handle, before, used, crashes>>

(* finalize swallowed a cleanup failure: the update manager drops the      *)
(* handle and leaves the journal to the next plugin load.                  *)
Release(v) ==
  /\ pc[v] = "held"
  /\ handle[v].state = "finalizing"
  /\ Forget(v)
  /\ Goto(v, "idle")
  /\ UNCHANGED <<disk, lock, before, used, crashes>>

(* rollback: the candidate is moved out of versions/<version> ...          *)
BeginRollback(v) ==
  LET o == handle[v].op
      n == handle[v].version
  IN /\ pc[v] \in {"held", "recovering"}
     /\ handle[v].state \in {"prepared", "activated"}
     /\ failed' = [failed EXCEPT ![o] = dirs[n]]
     /\ dirs' = [dirs EXCEPT ![n] = Absent]
     /\ Goto(v, "rollback1")
     /\ UNCHANGED <<pointer, journal, staged, backup, litter, lock, handle, before, used,
                    crashes>>

(* Mutant: the displaced package stays in its backup directory.            *)
RestoreBackup_Skipped(v) ==
  /\ pc[v] = "rollback1"
  /\ Goto(v, "rollback2")
  /\ UNCHANGED <<disk, lock, handle, before, used, crashes>>

(* ... the package it displaced is moved back ...                          *)
RestoreBackup(v) ==
  LET o == handle[v].op
      n == handle[v].version
  IN /\ pc[v] = "rollback1"
     /\ IF handle[v].had /\ backup[o] # Absent
        THEN /\ dirs' = [dirs EXCEPT ![n] = backup[o]]
             /\ backup' = [backup EXCEPT ![o] = Absent]
        ELSE UNCHANGED <<dirs, backup>>
     /\ Goto(v, "rollback2")
     /\ UNCHANGED <<pointer, journal, staged, failed, litter, lock, handle, before, used,
                    crashes>>

(* Mutant: the pointer stays when there was none before.                   *)
RestorePointer_Kept(v) ==
  /\ pc[v] = "rollback2"
  /\ pointer' = IF handle[v].previous = NoPointer THEN pointer ELSE handle[v].previous
  /\ Goto(v, "rollback3")
  /\ UNCHANGED <<journal, dirs, staged, backup, failed, litter, lock, handle,
                 before, used, crashes>>

(* ... the prior pointer is written back or, if there was none, removed ...*)
RestorePointer(v) ==
  /\ pc[v] = "rollback2"
  /\ pointer' = handle[v].previous
  /\ Goto(v, "rollback3")
  /\ UNCHANGED <<journal, dirs, staged, backup, failed, litter, lock, handle,
                 before, used, crashes>>

(* ... and the candidate and the journal are removed.                      *)
EndRollback(v) ==
  /\ pc[v] = "rollback3"
  /\ failed' = [failed EXCEPT ![handle[v].op] = Absent]
  /\ journal' = NoRecord
  /\ Forget(v)
  /\ Goto(v, "idle")
  /\ UNCHANGED <<pointer, dirs, staged, backup, litter, lock, before, used, crashes>>

(* A step of rollback throws.  Before the pointer is restored the candidate*)
(* is moved back if its place is still free.  The caller keeps the handle  *)
(* and may retry, drops it, or is the plugin load, which fails.            *)
RollbackThrows(v) ==
  /\ \/ Goto(v, "held") /\ UNCHANGED handle
     \/ \E point \in {"idle", "refused"} : Goto(v, point) /\ Forget(v)
  /\ UNCHANGED <<pointer, journal, staged, backup, litter, lock, before, used, crashes>>

RollbackMoveFails(v) ==
  /\ pc[v] \in {"held", "recovering"}
  /\ handle[v].state \in {"prepared", "activated"}
  /\ "rollback-move" \in IOFailures
  /\ UNCHANGED <<dirs, failed>>
  /\ RollbackThrows(v)

RestoreFails(v) ==
  LET o == handle[v].op
      n == handle[v].version
  IN /\ \/ pc[v] = "rollback1" /\ "rollback-backup" \in IOFailures /\ handle[v].had
        \/ pc[v] = "rollback2" /\ "rollback-pointer" \in IOFailures
     /\ \E undone \in Compensated :
          IF dirs[n] = Absent /\ undone
          THEN /\ dirs' = [dirs EXCEPT ![n] = failed[o]]
               /\ failed' = [failed EXCEPT ![o] = Absent]
          ELSE UNCHANGED <<dirs, failed>>
     /\ RollbackThrows(v)

EndRollbackFails(v) ==
  /\ pc[v] = "rollback3"
  /\ "rollback-seal" \in IOFailures
  /\ failed' = [failed EXCEPT ![handle[v].op] = Absent]
  /\ UNCHANGED dirs
  /\ RollbackThrows(v)

-----------------------------------------------------------------------------
(* Plugin load: recoverInterruptedInstallation *)

LoadClean(v) ==
  /\ pc[v] = "loading"
  /\ journal = NoRecord
  /\ Goto(v, "idle")
  /\ UNCHANGED <<disk, lock, handle, before, used, crashes>>

(* A recorded installation is taken up again if the disk agrees with it.   *)
(* A prepared one is rolled back by the load itself; an activated one is   *)
(* held until its runtime reconnects or fails to.                          *)
Resume(v) ==
  /\ pc[v] = "loading"
  /\ journal # NoRecord
  /\ ResumeAccepts(journal)
  /\ SetHandle(v, journal)
  /\ Goto(v, IF journal.state = "prepared" THEN "recovering" ELSE "held")
  /\ UNCHANGED <<disk, lock, before, used, crashes>>

(* resumePendingInstall throws, and with it the load of the plugin.        *)
ResumeRefused(v) ==
  /\ pc[v] = "loading"
  /\ journal # NoRecord
  /\ ~ResumeAccepts(journal)
  /\ Goto(v, "refused")
  /\ UNCHANGED <<disk, lock, handle, before, used, crashes>>

(* The user loads the plugin again.                                        *)
Reload(v) ==
  /\ pc[v] = "refused"
  /\ Goto(v, "loading")
  /\ UNCHANGED <<disk, lock, handle, before, used, crashes>>

(* Obsidian quits, the plugin is unloaded or the process is killed.        *)
Crash(v) ==
  /\ pc[v] \in CrashPoints
  /\ crashes < MaxCrashes
  /\ crashes' = crashes + 1
  /\ litter' \in IF pc[v] \in Writing THEN {litter, TRUE} ELSE {litter}
  /\ Goto(v, "loading")
  /\ Forget(v)
  /\ UNCHANGED <<pointer, journal, dirs, staged, backup, failed, lock, before, used>>

-----------------------------------------------------------------------------
(* removeInstalledRuntime *)

(* Refused while a journal is pending or an unowned entry lies in the root.*)
BeginRemove(v) ==
  /\ pc[v] = "idle"
  /\ LockAvailable
  /\ journal = NoRecord
  /\ ~litter
  /\ lock' = v
  /\ Goto(v, "removing")
  /\ UNCHANGED <<disk, handle, before, used, crashes>>

(* The pointer and the packages are removed in parallel, in either order.  *)
RemovePointer(v) ==
  /\ pc[v] = "removing"
  /\ pointer' = NoPointer
  /\ UNCHANGED <<journal, dirs, staged, backup, failed, litter, lock, pc, handle,
                 before, used, crashes>>

RemoveVersions(v) ==
  /\ pc[v] = "removing"
  /\ dirs' = [n \in Versions |-> Absent]
  /\ staged' = [o \in Operations |-> Absent]
  /\ backup' = [o \in Operations |-> Absent]
  /\ failed' = [o \in Operations |-> Absent]
  /\ UNCHANGED <<pointer, journal, litter, lock, pc, handle, before, used, crashes>>

EndRemove(v) ==
  /\ pc[v] = "removing"
  /\ pointer = NoPointer
  /\ \A n \in Versions : dirs[n] = Absent
  /\ LeaveLocked(v)
  /\ UNCHANGED <<disk, before, used, crashes>>

(* A removal throws: some packages are left, whole or in part, and the     *)
(* pointer is left unless it was removed before.                           *)
RemoveFails(v) ==
  /\ pc[v] = "removing"
  /\ "remove" \in IOFailures
  /\ \E spared \in SUBSET Versions : \E hurt \in SUBSET spared :
       dirs' = [n \in Versions |->
                  IF n \notin spared \/ dirs[n] = Absent THEN Absent
                  ELSE IF n \in hurt THEN Damaged ELSE dirs[n]]
  /\ LeaveLocked(v)
  /\ UNCHANGED <<pointer, journal, staged, backup, failed, litter, before, used,
                 crashes>>

-----------------------------------------------------------------------------
Prepare(v) ==
  \/ \E n \in Versions, o \in Operations : BeginPrepare(v, n, o)
  \/ Prune(v) \/ PruneFails(v)
  \/ Stage(v) \/ StageFails(v)
  \/ Displace(v) \/ DisplaceFails(v)
  \/ Promote(v) \/ PromoteFails(v)
  \/ RecordPrepared(v) \/ RecordFails(v)

Complete(v) ==
  \/ Activate(v) \/ RecordActivated(v) \/ ActivateFails(v)
  \/ BeginFinalize(v) \/ RemoveBackup(v) \/ RemoveBackupFails(v)
  \/ Seal(v) \/ SealFails(v) \/ Release(v)

Rollback(v) ==
  \/ BeginRollback(v) \/ RestoreBackup(v) \/ RestorePointer(v) \/ EndRollback(v)
  \/ RollbackMoveFails(v) \/ RestoreFails(v) \/ EndRollbackFails(v)

Load(v) == LoadClean(v) \/ Resume(v) \/ ResumeRefused(v) \/ Reload(v)

Remove(v) ==
  \/ BeginRemove(v) \/ RemovePointer(v) \/ RemoveVersions(v)
  \/ EndRemove(v) \/ RemoveFails(v)

Next == \E v \in Vaults :
  Prepare(v) \/ Complete(v) \/ Rollback(v) \/ Load(v) \/ Crash(v) \/ Remove(v)

Spec == Init /\ [][Next]_vars

-----------------------------------------------------------------------------
TypeOK ==
  /\ pointer \in Pointer
  /\ journal \in Record
  /\ dirs \in [Versions -> Content]
  /\ staged \in [Operations -> Content]
  /\ backup \in [Operations -> Content]
  /\ failed \in [Operations -> Content]
  /\ litter \in BOOLEAN
  /\ lock \in Vaults \cup {None}
  /\ pc \in [Vaults -> ControlPoints]
  /\ handle \in [Vaults -> Record]
  /\ before \in [Operations -> [pointer : Pointer, package : Content]]
  /\ used \subseteq Operations
  /\ crashes \in Nat

-----------------------------------------------------------------------------
(* Control points at which the installation is between two renames.        *)
Dark == {"displaced", "rollback1", "rollback2", "removing"}

(* The runtime the launcher would start is always whole: outside the short *)
(* windows between two renames, current.json names nothing or a package    *)
(* that verifies, whatever the update in progress has reached.             *)
ActiveIntact ==
  (\A v \in Vaults : pc[v] \notin Dark) /\ pointer.version # None
    => dirs[pointer.version] \in Intact

(* A plugin load that finds a journal can always take it up: the load      *)
(* never fails on what a terminated process left behind.                   *)
RecoveryAdmitted ==
  \A v \in Vaults : pc[v] = "loading" /\ journal # NoRecord => ResumeAccepts(journal)

(* Until acceptance is recorded, what the operation replaced still exists: *)
(* the displaced package whole, aside or back in place, and the package    *)
(* of the prior pointer whole.                                             *)
PriorRetained ==
  LET o == journal.op
      found == before[o]
      prior == found.pointer.version
  IN journal.state \in {"prepared", "activated"} =>
       /\ journal.had =>
            found.package \in {backup[o], dirs[journal.version]} \cap Intact
       /\ prior \notin {None, journal.version} => dirs[prior] \in Intact

(* A rollback, also one resumed by a later process, ends with exactly the  *)
(* pointer and the package that the operation found.                       *)
RollbackExact ==
  [][\A v \in Vaults : pc[v] = "rollback3" /\ journal # NoRecord /\ journal' = NoRecord =>
       LET found == before[handle[v].op]
       IN /\ pointer' = found.pointer
          /\ dirs'[handle[v].version] = found.package]_vars

(* An installation that ends otherwise leaves its own package active and   *)
(* remembers the version it replaced.                                      *)
AcceptedIsActive ==
  [][\A v \in Vaults : pc[v] = "sealing" /\ journal' = NoRecord =>
       /\ dirs'[handle[v].version] = handle[v].op
       /\ pointer' = ActivationPointer(handle[v].version, before[handle[v].op].pointer)]_vars

(* Whatever fails and wherever the process is terminated, a displaced      *)
(* package is deleted only after acceptance was recorded: before that it   *)
(* leaves its backup directory only to return to its own place.            *)
BackupKeptUntilAccepted ==
  [][LET o == journal.op
     IN journal # NoRecord /\ backup[o] \in Intact /\ backup'[o] # backup[o] =>
          journal.state = "finalizing" \/ dirs'[journal.version] = backup[o]]_vars

(* One installation at a time: the journal of an operation is removed, by  *)
(* the step that ends it, before another operation records itself.         *)
JournalNotOverwritten ==
  [][journal # NoRecord /\ journal' # NoRecord =>
       /\ journal'.op = journal.op
       /\ journal.state = "finalizing" => journal'.state = "finalizing"]_vars

-----------------------------------------------------------------------------
(* The inductive strengthening behind the properties above, for one vault, *)
(* terminations outside CrashWindows, failures outside FailureWindows and  *)
(* packages that are whole at the start.                                   *)

Preparing == {"pruning", "staging", "staged", "displaced", "unjournaled"}
Holding == {"held", "recovering", "activating", "cleaning", "sealing"} \cup RollingBack

(* A record describes what its operation found and what it depends on.     *)
Describes(j) ==
  LET found == before[j.op]
  IN /\ j.op \in Operations
     /\ j.version \in Versions
     /\ j.previous = found.pointer
     /\ j.had <=> found.package # Absent
     /\ found.package # Damaged
     /\ j.previous.version = j.version => j.had
     /\ j.previous.version \notin {None, j.version} =>
          dirs[j.previous.version] \in Intact

BackupWhole(j) == j.had => backup[j.op] = before[j.op].package

PointerOf(j) ==
  \/ pointer = ActivationPointer(j.version, j.previous)
  \/ j.state = "prepared" /\ pointer = j.previous

HandleInv(v) ==
  LET h == handle[v]
  IN /\ pc[v] \in {"loading", "refused", "idle", "removing"} => h = NoRecord
     /\ pc[v] \in Preparing =>
          h.op \in Operations /\ h.version \in Versions /\ h.state = "draft"
     /\ pc[v] \in Holding => h = journal /\ h.state \in JournalStates
     /\ pc[v] \in {"recovering", "activating"} => h.state = "prepared"
     /\ pc[v] = "activating" => pointer = ActivationPointer(h.version, h.previous)
     /\ pc[v] \in {"cleaning", "sealing"} => h.state = "finalizing"
     /\ pc[v] \in RollingBack => h.state # "finalizing"

PreparingInv(v) ==
  LET h == handle[v]
  IN /\ pc[v] \in Locked => journal = NoRecord
     /\ pc[v] \in {"staged", "displaced"} => staged[h.op] = h.op
     /\ pc[v] \in {"displaced", "unjournaled"} =>
          Describes(h) /\ BackupWhole(h) /\ pointer = h.previous
     /\ pc[v] = "displaced" => dirs[h.version] = Absent
     /\ pc[v] = "unjournaled" => dirs[h.version] = h.op

RollbackInv(v) ==
  LET h == handle[v]
  IN /\ pc[v] = "rollback1" =>
          /\ dirs[h.version] = Absent
          /\ failed[h.op] = h.op
          /\ BackupWhole(h)
     /\ pc[v] \in {"rollback2", "rollback3"} =>
          dirs[h.version] = before[h.op].package
     /\ pc[v] = "rollback3" => pointer = h.previous

JournalInv ==
  journal # NoRecord =>
    /\ journal.state \in JournalStates
    /\ Describes(journal)
    /\ (\A v \in Vaults : pc[v] # "rollback3") => PointerOf(journal)
    /\ (\A v \in Vaults : pc[v] \notin RollingBack) =>
         /\ dirs[journal.version] = journal.op
         /\ journal.state # "finalizing" => BackupWhole(journal)

SettledInv ==
  /\ journal = NoRecord
  /\ \A v \in Vaults : pc[v] \notin {"displaced", "removing"}
  /\ pointer.version # None
  => dirs[pointer.version] \in Intact

Whole == \A n \in Versions : dirs[n] # Damaged

IInv ==
  /\ TypeOK
  /\ Whole
  /\ JournalInv
  /\ SettledInv
  /\ \A v \in Vaults : HandleInv(v) /\ PreparingInv(v) /\ RollbackInv(v)
=============================================================================
