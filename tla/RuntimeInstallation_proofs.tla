--------------------- MODULE RuntimeInstallation_proofs ---------------------
(* Proofs about RuntimeInstallation, for every value of its constants, and *)
(* about InstallationLock, the lock that its actions take in one step.     *)
EXTENDS RuntimeInstallation, InstallationLock, TLAPS

-----------------------------------------------------------------------------
(* Values *)

LEMMA Values ==
  /\ NoPointer \in Pointer
  /\ NoRecord \in Record
  /\ Absent \in Content /\ Damaged \in Content /\ Shipped \in Content
  /\ Operations \subseteq Content
BY DEF NoRecord, NoPointer, Record, Pointer, Content, Intact

LEMMA ActivationPointerType ==
  ASSUME NEW n \in Versions, NEW p \in Pointer
  PROVE  ActivationPointer(n, p) \in Pointer
BY DEF ActivationPointer, Pointer

LEMMA RecordFields ==
  ASSUME NEW r \in Record
  PROVE  /\ r.op \in Operations \cup {None}
         /\ r.version \in Versions \cup {None}
         /\ r.previous \in Pointer
         /\ r.had \in BOOLEAN
         /\ r.state \in JournalStates \cup {"none", "draft"}
BY DEF Record

LEMMA RecordUpdates ==
  ASSUME NEW r \in Record
  PROVE  /\ \A s \in JournalStates :
              /\ [r EXCEPT !.state = s] \in Record
              /\ [r EXCEPT !.state = s].op = r.op
              /\ [r EXCEPT !.state = s].version = r.version
         /\ \A p \in Pointer, b \in BOOLEAN :
              /\ [r EXCEPT !.previous = p, !.had = b] \in Record
              /\ [r EXCEPT !.previous = p, !.had = b].op = r.op
              /\ [r EXCEPT !.previous = p, !.had = b].version = r.version
BY DEF Record

LEMMA DraftRecord ==
  ASSUME NEW o \in Operations, NEW n \in Versions
  PROVE  LET h == [NoRecord EXCEPT !.op = o, !.state = "draft", !.version = n]
         IN h \in Record /\ h.op = o /\ h.version = n
BY DEF Record, NoRecord, NoPointer, Pointer

-----------------------------------------------------------------------------
(* Type correctness *)

LEMMA TypeInit == Init => TypeOK
<1> SUFFICES ASSUME Init PROVE TypeOK
  OBVIOUS
<1>1. pc \in [Vaults -> ControlPoints]
  BY DEF Init, ControlPoints
<1>2. dirs \in [Versions -> Content]
  BY Values DEF Init
<1>3. before \in [Operations -> [pointer : Pointer, package : Content]]
  BY Values DEF Init
<1> QED BY <1>1, <1>2, <1>3, Values DEF Init, TypeOK

(* A process works on its handle's operation and version only while it     *)
(* holds one, and a journal names the operation and version it records.    *)
HandleNames ==
  \A v \in Vaults : pc[v] \in Preparing \cup Holding =>
    handle[v].op \in Operations /\ handle[v].version \in Versions

JournalNames ==
  journal # NoRecord => journal.op \in Operations /\ journal.version \in Versions

TypeInv == TypeOK /\ HandleNames /\ JournalNames

LEMMA TypeInvInit == Init => TypeInv
BY TypeInit DEF Init, TypeInv, HandleNames, JournalNames, Preparing, Holding, RollingBack

LEMMA TypeStepPrepare ==
  ASSUME TypeInv, NEW v \in Vaults, Prepare(v)
  PROVE  TypeInv'
<1> USE Values DEF TypeInv, TypeOK, HandleNames, JournalNames, Preparing, Holding, RollingBack,
        Locked, ControlPoints, Goto, SetHandle, Forget, LeaveLocked, RollbackThrows,
        JournalStates, disk, Compensated
<1>1. ASSUME NEW n \in Versions, NEW o \in Operations, BeginPrepare(v, n, o) PROVE TypeInv'
  <2> DEFINE h == [NoRecord EXCEPT !.op = o, !.state = "draft", !.version = n]
  <2>1. h \in Record
    BY DraftRecord
  <2>2. h.op = o /\ h.version = n
    BY DraftRecord
  <2>3. handle' \in [Vaults -> Record] /\ HandleNames'
    BY <1>1, <2>1, <2>2 DEF BeginPrepare
  <2> QED BY <1>1, <2>3 DEF BeginPrepare
<1>2. ASSUME Prune(v) PROVE TypeInv'
  BY <1>2 DEF Prune
<1>3. ASSUME PruneFails(v) PROVE TypeInv'
  BY <1>3 DEF PruneFails
<1>4. ASSUME Stage(v) PROVE TypeInv'
  BY <1>4 DEF Stage
<1>5. ASSUME StageFails(v) PROVE TypeInv'
  <2>1. staged' \in [Operations -> Content]
    BY <1>5 DEF StageFails
  <2>2. HandleNames'
    BY <1>5 DEF StageFails
  <2> QED BY <1>5, <2>1, <2>2 DEF StageFails
<1>6. ASSUME Displace(v) PROVE TypeInv'
  <2> DEFINE o == handle[v].op
             n == handle[v].version
  <2>1. o \in Operations /\ n \in Versions
    BY <1>6 DEF Displace
  <2> DEFINE found == [pointer |-> pointer, package |-> dirs[n]]
             h == [handle[v] EXCEPT !.previous = pointer, !.had = (dirs[n] # Absent)]
  <2>2. h \in Record /\ h.op = o /\ h.version = n
    <3>1. handle[v] \in Record /\ pointer \in Pointer
      OBVIOUS
    <3> HIDE DEF TypeInv, TypeOK, HandleNames, JournalNames
    <3> QED BY <3>1 DEF Record
  <2>4. found \in [pointer : Pointer, package : Content]
    BY <2>1
  <2>5. before' \in [Operations -> [pointer : Pointer, package : Content]]
    BY <1>6, <2>1, <2>4 DEF Displace
  <2>6. handle' \in [Vaults -> Record] /\ HandleNames'
    BY <1>6, <2>1, <2>2 DEF Displace
  <2> QED BY <1>6, <2>1, <2>5, <2>6 DEF Displace
<1>7. ASSUME DisplaceFails(v) PROVE TypeInv'
  BY <1>7 DEF DisplaceFails
<1>8. ASSUME Promote(v) PROVE TypeInv'
  BY <1>8 DEF Promote
<1>9. ASSUME PromoteFails(v) PROVE TypeInv'
  <2> DEFINE o == handle[v].op
             n == handle[v].version
  <2>1. o \in Operations /\ n \in Versions
    BY <1>9 DEF PromoteFails
  <2>2. dirs' \in [Versions -> Content] /\ backup' \in [Operations -> Content]
    <3>1. backup[o] \in Content
      BY <2>1
    <3>2. /\ dirs' \in {[dirs EXCEPT ![n] = backup[o]], dirs}
          /\ backup' \in {[backup EXCEPT ![o] = Absent], backup}
      BY <1>9 DEF PromoteFails
    <3> QED BY <2>1, <3>1, <3>2
  <2>3. HandleNames'
    BY <1>9 DEF PromoteFails
  <2> QED BY <1>9, <2>2, <2>3 DEF PromoteFails
<1>10. ASSUME RecordPrepared(v) PROVE TypeInv'
  <2>1. /\ [handle[v] EXCEPT !.state = "prepared"] \in Record
        /\ [handle[v] EXCEPT !.state = "prepared"].op = handle[v].op
        /\ [handle[v] EXCEPT !.state = "prepared"].version = handle[v].version
    BY RecordUpdates
  <2>2. handle[v].op \in Operations /\ handle[v].version \in Versions
    BY <1>10 DEF RecordPrepared
  <2> QED BY <1>10, <2>1, <2>2 DEF RecordPrepared
<1>11. ASSUME RecordFails(v) PROVE TypeInv'
  <2> DEFINE o == handle[v].op
             n == handle[v].version
  <2>1. o \in Operations /\ n \in Versions
    BY <1>11 DEF RecordFails
  <2>2. dirs' \in [Versions -> Content] /\ backup' \in [Operations -> Content]
    <3>1. backup[o] \in Content
      BY <2>1
    <3>2. /\ dirs' \in {[dirs EXCEPT ![n] = backup[o]], [dirs EXCEPT ![n] = Absent], dirs}
          /\ backup' \in {[backup EXCEPT ![o] = Absent], backup}
      BY <1>11 DEF RecordFails
    <3> QED BY <2>1, <3>1, <3>2
  <2>3. HandleNames'
    BY <1>11 DEF RecordFails
  <2> QED BY <1>11, <2>2, <2>3 DEF RecordFails
<1> QED
  BY <1>1, <1>2, <1>3, <1>4, <1>5, <1>6, <1>7, <1>8, <1>9, <1>10, <1>11 DEF Prepare

LEMMA TypeStepComplete ==
  ASSUME TypeInv, NEW v \in Vaults, Complete(v)
  PROVE  TypeInv'
<1> USE Values DEF TypeInv, TypeOK, HandleNames, JournalNames, Preparing, Holding, RollingBack,
        Locked, ControlPoints, Goto, SetHandle, Forget, LeaveLocked, RollbackThrows,
        JournalStates, disk, Compensated
<1>1. ASSUME Activate(v) PROVE TypeInv'
  BY <1>1, RecordFields, ActivationPointerType DEF Activate
<1>2. ASSUME RecordActivated(v) PROVE TypeInv'
  <2>1. /\ [handle[v] EXCEPT !.state = "activated"] \in Record
        /\ [handle[v] EXCEPT !.state = "activated"].op = handle[v].op
        /\ [handle[v] EXCEPT !.state = "activated"].version = handle[v].version
    BY RecordUpdates
  <2>2. handle[v].op \in Operations /\ handle[v].version \in Versions
    BY <1>2 DEF RecordActivated
  <2> QED BY <1>2, <2>1, <2>2 DEF RecordActivated
<1>3. ASSUME ActivateFails(v) PROVE TypeInv'
  BY <1>3, RecordFields DEF ActivateFails
<1>4. ASSUME BeginFinalize(v) PROVE TypeInv'
  <2>1. /\ [handle[v] EXCEPT !.state = "finalizing"] \in Record
        /\ [handle[v] EXCEPT !.state = "finalizing"].op = handle[v].op
        /\ [handle[v] EXCEPT !.state = "finalizing"].version = handle[v].version
    BY RecordUpdates
  <2>2. handle[v].op \in Operations /\ handle[v].version \in Versions
    BY <1>4 DEF BeginFinalize
  <2> QED BY <1>4, <2>1, <2>2 DEF BeginFinalize
<1>5. ASSUME RemoveBackup(v) PROVE TypeInv'
  BY <1>5 DEF RemoveBackup
<1>6. ASSUME RemoveBackupFails(v) PROVE TypeInv'
  <2>1. backup' \in [Operations -> Content]
    BY <1>6 DEF RemoveBackupFails
  <2>2. HandleNames'
    BY <1>6 DEF RemoveBackupFails
  <2> QED BY <1>6, <2>1, <2>2 DEF RemoveBackupFails
<1>7. ASSUME Seal(v) PROVE TypeInv'
  BY <1>7 DEF Seal
<1>8. ASSUME SealFails(v) PROVE TypeInv'
  BY <1>8 DEF SealFails
<1>9. ASSUME Release(v) PROVE TypeInv'
  BY <1>9 DEF Release
<1> QED
  BY <1>1, <1>2, <1>3, <1>4, <1>5, <1>6, <1>7, <1>8, <1>9 DEF Complete

LEMMA TypeStepRollback ==
  ASSUME TypeInv, NEW v \in Vaults, Rollback(v)
  PROVE  TypeInv'
<1> USE Values DEF TypeInv, TypeOK, HandleNames, JournalNames, Preparing, Holding, RollingBack,
        Locked, ControlPoints, Goto, SetHandle, Forget, LeaveLocked, RollbackThrows,
        JournalStates, disk, Compensated
<1>1. ASSUME BeginRollback(v) PROVE TypeInv'
  BY <1>1 DEF BeginRollback
<1>2. ASSUME RestoreBackup(v) PROVE TypeInv'
  <2> DEFINE o == handle[v].op
             n == handle[v].version
  <2>1. o \in Operations /\ n \in Versions
    BY <1>2 DEF RestoreBackup
  <2>2. dirs' \in [Versions -> Content] /\ backup' \in [Operations -> Content]
    <3>1. backup[o] \in Content
      BY <2>1
    <3>2. /\ dirs' \in {[dirs EXCEPT ![n] = backup[o]], dirs}
          /\ backup' \in {[backup EXCEPT ![o] = Absent], backup}
      BY <1>2 DEF RestoreBackup
    <3> QED BY <2>1, <3>1, <3>2
  <2>3. HandleNames'
    BY <1>2 DEF RestoreBackup
  <2> QED BY <1>2, <2>2, <2>3 DEF RestoreBackup
<1>3. ASSUME RestorePointer(v) PROVE TypeInv'
  BY <1>3, RecordFields DEF RestorePointer
<1>4. ASSUME EndRollback(v) PROVE TypeInv'
  BY <1>4 DEF EndRollback
<1>5. ASSUME RollbackMoveFails(v) PROVE TypeInv'
  <2>1. HandleNames' /\ handle' \in [Vaults -> Record] /\ pc' \in [Vaults -> ControlPoints]
    BY <1>5 DEF RollbackMoveFails
  <2> QED BY <1>5, <2>1 DEF RollbackMoveFails
<1>6. ASSUME RestoreFails(v) PROVE TypeInv'
  <2> DEFINE o == handle[v].op
             n == handle[v].version
  <2>1. o \in Operations /\ n \in Versions
    BY <1>6 DEF RestoreFails
  <2>2. dirs' \in [Versions -> Content] /\ failed' \in [Operations -> Content]
    <3>1. failed[o] \in Content
      BY <2>1
    <3>2. /\ dirs' \in {[dirs EXCEPT ![n] = failed[o]], dirs}
          /\ failed' \in {[failed EXCEPT ![o] = Absent], failed}
      BY <1>6 DEF RestoreFails
    <3> QED BY <2>1, <3>1, <3>2
  <2>3. HandleNames'
    BY <1>6 DEF RestoreFails
  <2> QED BY <1>6, <2>2, <2>3 DEF RestoreFails
<1>7. ASSUME EndRollbackFails(v) PROVE TypeInv'
  BY <1>7 DEF EndRollbackFails
<1> QED
  BY <1>1, <1>2, <1>3, <1>4, <1>5, <1>6, <1>7 DEF Rollback

LEMMA TypeStepLoad ==
  ASSUME TypeInv, NEW v \in Vaults, Load(v)
  PROVE  TypeInv'
<1> USE Values DEF TypeInv, TypeOK, HandleNames, JournalNames, Preparing, Holding, RollingBack,
        Locked, ControlPoints, Goto, SetHandle, Forget, LeaveLocked, RollbackThrows,
        JournalStates, disk, Compensated
<1>1. ASSUME LoadClean(v) PROVE TypeInv'
  BY <1>1 DEF LoadClean
<1>2. ASSUME Resume(v) PROVE TypeInv'
  BY <1>2 DEF Resume
<1>3. ASSUME ResumeRefused(v) PROVE TypeInv'
  BY <1>3 DEF ResumeRefused
<1>4. ASSUME Reload(v) PROVE TypeInv'
  BY <1>4 DEF Reload
<1> QED
  BY <1>1, <1>2, <1>3, <1>4 DEF Load

LEMMA TypeStepRemove ==
  ASSUME TypeInv, NEW v \in Vaults, Remove(v)
  PROVE  TypeInv'
<1> USE Values DEF TypeInv, TypeOK, HandleNames, JournalNames, Preparing, Holding, RollingBack,
        Locked, ControlPoints, Goto, SetHandle, Forget, LeaveLocked, RollbackThrows,
        JournalStates, disk, Compensated
<1>1. ASSUME BeginRemove(v) PROVE TypeInv'
  BY <1>1 DEF BeginRemove
<1>2. ASSUME RemovePointer(v) PROVE TypeInv'
  BY <1>2 DEF RemovePointer
<1>3. ASSUME RemoveVersions(v) PROVE TypeInv'
  BY <1>3 DEF RemoveVersions
<1>4. ASSUME EndRemove(v) PROVE TypeInv'
  BY <1>4 DEF EndRemove
<1>5. ASSUME RemoveFails(v) PROVE TypeInv'
  BY <1>5 DEF RemoveFails, Content
<1> QED
  BY <1>1, <1>2, <1>3, <1>4, <1>5 DEF Remove

LEMMA TypeStepCrash ==
  ASSUME TypeInv, NEW v \in Vaults, Crash(v)
  PROVE  TypeInv'
<1> USE Values DEF TypeInv, TypeOK, HandleNames, JournalNames, Preparing, Holding, RollingBack,
        Locked, ControlPoints, Goto, SetHandle, Forget, LeaveLocked, RollbackThrows,
        JournalStates, disk, Compensated
<1>1. ASSUME Crash(v) PROVE TypeInv'
  <2>0. crashes' \in Nat
    BY <1>1 DEF Crash
  <2>1. litter' \in BOOLEAN
    <3>1. litter' \in {litter, TRUE} \/ litter' \in {litter}
      BY <1>1 DEF Crash
    <3>2. litter \in BOOLEAN
      OBVIOUS
    <3> QED BY <3>1, <3>2
  <2>2. HandleNames' /\ handle' \in [Vaults -> Record] /\ pc' \in [Vaults -> ControlPoints]
    BY <1>1 DEF Crash
  <2> QED BY <1>1, <2>0, <2>1, <2>2 DEF Crash
<1> QED BY <1>1

LEMMA TypeStep ==
  ASSUME TypeInv, [Next]_vars
  PROVE  TypeInv'
<1>1. CASE UNCHANGED vars
  BY <1>1 DEF vars, TypeInv, TypeOK, HandleNames, JournalNames
<1>2. CASE Next
  BY <1>2, TypeStepPrepare, TypeStepComplete, TypeStepRollback, TypeStepLoad,
     TypeStepRemove, TypeStepCrash DEF Next
<1> QED BY <1>1, <1>2

(* The JSON files, the directories and the process records always hold     *)
(* values of their kind, whatever fails and wherever processes are killed. *)
THEOREM TypeCorrect == Spec => []TypeOK
<1>1. TypeInv => TypeOK
  BY DEF TypeInv
<1> QED BY <1>1, TypeInvInit, TypeStep, PTL DEF Spec

-----------------------------------------------------------------------------
(* The inductive invariant *)

(* One process works on the installation.                                  *)
SingleVault == \A u, w \in Vaults : u = w

(* A kill does not fall between two renames, the error paths that would    *)
(* lose the prior runtime are not taken and no package starts damaged.     *)
SafeFaults ==
  /\ CrashPoints \cap CrashWindows = {}
  /\ IOFailures \cap FailureWindows = {}
  /\ InitiallyDamaged = {}

LEMMA RecordValues ==
  /\ NoRecord.state = "none"
  /\ \A r \in Record :
       /\ r.previous \in Pointer /\ r.had \in BOOLEAN
       /\ \A s \in JournalStates :
            LET q == [r EXCEPT !.state = s]
            IN q.op = r.op /\ q.state = s /\ q.version = r.version /\ q.previous = r.previous
               /\ (q.had <=> r.had)
               /\ r.state = s => q = r
BY DEF Record, NoRecord, JournalStates

LEMMA Distinct ==
  /\ Absent # Damaged /\ Absent \notin Intact /\ Damaged \notin Intact
  /\ \A c \in Content : c \notin {Absent, Damaged} => c \in Intact
  /\ \A o \in Operations : o \in Intact /\ o # Absent /\ o # Damaged
  /\ NoPointer.version = None
  /\ \A n, p : ActivationPointer(n, p).version = n
BY ConstantAssumption
   DEF Absent, Damaged, Shipped, Intact, Content, NoPointer, ActivationPointer

(* The inductive invariant as the one process v sees it.                   *)
Sound(v) == Whole /\ JournalInv /\ SettledInv
            /\ HandleInv(v) /\ PreparingInv(v) /\ RollbackInv(v)

LEMMA SoundStepPrepare ==
  ASSUME SafeFaults, TypeOK, TypeOK',
         NEW v \in Vaults, \A u \in Vaults : u = v, Sound(v), Prepare(v)
  PROVE  Sound(v)'
<1> USE RecordValues, Distinct DEF Sound, TypeOK, Whole, JournalInv, SettledInv, HandleInv, PreparingInv,
        RollbackInv, Goto, Forget, SetHandle, LeaveLocked, RollbackThrows, Compensated, disk,
        Preparing, Holding, RollingBack, Locked, Describes, BackupWhole, PointerOf, JournalStates,
        SafeFaults, FailureWindows, CrashWindows
<1>1. ASSUME NEW n \in Versions, NEW o \in Operations, BeginPrepare(v, n, o) PROVE Sound(v)'
  BY <1>1 DEF BeginPrepare
<1>2. ASSUME Prune(v) PROVE Sound(v)'
  BY <1>2 DEF Prune
<1>3. ASSUME PruneFails(v) PROVE Sound(v)'
  BY <1>3 DEF PruneFails
<1>4. ASSUME Stage(v) PROVE Sound(v)'
  BY <1>4 DEF Stage
<1>5. ASSUME StageFails(v) PROVE Sound(v)'
  BY <1>5 DEF StageFails
<1>6. ASSUME Displace(v) PROVE Sound(v)'
  <2> DEFINE o == handle[v].op
             n == handle[v].version
  <2>1. Whole' /\ JournalInv' /\ SettledInv' /\ HandleInv(v)' /\ RollbackInv(v)'
    BY <1>6 DEF Displace
  <2>2. o \in Operations /\ n \in Versions /\ journal = NoRecord
    BY <1>6 DEF Displace
  <2>3. /\ handle'[v].op = o /\ handle'[v].version = n /\ handle'[v].previous = pointer
        /\ handle'[v].had <=> dirs[n] # Absent
    <3>1. handle'[v] = [handle[v] EXCEPT !.previous = pointer, !.had = (dirs[n] # Absent)]
      BY <1>6 DEF Displace
    <3>2. handle[v] \in Record
      OBVIOUS
    <3> QED BY ONLY <3>1, <3>2 DEF Record
  <2>4. /\ before'[o].pointer = pointer /\ before'[o].package = dirs[n]
        /\ backup'[o] = dirs[n] /\ dirs' = [dirs EXCEPT ![n] = Absent]
    BY <1>6, <2>2 DEF Displace
  <2>5. pointer.version # None => pointer.version \in Versions /\ dirs[pointer.version] \in Intact
    BY <1>6, <2>2 DEF Displace, Pointer
  <2>6. Describes(handle[v])'
    <3>1. pointer.version \notin {None, n} => dirs'[pointer.version] = dirs[pointer.version]
      BY <2>2, <2>4, <2>5
    <3>2. dirs[n] # Damaged /\ dirs[n] \in Content
      BY <2>2
    <3>3. pointer.version = n => dirs[n] # Absent
      <4>1. n # None
        BY <2>2, ConstantAssumption
      <4> QED BY <2>5, <4>1
    <3> QED BY ONLY <2>2, <2>3, <2>4, <2>5, <3>1, <3>2, <3>3 DEF Describes
  <2>7. PreparingInv(v)'
    BY <1>6, <2>2, <2>3, <2>4, <2>6 DEF Displace
  <2> QED BY <2>1, <2>7
<1>7. ASSUME DisplaceFails(v) PROVE Sound(v)'
  BY <1>7 DEF DisplaceFails
<1>8. ASSUME Promote(v) PROVE Sound(v)'
  BY <1>8 DEF Promote
<1>9. ASSUME PromoteFails(v) PROVE Sound(v)'
  <2> DEFINE o == handle[v].op
             n == handle[v].version
  <2>1. Whole' /\ JournalInv' /\ HandleInv(v)' /\ PreparingInv(v)' /\ RollbackInv(v)'
    BY <1>9 DEF PromoteFails
  <2>2. /\ o \in Operations /\ n \in Versions /\ Describes(handle[v])
        /\ BackupWhole(handle[v]) /\ pointer = handle[v].previous /\ pointer' = pointer
    BY <1>9 DEF PromoteFails
  <2>3. handle[v].had => dirs' = [dirs EXCEPT ![n] = backup[o]]
    BY <1>9 DEF PromoteFails
  <2>4. ~handle[v].had => dirs' = dirs
    BY <1>9 DEF PromoteFails
  <2>5. handle[v].had => backup[o] \in Intact
    BY <2>2
  <2>6. pointer.version # None => pointer.version \in Versions
    BY DEF Pointer
  <2>7. SettledInv'
    BY <2>2, <2>3, <2>4, <2>5, <2>6
  <2> QED BY <2>1, <2>7
<1>10. ASSUME RecordPrepared(v) PROVE Sound(v)'
  BY <1>10 DEF RecordPrepared
<1>11. ASSUME RecordFails(v) PROVE Sound(v)'
  <2> DEFINE o == handle[v].op
             n == handle[v].version
  <2>1. Whole' /\ JournalInv' /\ HandleInv(v)' /\ PreparingInv(v)' /\ RollbackInv(v)'
    BY <1>11 DEF RecordFails
  <2>2. /\ o \in Operations /\ n \in Versions /\ Describes(handle[v])
        /\ BackupWhole(handle[v]) /\ pointer = handle[v].previous /\ pointer' = pointer
    BY <1>11 DEF RecordFails
  <2>3. handle[v].had => dirs' = [dirs EXCEPT ![n] = backup[o]]
    BY <1>11 DEF RecordFails
  <2>4. ~handle[v].had => dirs' = [dirs EXCEPT ![n] = Absent]
    BY <1>11 DEF RecordFails
  <2>5. handle[v].had => backup[o] \in Intact
    BY <2>2
  <2>6. pointer.version # None => pointer.version \in Versions
    BY DEF Pointer
  <2>7. SettledInv'
    BY <2>2, <2>3, <2>4, <2>5, <2>6
  <2> QED BY <2>1, <2>7
<1> QED
  BY <1>1, <1>2, <1>3, <1>4, <1>5, <1>6, <1>7, <1>8, <1>9, <1>10, <1>11 DEF Prepare

LEMMA SoundStepComplete ==
  ASSUME SafeFaults, TypeOK, TypeOK',
         NEW v \in Vaults, \A u \in Vaults : u = v, Sound(v), Complete(v)
  PROVE  Sound(v)'
<1> USE RecordValues, Distinct DEF Sound, TypeOK, Whole, JournalInv, SettledInv, HandleInv, PreparingInv,
        RollbackInv, Goto, Forget, SetHandle, LeaveLocked, RollbackThrows, Compensated, disk,
        Preparing, Holding, RollingBack, Locked, Describes, BackupWhole, PointerOf, JournalStates,
        SafeFaults, FailureWindows, CrashWindows
<1>1. ASSUME Activate(v) PROVE Sound(v)'
  BY <1>1 DEF Activate
<1>2. ASSUME RecordActivated(v) PROVE Sound(v)'
  <2>1. Whole' /\ SettledInv' /\ HandleInv(v)' /\ PreparingInv(v)' /\ RollbackInv(v)'
    BY <1>2 DEF RecordActivated
  <2>2. handle[v] = journal /\ journal # NoRecord /\ Describes(journal)
    BY <1>2 DEF RecordActivated
  <2>3. /\ journal'.op = journal.op /\ journal'.version = journal.version
        /\ journal'.previous = journal.previous /\ (journal'.had <=> journal.had)
        /\ journal'.state = "activated"
        /\ UNCHANGED <<pointer, dirs, backup, before>>
    BY <1>2, <2>2 DEF RecordActivated
  <2>4. Describes(journal)' /\ PointerOf(journal)'
    BY <1>2, <2>2, <2>3 DEF RecordActivated
  <2>5. dirs'[journal'.version] = journal'.op /\ BackupWhole(journal)'
    BY <1>2, <2>2, <2>3 DEF RecordActivated
  <2>6. JournalInv'
    BY <2>3, <2>4, <2>5
  <2> QED BY <2>1, <2>6
<1>3. ASSUME ActivateFails(v) PROVE Sound(v)'
  BY <1>3 DEF ActivateFails
<1>4. ASSUME BeginFinalize(v) PROVE Sound(v)'
  BY <1>4 DEF BeginFinalize
<1>5. ASSUME RemoveBackup(v) PROVE Sound(v)'
  BY <1>5 DEF RemoveBackup
<1>6. ASSUME RemoveBackupFails(v) PROVE Sound(v)'
  BY <1>6 DEF RemoveBackupFails
<1>7. ASSUME Seal(v) PROVE Sound(v)'
  BY <1>7 DEF Seal
<1>8. ASSUME SealFails(v) PROVE Sound(v)'
  BY <1>8 DEF SealFails
<1>9. ASSUME Release(v) PROVE Sound(v)'
  BY <1>9 DEF Release
<1> QED
  BY <1>1, <1>2, <1>3, <1>4, <1>5, <1>6, <1>7, <1>8, <1>9 DEF Complete

LEMMA SoundStepRollback ==
  ASSUME SafeFaults, TypeOK, TypeOK',
         NEW v \in Vaults, \A u \in Vaults : u = v, Sound(v), Rollback(v)
  PROVE  Sound(v)'
<1> USE RecordValues, Distinct DEF Sound, TypeOK, Whole, JournalInv, SettledInv, HandleInv, PreparingInv,
        RollbackInv, Goto, Forget, SetHandle, LeaveLocked, RollbackThrows, Compensated, disk,
        Preparing, Holding, RollingBack, Locked, Describes, BackupWhole, PointerOf, JournalStates,
        SafeFaults, FailureWindows, CrashWindows
<1>1. ASSUME BeginRollback(v) PROVE Sound(v)'
  BY <1>1 DEF BeginRollback
<1>2. ASSUME RestoreBackup(v) PROVE Sound(v)'
  <2> DEFINE o == handle[v].op
             n == handle[v].version
  <2>1. Whole' /\ SettledInv' /\ HandleInv(v)' /\ PreparingInv(v)' /\ RollbackInv(v)'
    BY <1>2 DEF RestoreBackup
  <2>2. /\ handle[v] = journal /\ journal # NoRecord /\ Describes(journal) /\ PointerOf(journal)
        /\ UNCHANGED <<journal, pointer, before>> /\ pc'[v] = "rollback2"
    BY <1>2 DEF RestoreBackup
  <2>3. \A m \in Versions : m # n => dirs'[m] = dirs[m]
    BY <1>2 DEF RestoreBackup
  <2>4. Describes(journal)'
    <3>1. journal.previous.version \in Versions \cup {None}
      BY DEF Pointer, Record
    <3> QED BY <2>2, <2>3, <3>1
  <2>5. PointerOf(journal)'
    BY <2>2
  <2>6. JournalInv'
    BY <2>2, <2>4, <2>5
  <2> QED BY <2>1, <2>6
<1>3. ASSUME RestorePointer(v) PROVE Sound(v)'
  BY <1>3 DEF RestorePointer
<1>4. ASSUME EndRollback(v) PROVE Sound(v)'
  BY <1>4 DEF EndRollback
<1>5. ASSUME RollbackMoveFails(v) PROVE Sound(v)'
  BY <1>5 DEF RollbackMoveFails
<1>6. ASSUME RestoreFails(v) PROVE Sound(v)'
  <2> DEFINE o == handle[v].op
             n == handle[v].version
  <2>1. Whole' /\ SettledInv' /\ HandleInv(v)' /\ PreparingInv(v)' /\ RollbackInv(v)'
    BY <1>6 DEF RestoreFails
  <2>2. /\ pc[v] = "rollback1" /\ handle[v].had
        /\ handle[v] = journal /\ journal # NoRecord /\ Describes(journal) /\ PointerOf(journal)
        /\ UNCHANGED <<journal, pointer, before, backup>> /\ pc'[v] \notin RollingBack
    BY <1>6 DEF RestoreFails
  <2>3. dirs' = [dirs EXCEPT ![n] = o]
    BY <1>6, <2>2 DEF RestoreFails
  <2>4. Describes(journal)'
    <3>1. journal.previous.version \in Versions \cup {None}
      BY DEF Pointer, Record
    <3> QED BY <2>2, <2>3, <3>1
  <2>5. PointerOf(journal)' /\ BackupWhole(journal)' /\ dirs'[journal.version] = journal.op
    BY <2>2, <2>3
  <2>6. JournalInv'
    BY <2>2, <2>4, <2>5
  <2> QED BY <2>1, <2>6
<1>7. ASSUME EndRollbackFails(v) PROVE Sound(v)'
  BY <1>7 DEF EndRollbackFails
<1> QED
  BY <1>1, <1>2, <1>3, <1>4, <1>5, <1>6, <1>7 DEF Rollback

LEMMA SoundStepLoad ==
  ASSUME SafeFaults, TypeOK, TypeOK',
         NEW v \in Vaults, \A u \in Vaults : u = v, Sound(v), Load(v)
  PROVE  Sound(v)'
<1> USE RecordValues, Distinct DEF Sound, TypeOK, Whole, JournalInv, SettledInv, HandleInv, PreparingInv,
        RollbackInv, Goto, Forget, SetHandle, LeaveLocked, RollbackThrows, Compensated, disk,
        Preparing, Holding, RollingBack, Locked, Describes, BackupWhole, PointerOf, JournalStates,
        SafeFaults, FailureWindows, CrashWindows
<1>1. ASSUME LoadClean(v) PROVE Sound(v)'
  BY <1>1 DEF LoadClean
<1>2. ASSUME Resume(v) PROVE Sound(v)'
  BY <1>2 DEF Resume
<1>3. ASSUME ResumeRefused(v) PROVE Sound(v)'
  BY <1>3 DEF ResumeRefused
<1>4. ASSUME Reload(v) PROVE Sound(v)'
  BY <1>4 DEF Reload
<1> QED
  BY <1>1, <1>2, <1>3, <1>4 DEF Load

LEMMA SoundStepRemove ==
  ASSUME SafeFaults, TypeOK, TypeOK',
         NEW v \in Vaults, \A u \in Vaults : u = v, Sound(v), Remove(v)
  PROVE  Sound(v)'
<1> USE RecordValues, Distinct DEF Sound, TypeOK, Whole, JournalInv, SettledInv, HandleInv, PreparingInv,
        RollbackInv, Goto, Forget, SetHandle, LeaveLocked, RollbackThrows, Compensated, disk,
        Preparing, Holding, RollingBack, Locked, Describes, BackupWhole, PointerOf, JournalStates,
        SafeFaults, FailureWindows, CrashWindows
<1>1. ASSUME BeginRemove(v) PROVE Sound(v)'
  BY <1>1 DEF BeginRemove
<1>2. ASSUME RemovePointer(v) PROVE Sound(v)'
  BY <1>2 DEF RemovePointer
<1>3. ASSUME RemoveVersions(v) PROVE Sound(v)'
  BY <1>3 DEF RemoveVersions
<1>4. ASSUME EndRemove(v) PROVE Sound(v)'
  BY <1>4 DEF EndRemove
<1>5. ASSUME RemoveFails(v) PROVE Sound(v)'
  BY <1>5 DEF RemoveFails
<1> QED
  BY <1>1, <1>2, <1>3, <1>4, <1>5 DEF Remove

LEMMA SoundStepCrash ==
  ASSUME SafeFaults, TypeOK, TypeOK',
         NEW v \in Vaults, \A u \in Vaults : u = v, Sound(v), Crash(v)
  PROVE  Sound(v)'
<1> USE RecordValues, Distinct DEF Sound, TypeOK, Whole, JournalInv, SettledInv, HandleInv, PreparingInv,
        RollbackInv, Goto, Forget, SetHandle, LeaveLocked, RollbackThrows, Compensated, disk,
        Preparing, Holding, RollingBack, Locked, Describes, BackupWhole, PointerOf, JournalStates,
        SafeFaults, FailureWindows, CrashWindows
<1>1. ASSUME Crash(v) PROVE Sound(v)'
  BY <1>1 DEF Crash
<1> QED BY <1>1

LEMMA SoundInit ==
  ASSUME SafeFaults, Init, TypeOK, NEW v \in Vaults
  PROVE  Sound(v)
BY ConstantAssumption, Distinct, RecordValues
   DEF Init, SafeFaults, Sound, Whole, JournalInv, SettledInv, HandleInv, PreparingInv,
       RollbackInv, TypeOK, Pointer, Preparing, Holding, RollingBack, Locked

(* IInv is Sound for the one process there is.                             *)
LEMMA IInvSound ==
  ASSUME SingleVault, NEW v \in Vaults
  PROVE  IInv <=> TypeOK /\ Sound(v)
BY DEF SingleVault, IInv, Sound

LEMMA SingleIsAll ==
  ASSUME SingleVault, NEW v \in Vaults
  PROVE  \A u \in Vaults : u = v
BY DEF SingleVault

LEMMA IInvNames ==
  ASSUME IInv
  PROVE  TypeInv
BY RecordValues DEF IInv, TypeInv, HandleNames, JournalNames, HandleInv, JournalInv, Describes,
   Preparing, Holding, RollingBack, JournalStates

LEMMA IInvInit ==
  ASSUME SingleVault, SafeFaults, Init
  PROVE  IInv
<1>1. TypeOK
  BY TypeInit
<1>2. Whole /\ JournalInv /\ SettledInv
  BY ConstantAssumption, Distinct, <1>1 DEF Init, SafeFaults, Whole, JournalInv, SettledInv, TypeOK, Pointer
<1>3. \A v \in Vaults : Sound(v)
  BY <1>1, SoundInit
<1> QED BY <1>1, <1>2, <1>3 DEF IInv, Sound

LEMMA IInvStep ==
  ASSUME SingleVault, SafeFaults, IInv, [Next]_vars
  PROVE  IInv'
<1>1. TypeOK /\ TypeOK'
  BY IInvNames, TypeStep DEF TypeInv
<1>2. CASE UNCHANGED vars
  BY <1>1, <1>2 DEF vars, IInv, Whole, JournalInv, SettledInv, HandleInv, PreparingInv, RollbackInv,
     Describes, BackupWhole, PointerOf
<1>3. ASSUME NEW v \in Vaults,
             Prepare(v) \/ Complete(v) \/ Rollback(v) \/ Load(v) \/ Crash(v) \/ Remove(v)
      PROVE  IInv'
  <2>1. Sound(v) /\ \A u \in Vaults : u = v
    BY IInvSound, SingleIsAll
  <2>2. Sound(v)'
    BY <1>1, <1>3, <2>1, ConstantAssumption, SoundStepPrepare, SoundStepComplete,
       SoundStepRollback, SoundStepLoad, SoundStepRemove, SoundStepCrash
  <2> QED BY <1>1, <2>1, <2>2 DEF IInv, Sound
<1> QED BY <1>2, <1>3 DEF Next

(* With one vault, and kills and failures outside the windows, the         *)
(* strengthened invariant holds in every reachable state.                  *)
THEOREM Inductive ==
  ASSUME SingleVault, SafeFaults
  PROVE  Spec => []IInv
BY IInvInit, IInvStep, PTL DEF Spec

-----------------------------------------------------------------------------
(* What follows from the inductive invariant *)

LEMMA PointerVersions ==
  ASSUME TypeOK
  PROVE  /\ pointer.version \in Versions \cup {None}
         /\ journal.previous.version \in Versions \cup {None}
BY DEF TypeOK, Pointer, Record

LEMMA ActiveIntactHolds ==
  ASSUME SingleVault, IInv
  PROVE  ActiveIntact
<1> SUFFICES ASSUME \A v \in Vaults : pc[v] \notin Dark, pointer.version # None
             PROVE  dirs[pointer.version] \in Intact
  BY DEF ActiveIntact
<1> USE ConstantAssumption, Distinct, PointerVersions
<1>1. CASE journal = NoRecord
  BY <1>1 DEF IInv, SettledInv, Dark
<1>2. CASE journal # NoRecord /\ \A v \in Vaults : pc[v] \notin RollingBack
  BY <1>2 DEF IInv, JournalInv, PointerOf, Describes, BackupWhole, TypeOK, RollingBack
<1>3. ASSUME journal # NoRecord, NEW v \in Vaults, pc[v] \in RollingBack
      PROVE  dirs[pointer.version] \in Intact
  BY <1>3 DEF IInv, JournalInv, HandleInv, RollbackInv, Describes, TypeOK, Dark, RollingBack,
     Holding
<1> QED BY <1>1, <1>2, <1>3

LEMMA RecoveryAdmittedHolds ==
  ASSUME SingleVault, IInv
  PROVE  RecoveryAdmitted
<1> SUFFICES ASSUME NEW v \in Vaults, pc[v] = "loading", journal # NoRecord
             PROVE  ResumeAccepts(journal)
  BY DEF RecoveryAdmitted
<1>1. \A u \in Vaults : pc[u] \notin RollingBack
  BY SingleIsAll DEF RollingBack
<1>2. Describes(journal) /\ PointerOf(journal) /\ dirs[journal.version] = journal.op
      /\ (journal.state # "finalizing" => BackupWhole(journal))
  BY <1>1 DEF IInv, JournalInv, RollingBack
<1>3. journal.had => before[journal.op].package \in Intact
  BY <1>2, ConstantAssumption, Distinct DEF IInv, TypeOK, Describes
<1> QED
  BY <1>2, <1>3, ConstantAssumption, Distinct DEF ResumeAccepts, PointerOf, Describes, BackupWhole

LEMMA PriorRetainedHolds ==
  ASSUME SingleVault, IInv
  PROVE  PriorRetained
<1> SUFFICES ASSUME journal.state \in {"prepared", "activated"}
             PROVE  /\ journal.had => before[journal.op].package
                         \in {backup[journal.op], dirs[journal.version]} \cap Intact
                    /\ before[journal.op].pointer.version \notin {None, journal.version} =>
                         dirs[before[journal.op].pointer.version] \in Intact
  BY DEF PriorRetained
<1>1. journal # NoRecord
  BY RecordValues
<1>2. Describes(journal)
  BY <1>1 DEF IInv, JournalInv
<1>3. journal.had => before[journal.op].package \in Intact
  BY <1>2, ConstantAssumption, Distinct DEF IInv, TypeOK, Describes
<1>4. journal.had => before[journal.op].package \in {backup[journal.op], dirs[journal.version]}
  <2>1. CASE \A v \in Vaults : pc[v] \notin RollingBack
    BY <1>1, <2>1 DEF IInv, JournalInv, BackupWhole
  <2>2. ASSUME NEW v \in Vaults, pc[v] \in RollingBack
        PROVE  journal.had =>
                 before[journal.op].package \in {backup[journal.op], dirs[journal.version]}
    BY <2>2 DEF IInv, HandleInv, RollbackInv, BackupWhole, RollingBack, Holding
  <2> QED BY <2>1, <2>2
<1> QED BY <1>2, <1>3, <1>4 DEF Describes

(* The package that current.json names verifies in every state outside the *)
(* windows between two renames.                                            *)
THEOREM ActiveIntactCorrect ==
  ASSUME SingleVault, SafeFaults
  PROVE  Spec => []ActiveIntact
BY Inductive, ActiveIntactHolds, PTL

(* A plugin load never fails on the journal a killed process left.         *)
THEOREM RecoveryAdmittedCorrect ==
  ASSUME SingleVault, SafeFaults
  PROVE  Spec => []RecoveryAdmitted
BY Inductive, RecoveryAdmittedHolds, PTL

(* What an operation replaced exists until its acceptance is recorded.     *)
THEOREM PriorRetainedCorrect ==
  ASSUME SingleVault, SafeFaults
  PROVE  Spec => []PriorRetained
BY Inductive, PriorRetainedHolds, PTL

-----------------------------------------------------------------------------
(* The ends of an installation *)

(* The journal is removed only by the last step of finalize or rollback.   *)
LEMMA JournalEnds ==
  ASSUME TypeOK, Next, journal # NoRecord, journal' = NoRecord
  PROVE  \E v \in Vaults : Seal(v) \/ EndRollback(v)
<1> SUFFICES ASSUME NEW v \in Vaults,
                    Prepare(v) \/ Complete(v) \/ Rollback(v) \/ Load(v) \/ Crash(v) \/ Remove(v)
             PROVE  Seal(v) \/ EndRollback(v)
  BY DEF Next
<1>1. \A s \in JournalStates : [handle[v] EXCEPT !.state = s] # NoRecord
  <2>1. handle[v] \in Record
    BY DEF TypeOK
  <2>2. \A s \in JournalStates : [handle[v] EXCEPT !.state = s].state = s
    BY <2>1, RecordValues
  <2> QED BY <2>2, RecordValues DEF JournalStates
<1>2. ~Prepare(v)
  BY <1>1 DEF Prepare, BeginPrepare, Prune, PruneFails, Stage, StageFails, Displace,
     DisplaceFails, Promote, PromoteFails, RecordPrepared, RecordFails, JournalStates, disk
<1>3. Complete(v) => Seal(v)
  BY <1>1 DEF Complete, Activate, RecordActivated, ActivateFails, BeginFinalize, RemoveBackup,
     RemoveBackupFails, Seal, SealFails, Release, JournalStates, disk
<1>4. Rollback(v) => EndRollback(v)
  BY DEF Rollback, BeginRollback, RestoreBackup, RestorePointer, EndRollback,
     RollbackMoveFails, RestoreFails, EndRollbackFails, RollbackThrows
<1>5. ~Load(v) /\ ~Crash(v) /\ ~Remove(v)
  BY DEF Load, LoadClean, Resume, ResumeRefused, Reload, Crash, Remove, BeginRemove, RemovePointer,
     RemoveVersions, EndRemove, RemoveFails, disk
<1> QED BY <1>2, <1>3, <1>4, <1>5

LEMMA RollbackExactStep ==
  ASSUME SingleVault, SafeFaults, IInv, [Next]_vars, NEW v \in Vaults,
         pc[v] = "rollback3", journal # NoRecord, journal' = NoRecord
  PROVE  /\ pointer' = before[handle[v].op].pointer
         /\ dirs'[handle[v].version] = before[handle[v].op].package
<1>1. pointer = before[handle[v].op].pointer
      /\ dirs[handle[v].version] = before[handle[v].op].package
  BY DEF IInv, HandleInv, RollbackInv, JournalInv, Describes, Holding, RollingBack
<1>2. UNCHANGED <<pointer, dirs>>
  BY JournalEnds DEF vars, IInv, Seal, EndRollback
<1> QED BY <1>1, <1>2

(* A rollback that ends has put back the pointer and the package that the  *)
(* operation found.                                                        *)
THEOREM RollbackExactCorrect ==
  ASSUME SingleVault, SafeFaults
  PROVE  Spec => RollbackExact
<1>1. ASSUME IInv, [Next]_vars
      PROVE  [\A v \in Vaults : pc[v] = "rollback3" /\ journal # NoRecord /\ journal' = NoRecord =>
                LET found == before[handle[v].op]
                IN /\ pointer' = found.pointer
                   /\ dirs'[handle[v].version] = found.package]_vars
  BY <1>1, RollbackExactStep
<1> QED BY <1>1, Inductive, PTL DEF Spec, RollbackExact

LEMMA AcceptedStep ==
  ASSUME SingleVault, SafeFaults, IInv, [Next]_vars, NEW v \in Vaults,
         pc[v] = "sealing", journal' = NoRecord
  PROVE  /\ dirs'[handle[v].version] = handle[v].op
         /\ pointer' = ActivationPointer(handle[v].version, before[handle[v].op].pointer)
<1>1. \A u \in Vaults : pc[u] = "sealing"
  BY SingleIsAll
<1>2. handle[v] = journal /\ journal # NoRecord /\ journal.state = "finalizing"
  BY RecordValues DEF IInv, HandleInv, Holding, JournalStates
<1>3. dirs[handle[v].version] = handle[v].op
      /\ pointer = ActivationPointer(handle[v].version, before[handle[v].op].pointer)
  BY <1>1, <1>2 DEF IInv, JournalInv, PointerOf, Describes, RollingBack
<1>4. UNCHANGED <<pointer, dirs>>
  BY <1>2, JournalEnds DEF vars, IInv, Seal, EndRollback
<1> QED BY <1>3, <1>4

(* An installation that ends otherwise leaves its own package active.      *)
THEOREM AcceptedIsActiveCorrect ==
  ASSUME SingleVault, SafeFaults
  PROVE  Spec => AcceptedIsActive
<1>1. ASSUME IInv, [Next]_vars
      PROVE  [\A v \in Vaults : pc[v] = "sealing" /\ journal' = NoRecord =>
                /\ dirs'[handle[v].version] = handle[v].op
                /\ pointer' = ActivationPointer(handle[v].version,
                                                before[handle[v].op].pointer)]_vars
  BY <1>1, AcceptedStep
<1> QED BY <1>1, Inductive, PTL DEF Spec, AcceptedIsActive

-----------------------------------------------------------------------------
(* What holds of RuntimeInstallation whatever fails and wherever a process *)
(* is killed, as long as one process at a time works on the installation.  *)

(* The process v and the journal agree: nothing is pending while v is      *)
(* inside the lock, and what v holds is what the journal records.          *)
Agreed(v) ==
  /\ journal # NoRecord => journal.state \in JournalStates
  /\ pc[v] \in Locked => journal = NoRecord
  /\ pc[v] \in Holding => handle[v] = journal /\ journal # NoRecord
  /\ pc[v] \in {"recovering", "activating"} => handle[v].state = "prepared"
  /\ pc[v] \in {"cleaning", "sealing"} => handle[v].state = "finalizing"

Agreement == TypeInv /\ \A v \in Vaults : Agreed(v)

LEMMA AgreementInit == Init => Agreement
BY TypeInvInit DEF Init, Agreement, Agreed, Locked, Holding, RollingBack

LEMMA AgreedStepPrepare ==
  ASSUME TypeOK, NEW v \in Vaults, Agreed(v), Prepare(v)
  PROVE  Agreed(v)'
<1> USE RecordValues DEF TypeOK, Agreed, Locked, Holding, RollingBack, JournalStates, Goto, Forget,
        SetHandle, LeaveLocked, RollbackThrows, disk
<1>1. ASSUME NEW n \in Versions, NEW o \in Operations, BeginPrepare(v, n, o) PROVE Agreed(v)'
  BY <1>1 DEF BeginPrepare
<1>2. ASSUME Prune(v) PROVE Agreed(v)'
  BY <1>2 DEF Prune
<1>3. ASSUME PruneFails(v) PROVE Agreed(v)'
  BY <1>3 DEF PruneFails
<1>4. ASSUME Stage(v) PROVE Agreed(v)'
  BY <1>4 DEF Stage
<1>5. ASSUME StageFails(v) PROVE Agreed(v)'
  BY <1>5 DEF StageFails
<1>6. ASSUME Displace(v) PROVE Agreed(v)'
  BY <1>6 DEF Displace
<1>7. ASSUME DisplaceFails(v) PROVE Agreed(v)'
  BY <1>7 DEF DisplaceFails
<1>8. ASSUME Promote(v) PROVE Agreed(v)'
  BY <1>8 DEF Promote
<1>9. ASSUME PromoteFails(v) PROVE Agreed(v)'
  BY <1>9 DEF PromoteFails
<1>10. ASSUME RecordPrepared(v) PROVE Agreed(v)'
  <2> DEFINE h == [handle[v] EXCEPT !.state = "prepared"]
  <2>1. h.state = "prepared" /\ h # NoRecord
    BY DEF NoRecord, Record
  <2> HIDE DEF h
  <2> QED BY <1>10, <2>1 DEF RecordPrepared, h
<1>11. ASSUME RecordFails(v) PROVE Agreed(v)'
  BY <1>11 DEF RecordFails
<1> QED
  BY <1>1, <1>2, <1>3, <1>4, <1>5, <1>6, <1>7, <1>8, <1>9, <1>10, <1>11 DEF Prepare

LEMMA AgreedStepComplete ==
  ASSUME TypeOK, NEW v \in Vaults, Agreed(v), Complete(v)
  PROVE  Agreed(v)'
<1> USE RecordValues DEF TypeOK, Agreed, Locked, Holding, RollingBack, JournalStates, Goto, Forget,
        SetHandle, LeaveLocked, RollbackThrows, disk
<1>1. ASSUME Activate(v) PROVE Agreed(v)'
  BY <1>1 DEF Activate
<1>2. ASSUME RecordActivated(v) PROVE Agreed(v)'
  <2> DEFINE h == [handle[v] EXCEPT !.state = "activated"]
  <2>1. h.state = "activated" /\ h # NoRecord
    BY DEF NoRecord, Record
  <2> HIDE DEF h
  <2> QED BY <1>2, <2>1 DEF RecordActivated, h
<1>3. ASSUME ActivateFails(v) PROVE Agreed(v)'
  BY <1>3 DEF ActivateFails
<1>4. ASSUME BeginFinalize(v) PROVE Agreed(v)'
  <2> DEFINE h == [handle[v] EXCEPT !.state = "finalizing"]
  <2>1. h.state = "finalizing" /\ h # NoRecord
    BY DEF NoRecord, Record
  <2> HIDE DEF h
  <2> QED BY <1>4, <2>1 DEF BeginFinalize, h
<1>5. ASSUME RemoveBackup(v) PROVE Agreed(v)'
  BY <1>5 DEF RemoveBackup
<1>6. ASSUME RemoveBackupFails(v) PROVE Agreed(v)'
  BY <1>6 DEF RemoveBackupFails
<1>7. ASSUME Seal(v) PROVE Agreed(v)'
  BY <1>7 DEF Seal
<1>8. ASSUME SealFails(v) PROVE Agreed(v)'
  BY <1>8 DEF SealFails
<1>9. ASSUME Release(v) PROVE Agreed(v)'
  BY <1>9 DEF Release
<1> QED
  BY <1>1, <1>2, <1>3, <1>4, <1>5, <1>6, <1>7, <1>8, <1>9 DEF Complete

LEMMA AgreedStepRollback ==
  ASSUME TypeOK, NEW v \in Vaults, Agreed(v), Rollback(v)
  PROVE  Agreed(v)'
<1> USE RecordValues DEF TypeOK, Agreed, Locked, Holding, RollingBack, JournalStates, Goto, Forget,
        SetHandle, LeaveLocked, RollbackThrows, disk
<1>1. ASSUME BeginRollback(v) PROVE Agreed(v)'
  BY <1>1 DEF BeginRollback
<1>2. ASSUME RestoreBackup(v) PROVE Agreed(v)'
  BY <1>2 DEF RestoreBackup
<1>3. ASSUME RestorePointer(v) PROVE Agreed(v)'
  BY <1>3 DEF RestorePointer
<1>4. ASSUME EndRollback(v) PROVE Agreed(v)'
  BY <1>4 DEF EndRollback
<1>5. ASSUME RollbackMoveFails(v) PROVE Agreed(v)'
  BY <1>5 DEF RollbackMoveFails
<1>6. ASSUME RestoreFails(v) PROVE Agreed(v)'
  BY <1>6 DEF RestoreFails
<1>7. ASSUME EndRollbackFails(v) PROVE Agreed(v)'
  BY <1>7 DEF EndRollbackFails
<1> QED
  BY <1>1, <1>2, <1>3, <1>4, <1>5, <1>6, <1>7 DEF Rollback

LEMMA AgreedStepLoad ==
  ASSUME TypeOK, NEW v \in Vaults, Agreed(v), Load(v)
  PROVE  Agreed(v)'
<1> USE RecordValues DEF TypeOK, Agreed, Locked, Holding, RollingBack, JournalStates, Goto, Forget,
        SetHandle, LeaveLocked, RollbackThrows, disk
<1>1. ASSUME LoadClean(v) PROVE Agreed(v)'
  BY <1>1 DEF LoadClean
<1>2. ASSUME Resume(v) PROVE Agreed(v)'
  BY <1>2 DEF Resume
<1>3. ASSUME ResumeRefused(v) PROVE Agreed(v)'
  BY <1>3 DEF ResumeRefused
<1>4. ASSUME Reload(v) PROVE Agreed(v)'
  BY <1>4 DEF Reload
<1> QED
  BY <1>1, <1>2, <1>3, <1>4 DEF Load

LEMMA AgreedStepRemove ==
  ASSUME TypeOK, NEW v \in Vaults, Agreed(v), Remove(v)
  PROVE  Agreed(v)'
<1> USE RecordValues DEF TypeOK, Agreed, Locked, Holding, RollingBack, JournalStates, Goto, Forget,
        SetHandle, LeaveLocked, RollbackThrows, disk
<1>1. ASSUME BeginRemove(v) PROVE Agreed(v)'
  BY <1>1 DEF BeginRemove
<1>2. ASSUME RemovePointer(v) PROVE Agreed(v)'
  BY <1>2 DEF RemovePointer
<1>3. ASSUME RemoveVersions(v) PROVE Agreed(v)'
  BY <1>3 DEF RemoveVersions
<1>4. ASSUME EndRemove(v) PROVE Agreed(v)'
  BY <1>4 DEF EndRemove
<1>5. ASSUME RemoveFails(v) PROVE Agreed(v)'
  BY <1>5 DEF RemoveFails
<1> QED
  BY <1>1, <1>2, <1>3, <1>4, <1>5 DEF Remove

LEMMA AgreementStep ==
  ASSUME SingleVault, Agreement, [Next]_vars
  PROVE  Agreement'
<1>1. TypeInv'
  BY TypeStep DEF Agreement
<1>2. CASE UNCHANGED vars
  BY <1>1, <1>2 DEF vars, Agreement, Agreed
<1>3. ASSUME NEW v \in Vaults,
             Prepare(v) \/ Complete(v) \/ Rollback(v) \/ Load(v) \/ Crash(v) \/ Remove(v)
      PROVE  Agreement'
  <2>1. TypeOK /\ Agreed(v) /\ \A u \in Vaults : u = v
    BY SingleIsAll DEF Agreement, TypeInv
  <2>2. ASSUME Crash(v) PROVE Agreed(v)'
    BY <2>1, <2>2 DEF Crash, Agreed, TypeOK, Goto, Locked, Holding, RollingBack
  <2>3. Agreed(v)'
    BY <1>3, <2>1, <2>2, AgreedStepPrepare, AgreedStepComplete, AgreedStepRollback,
       AgreedStepLoad, AgreedStepRemove
  <2> QED BY <1>1, <2>1, <2>3 DEF Agreement
<1> QED BY <1>2, <1>3 DEF Next

LEMMA AgreementAlways ==
  ASSUME SingleVault
  PROVE  Spec => []Agreement
BY AgreementInit, AgreementStep, PTL DEF Spec

-----------------------------------------------------------------------------
LEMMA JournalStep ==
  ASSUME SingleVault, Agreement, [Next]_vars, journal # NoRecord, journal' # NoRecord
  PROVE  /\ journal'.op = journal.op
         /\ journal.state = "finalizing" => journal'.state = "finalizing"
<1>1. CASE UNCHANGED journal
  BY <1>1
<1>2. ASSUME NEW v \in Vaults, ~(UNCHANGED journal),
             Prepare(v) \/ Complete(v) \/ Rollback(v) \/ Load(v) \/ Crash(v) \/ Remove(v)
      PROVE  /\ journal'.op = journal.op
             /\ journal.state = "finalizing" => journal'.state = "finalizing"
  <2>1. TypeOK /\ Agreed(v) /\ handle[v] \in Record
    BY DEF Agreement, TypeInv, TypeOK
  <2>2. ~Prepare(v)
    BY <1>2, <2>1 DEF Prepare, BeginPrepare, Prune, PruneFails, Stage, StageFails, Displace,
       DisplaceFails, Promote, PromoteFails, RecordPrepared, RecordFails, disk, Agreed, Locked
  <2>3. ~Rollback(v)
    BY <1>2 DEF Rollback, BeginRollback, RestoreBackup, RestorePointer, EndRollback,
       RollbackMoveFails, RestoreFails, EndRollbackFails, RollbackThrows
  <2>4. ~Load(v) /\ ~Crash(v) /\ ~Remove(v)
    BY <1>2 DEF Load, LoadClean, Resume, ResumeRefused, Reload, Crash, Remove, BeginRemove,
       RemovePointer, RemoveVersions, EndRemove, RemoveFails, disk
  <2>5. RecordActivated(v) \/ BeginFinalize(v)
    BY <1>2, <2>2, <2>3, <2>4 DEF Complete, Activate, ActivateFails, RemoveBackup,
       RemoveBackupFails, Seal, SealFails, Release, disk
  <2>6. pc[v] \in Holding => handle[v] = journal
    BY <2>1 DEF Agreed
  <2>7. CASE RecordActivated(v)
    BY <2>1, <2>6, <2>7, RecordValues DEF RecordActivated, Agreed, Holding, JournalStates
  <2>8. CASE BeginFinalize(v)
    BY <2>1, <2>6, <2>8, RecordValues DEF BeginFinalize, Holding, JournalStates
  <2> QED BY <2>5, <2>7, <2>8
<1> QED BY <1>1, <1>2 DEF Next, vars

(* However a process ends and whatever fails, an installation's journal is *)
(* never overwritten by another and acceptance is never taken back.        *)
THEOREM JournalNotOverwrittenCorrect ==
  ASSUME SingleVault
  PROVE  Spec => JournalNotOverwritten
<1>1. ASSUME Agreement, [Next]_vars
      PROVE  [journal # NoRecord /\ journal' # NoRecord =>
                /\ journal'.op = journal.op
                /\ journal.state = "finalizing" => journal'.state = "finalizing"]_vars
  BY <1>1, JournalStep
<1> QED BY <1>1, AgreementAlways, PTL DEF Spec, JournalNotOverwritten

-----------------------------------------------------------------------------
LEMMA BackupStep ==
  ASSUME SingleVault, Agreement, [Next]_vars, journal # NoRecord,
         backup'[journal.op] # backup[journal.op]
  PROVE  journal.state = "finalizing" \/ dirs'[journal.version] = backup[journal.op]
<1>1. ~(UNCHANGED backup)
  OBVIOUS
<1>2. ASSUME NEW v \in Vaults,
             Prepare(v) \/ Complete(v) \/ Rollback(v) \/ Load(v) \/ Crash(v) \/ Remove(v)
      PROVE  journal.state = "finalizing" \/ dirs'[journal.version] = backup[journal.op]
  <2>1. TypeOK /\ JournalNames /\ Agreed(v)
    BY DEF Agreement, TypeInv
  <2>2. pc[v] \notin Locked
    BY <2>1 DEF Agreed
  <2>3. ~Prepare(v)
    BY <1>1, <2>2 DEF Prepare, BeginPrepare, Prune, PruneFails, Stage, StageFails, Displace,
       DisplaceFails, Promote, PromoteFails, RecordPrepared, RecordFails, disk, Locked
  <2>4. ~Load(v) /\ ~Crash(v) /\ ~Remove(v)
    BY <1>1, <2>2 DEF Load, LoadClean, Resume, ResumeRefused, Reload, Crash, Remove,
       BeginRemove, RemovePointer, RemoveVersions, EndRemove, RemoveFails, disk, Locked
  <2>5. Complete(v) => pc[v] = "cleaning"
    BY <1>1 DEF Complete, Activate, RecordActivated, ActivateFails, BeginFinalize,
       RemoveBackup, RemoveBackupFails, Seal, SealFails, Release, disk
  <2>6. Rollback(v) => RestoreBackup(v)
    BY <1>1 DEF Rollback, BeginRollback, RestorePointer, EndRollback, RollbackMoveFails,
       RestoreFails, EndRollbackFails, RollbackThrows
  <2>7. CASE pc[v] = "cleaning"
    BY <2>1, <2>7 DEF Agreed, Holding
  <2>8. CASE RestoreBackup(v)
    <3>1. handle[v] = journal
      BY <2>1, <2>8 DEF RestoreBackup, Agreed, Holding, RollingBack
    <3>2. journal.version \in Versions /\ dirs \in [Versions -> Content]
      BY <2>1 DEF TypeOK, JournalNames
    <3> QED BY <1>1, <2>8, <3>1, <3>2 DEF RestoreBackup
  <2> QED BY <1>2, <2>3, <2>4, <2>5, <2>6, <2>7, <2>8
<1> QED BY <1>1, <1>2 DEF Next, vars

(* However a process ends and whatever fails, a displaced package leaves   *)
(* its backup directory only after acceptance or to return to its place.   *)
THEOREM BackupKeptCorrect ==
  ASSUME SingleVault
  PROVE  Spec => BackupKeptUntilAccepted
<1>1. ASSUME Agreement, [Next]_vars
      PROVE  [LET o == journal.op
              IN journal # NoRecord /\ backup[o] \in Intact /\ backup'[o] # backup[o] =>
                   journal.state = "finalizing" \/ dirs'[journal.version] = backup[o]]_vars
  BY <1>1, BackupStep
<1> QED BY <1>1, AgreementAlways, PTL DEF Spec, BackupKeptUntilAccepted

-----------------------------------------------------------------------------
(* The installation lock, for every set of processes if none of them exits,*)
(* and for two processes that exit wherever they are.                      *)

LEMMA ExclusiveInit == LockInit => Exclusive
BY LockAssumption DEF LockInit, Exclusive, LockTypeOK, Owning, LockPoints, Idle

(* Who finds that another process has exited is the only one left.         *)
LEMMA OneLeft ==
  ASSUME Few, Exclusive, NEW p \in Processes, at[p] # "gone", NEW r \in Processes, at[r] = "gone"
  PROVE  alive = {p}
<1>1. r \notin alive /\ p \in alive /\ alive \subseteq Processes /\ MayExit # {}
  BY DEF Exclusive, LockTypeOK
<1>2. PICK a, b \in Processes : Processes = {a, b}
  BY <1>1 DEF Few
<1> QED BY <1>1, <1>2

(* A step of p that leaves the directory and the processes as they are.    *)
LEMMA QuietStep ==
  ASSUME Exclusive, NEW p \in Processes, NEW point \in LockPoints \ {"gone"}, Move(p, point),
         UNCHANGED <<made, owner, old, alive>>, at[p] # "gone",
         seen' \in [Processes -> Processes \cup {Nobody}],
         \A q \in Processes : q # p => seen'[q] = seen[q],
         \/ /\ at[p] \notin {"made", "created", "inside"} /\ point \notin {"made", "created", "inside"}
            /\ point \in {"reclaiming", "remaking"} \/ (point = "dating" /\ old) => alive = {p}
            /\ point = "judging" => seen'[p] \notin {Nobody, p}
         \/ at[p] = "made" /\ point = "created"
  PROVE  Exclusive'
<1>1. at' \in [Processes -> LockPoints] /\ at'[p] = point /\ \A q \in Processes : q # p => at'[q] = at[q]
  BY DEF Move, Exclusive, LockTypeOK
<1>2. LockTypeOK'
  BY <1>1 DEF Exclusive, LockTypeOK
<1>3. Owning' = Owning
  BY <1>1 DEF Owning
<1>4. owner # Nobody => made /\ at'[owner] \in {"inside", "gone"}
  BY <1>1 DEF Exclusive, LockTypeOK
<1>5. made /\ owner = Nobody => \E q \in Processes : at'[q] \in {"made", "created", "gone"}
  BY <1>1 DEF Exclusive
<1>6. \A q \in Processes :
        /\ at'[q] = "gone" <=> q \notin alive
        /\ at'[q] \in {"reclaiming", "remaking"} \/ (at'[q] = "dating" /\ old) => alive = {q}
        /\ at'[q] = "judging" => seen'[q] \notin {Nobody, q}
        /\ at'[q] \in {"made", "created"} => made /\ owner = Nobody /\ ~old
        /\ at'[q] = "inside" => made /\ owner = q
  <2> SUFFICES ASSUME NEW q \in Processes
               PROVE  /\ at'[q] = "gone" <=> q \notin alive
                      /\ at'[q] \in {"reclaiming", "remaking"} \/ (at'[q] = "dating" /\ old) => alive = {q}
                      /\ at'[q] = "judging" => seen'[q] \notin {Nobody, q}
                      /\ at'[q] \in {"made", "created"} => made /\ owner = Nobody /\ ~old
                      /\ at'[q] = "inside" => made /\ owner = q
    OBVIOUS
  <2>1. CASE q = p
    BY <1>1, <2>1 DEF Exclusive
  <2>2. CASE q # p
    BY <1>1, <2>2 DEF Exclusive
  <2> QED BY <2>1, <2>2
<1> QED BY <1>2, <1>3, <1>4, <1>5, <1>6 DEF Exclusive

(* A step of p, which owns the directory or makes it: p comes to own it.   *)
LEMMA OwnStep ==
  ASSUME Exclusive, NEW p \in Processes, NEW point \in {"made", "inside"}, Move(p, point), at[p] # "gone",
         Owning \subseteq {p}, made', owner' = IF point = "made" THEN Nobody ELSE p, ~old', old' \in BOOLEAN,
         UNCHANGED <<alive, seen>>
  PROVE  Exclusive'
<1>1. at' \in [Processes -> LockPoints] /\ at'[p] = point /\ \A q \in Processes : q # p => at'[q] = at[q]
  BY DEF Move, Exclusive, LockTypeOK, LockPoints
<1>2. LockTypeOK'
  BY <1>1 DEF Exclusive, LockTypeOK
<1>3. \A q \in Owning' : q = p
  BY <1>1 DEF Owning
<1>4. \A q \in Processes :
        /\ at'[q] = "gone" <=> q \notin alive
        /\ at'[q] \in {"reclaiming", "remaking"} => alive = {q}
        /\ at'[q] = "judging" => seen[q] \notin {Nobody, q}
  BY <1>1 DEF Exclusive
<1>5. \A q \in Processes : q # p => at'[q] \notin {"made", "created", "inside"}
  BY <1>3 DEF Owning
<1>6. owner' # Nobody => made' /\ at'[owner'] \in {"inside", "gone"}
  BY <1>1
<1>7. made' /\ owner' = Nobody => \E q \in Processes : at'[q] \in {"made", "created", "gone"}
  BY <1>1, LockAssumption
<1> QED BY <1>1, <1>2, <1>3, <1>4, <1>5, <1>6, <1>7, LockAssumption DEF Exclusive

(* A step of p, the only one to own the directory, that removes it.        *)
LEMMA DropStep ==
  ASSUME Exclusive, NEW p \in Processes, NEW point \in {Idle, "remaking"}, Move(p, point), at[p] # "gone",
         Owning \subseteq {p}, point = "remaking" => alive = {p}, Unmake, UNCHANGED <<alive, seen>>
  PROVE  Exclusive'
<1>1. at' \in [Processes -> LockPoints] /\ at'[p] = point /\ \A q \in Processes : q # p => at'[q] = at[q]
  BY DEF Move, Exclusive, LockTypeOK, LockPoints, Idle
<1>2. ~made' /\ owner' = Nobody /\ ~old'
  BY DEF Unmake
<1>3. LockTypeOK'
  BY <1>1 DEF Exclusive, LockTypeOK, Unmake
<1>4. Owning' = {}
  BY <1>1 DEF Owning, Idle
<1>5. \A q \in Processes :
        /\ at'[q] = "gone" <=> q \notin alive
        /\ at'[q] \in {"reclaiming", "remaking"} => alive = {q}
        /\ at'[q] = "judging" => seen[q] \notin {Nobody, q}
  BY <1>1 DEF Exclusive, Idle
<1>6. \A q \in Processes : at'[q] \notin {"made", "created", "inside"}
  BY <1>4 DEF Owning
<1> QED BY <1>2, <1>3, <1>4, <1>5, <1>6 DEF Exclusive

LEMMA ExitStep ==
  ASSUME Exclusive, NEW p \in Processes, Exit(p)
  PROVE  Exclusive'
<1>1. /\ at' \in [Processes -> LockPoints] /\ at'[p] = "gone" /\ \A q \in Processes : q # p => at'[q] = at[q]
      /\ seen' \in [Processes -> Processes \cup {Nobody}] /\ \A q \in Processes : q # p => seen'[q] = seen[q]
  BY DEF Exit, Move, Exclusive, LockTypeOK, LockPoints
<1>2. p \in MayExit /\ p \in alive /\ alive' = alive \ {p} /\ UNCHANGED <<made, owner, old>>
  BY DEF Exit
<1>3. LockTypeOK' /\ Processes \ MayExit \subseteq alive'
  BY <1>1, <1>2 DEF Exclusive, LockTypeOK
<1>4. \A q \in Processes :
        /\ at'[q] = "gone" <=> q \notin alive'
        /\ at'[q] \in {"reclaiming", "remaking"} \/ (at'[q] = "dating" /\ old') => alive' = {q}
        /\ at'[q] = "judging" => seen'[q] \notin {Nobody, q}
        /\ at'[q] \in {"made", "created"} => made' /\ owner' = Nobody /\ ~old'
        /\ at'[q] = "inside" => made' /\ owner' = q
  <2> SUFFICES ASSUME NEW q \in Processes
               PROVE  /\ at'[q] = "gone" <=> q \notin alive'
                      /\ at'[q] \in {"reclaiming", "remaking"} \/ (at'[q] = "dating" /\ old') => alive' = {q}
                      /\ at'[q] = "judging" => seen'[q] \notin {Nobody, q}
                      /\ at'[q] \in {"made", "created"} => made' /\ owner' = Nobody /\ ~old'
                      /\ at'[q] = "inside" => made' /\ owner' = q
    OBVIOUS
  <2>1. CASE q = p
    BY <1>1, <1>2, <2>1
  <2>2. CASE q # p
    BY <1>1, <1>2, <2>2 DEF Exclusive
  <2> QED BY <2>1, <2>2
<1>5. \A q, r \in Owning' : q = r
  BY <1>1 DEF Exclusive, Owning
<1>6. owner' # Nobody => made' /\ at'[owner'] \in {"inside", "gone"}
  BY <1>1, <1>2 DEF Exclusive, LockTypeOK
<1>7. made' /\ owner' = Nobody => \E q \in Processes : at'[q] \in {"made", "created", "gone"}
  BY <1>1, <1>2 DEF Exclusive
<1> QED BY <1>2, <1>3, <1>4, <1>5, <1>6, <1>7 DEF Exclusive

LEMMA ExclusiveStep ==
  ASSUME Few, Exclusive, [LockNext]_lockVars
  PROVE  Exclusive'
<1>1. CASE UNCHANGED lockVars
  BY <1>1 DEF lockVars, Exclusive, LockTypeOK, Owning
<1>2. CASE Age
  BY <1>2 DEF Age, Exclusive, LockTypeOK, Owning
<1>3. ASSUME NEW p \in Processes, Enter(p)
      PROVE  Exclusive'
  <2>1. CASE Create(p)
    <3>1. Owning = {}
      BY <2>1 DEF Create, Exclusive, Owning
    <3> QED BY <2>1, <3>1, OwnStep DEF Create, Make, Idle
  <2>2. CASE WriteOwner(p)
    <3>1. Owning \subseteq {p}
      BY <2>2 DEF WriteOwner, Exclusive, Owning
    <3> QED BY <2>2, <3>1, OwnStep DEF WriteOwner
  <2>3. CASE WriteOwnerFails(p)
    <3>1. Owning \subseteq {p}
      BY <2>3 DEF WriteOwnerFails, Exclusive, Owning
    <3> QED BY <2>3, <3>1, DropStep DEF WriteOwnerFails, Idle
  <2>4. CASE SetMode(p)
    <3>1. made /\ at[p] = "made" /\ Move(p, "created") /\ UNCHANGED <<made, owner, old, alive, seen>>
      BY <2>4 DEF SetMode, Exclusive
    <3> QED BY <3>1, QuietStep DEF LockPoints, Exclusive, LockTypeOK
  <2> QED BY <1>3, <2>1, <2>2, <2>3, <2>4 DEF Enter
<1>4. ASSUME NEW p \in Processes, Take(p)
      PROVE  Exclusive'
  <2>1. CASE Contend(p)
    <3>1. at[p] = Idle /\ Move(p, "contending") /\ UNCHANGED <<made, owner, old, alive, seen>>
      BY <2>1 DEF Contend
    <3> QED BY <3>1, QuietStep DEF LockPoints, Exclusive, LockTypeOK, Idle
  <2>2. CASE ReadOwner(p)
    <3> DEFINE point == IF owner # Nobody THEN "judging" ELSE "dating"
    <3>1. /\ at[p] = "contending" /\ Move(p, point) /\ UNCHANGED <<made, owner, old, alive>>
          /\ seen' = [seen EXCEPT ![p] = owner]
      BY <2>2 DEF ReadOwner
    <3>2. /\ seen' \in [Processes -> Processes \cup {Nobody}] /\ seen'[p] = owner
          /\ \A q \in Processes : q # p => seen'[q] = seen[q]
      BY <3>1 DEF Exclusive, LockTypeOK
    <3>3. owner # p
      BY <3>1, LockAssumption DEF Exclusive
    <3>4. owner = Nobody /\ old => alive = {p}
      <4>1. ASSUME owner = Nobody, old
            PROVE  alive = {p}
        <5>1. PICK r \in Processes : at[r] = "gone"
          BY <4>1 DEF Exclusive
        <5> QED BY <3>1, <5>1, OneLeft
      <4> QED BY <4>1
    <3> HIDE DEF point
    <3>5. point \in {"judging", "dating"} /\ (point = "judging" <=> owner # Nobody)
      BY DEF point
    <3> QED BY <3>1, <3>2, <3>3, <3>4, <3>5, QuietStep DEF LockPoints
  <2>3. CASE Judge(p)
    <3> DEFINE point == IF seen[p] \in alive THEN Idle ELSE "reclaiming"
    <3>1. /\ at[p] = "judging" /\ Move(p, point) /\ UNCHANGED <<made, owner, old, alive>>
          /\ seen' = [seen EXCEPT ![p] = Nobody]
      BY <2>3 DEF Judge
    <3>2. /\ seen' \in [Processes -> Processes \cup {Nobody}]
          /\ \A q \in Processes : q # p => seen'[q] = seen[q]
      BY <3>1 DEF Exclusive, LockTypeOK
    <3>3. seen[p] \notin alive => alive = {p}
      <4>1. ASSUME seen[p] \notin alive
            PROVE  alive = {p}
        <5>1. seen[p] \in Processes /\ at[seen[p]] = "gone"
          BY <3>1, <4>1 DEF Exclusive, LockTypeOK
        <5> QED BY <3>1, <5>1, OneLeft
      <4> QED BY <4>1
    <3> HIDE DEF point
    <3>4. point \in {Idle, "reclaiming"} /\ (point = "reclaiming" => alive = {p})
      BY <3>3 DEF point, Idle
    <3> QED BY <3>1, <3>2, <3>4, QuietStep DEF LockPoints, Idle
  <2>4. CASE ReadAge(p)
    <3> DEFINE point == IF made /\ old THEN "reclaiming" ELSE Idle
    <3>1. at[p] = "dating" /\ Move(p, point) /\ UNCHANGED <<made, owner, old, alive, seen>>
      BY <2>4 DEF ReadAge
    <3>2. point \in {Idle, "reclaiming"} /\ (point = "reclaiming" => alive = {p})
      BY <3>1 DEF Exclusive, Idle
    <3> HIDE DEF point
    <3> QED BY <3>1, <3>2, QuietStep DEF LockPoints, Idle, Exclusive, LockTypeOK
  <2>5. CASE Clear(p)
    <3>1. Owning \subseteq {p} /\ alive = {p} /\ at[p] = "reclaiming"
      BY <2>5 DEF Clear, Exclusive, Owning
    <3> QED BY <2>5, <3>1, DropStep DEF Clear
  <2>6. CASE Remake(p)
    <3>1. Owning \subseteq {p} /\ at[p] = "remaking"
      BY <2>6 DEF Remake, Exclusive, Owning
    <3>2. CASE made
      <4>1. Move(p, Idle) /\ UNCHANGED <<made, owner, old, alive, seen>>
        BY <2>6, <3>2 DEF Remake
      <4> QED BY <3>1, <4>1, QuietStep DEF LockPoints, Idle, Exclusive, LockTypeOK
    <3>3. CASE ~made
      <4>1. Move(p, "made") /\ Make /\ UNCHANGED <<alive, seen>>
        BY <2>6, <3>3 DEF Remake
      <4> QED BY <3>1, <4>1, OwnStep DEF Make
    <3> QED BY <3>2, <3>3
  <2> QED BY <1>4, <2>1, <2>2, <2>3, <2>4, <2>5, <2>6 DEF Take
<1>5. ASSUME NEW p \in Processes, Leave(p)
      PROVE  Exclusive'
  <2>1. Owning \subseteq {p} /\ at[p] = "inside"
    BY <1>5 DEF Leave, Exclusive, Owning
  <2> QED BY <1>5, <2>1, DropStep DEF Leave, Idle
<1>6. ASSUME NEW p \in Processes, Exit(p)
      PROVE  Exclusive'
  BY <1>6, ExitStep
<1> QED BY <1>1, <1>2, <1>3, <1>4, <1>5, <1>6 DEF LockNext

LEMMA ExclusiveAlways ==
  ASSUME Few
  PROVE  LockSpec => []Exclusive
BY ExclusiveInit, ExclusiveStep, PTL DEF LockSpec

(* Two processes are never inside together, wherever they exit and however *)
(* the lock of one that exited is taken over; nor are more of them while   *)
(* none exits.                                                             *)
THEOREM MutualExclusionCorrect ==
  ASSUME Few
  PROVE  LockSpec => []MutualExclusion
<1>1. Exclusive => MutualExclusion
  BY DEF Exclusive, MutualExclusion, Owning
<1> QED BY <1>1, ExclusiveAlways, PTL

(* A step changes the holder as ExclusiveLock does, or not at all.         *)
LEMMA RefinementStep ==
  ASSUME Few, Exclusive, Exclusive', [LockNext]_lockVars
  PROVE  [Abstract!Next]_Holder
<1> USE DEF Move, Make, Unmake, Idle
<1>0. /\ at \in [Processes -> LockPoints]
      /\ \A p \in Processes : at[p] \in {"made", "created", "inside"} => made /\ Owning = {p}
      /\ \A p \in Processes : at[p] \in {"reclaiming", "remaking"} => Owning = {}
  BY DEF Exclusive, LockTypeOK, Owning
<1>1. ASSUME NEW p \in Processes, Create(p) \/ (Remake(p) /\ ~made)
      PROVE  Abstract!Acquire(p)
  <2>1. Owning = {}
    BY <1>0, <1>1 DEF Create, Remake, Owning
  <2>2. Owning' = {p}
    BY <1>0, <1>1, <2>1 DEF Create, Remake, Owning
  <2>3. Holder = Nobody /\ Holder' = p
    BY <2>1, <2>2 DEF Holder
  <2> QED BY <2>3 DEF Abstract!Acquire
<1>2. ASSUME NEW p \in Processes, p \in Owning, WriteOwnerFails(p) \/ Leave(p) \/ Exit(p)
      PROVE  Abstract!Release(p)
  <2>1. Owning = {p}
    BY <1>0, <1>2 DEF Owning
  <2>2. Owning' = {}
    BY <1>0, <1>2, <2>1 DEF WriteOwnerFails, Leave, Exit, Owning
  <2>3. Holder = p /\ Holder' = Nobody
    BY <2>1, <2>2 DEF Holder
  <2> QED BY <2>3 DEF Abstract!Release
<1>3. ASSUME UNCHANGED lockVars \/ Age
             \/ \E p \in Processes :
                  \/ SetMode(p) \/ WriteOwner(p) \/ Contend(p) \/ ReadOwner(p) \/ ReadAge(p) \/ Judge(p)
                  \/ Clear(p) \/ (Remake(p) /\ made) \/ (Exit(p) /\ p \notin Owning)
      PROVE  Holder' = Holder
  <2>1. Owning' = Owning
    <3>1. CASE UNCHANGED lockVars
      BY <3>1 DEF lockVars, Owning
    <3>2. CASE Age
      BY <3>2 DEF Age, Owning
    <3>3. ASSUME NEW p \in Processes, SetMode(p) \/ WriteOwner(p) \/ Contend(p) \/ ReadOwner(p) \/ ReadAge(p) \/ Judge(p)
          PROVE  Owning' = Owning
      BY <1>0, <3>3 DEF SetMode, WriteOwner, Contend, ReadOwner, ReadAge, Judge, Owning
    <3>4. ASSUME NEW p \in Processes, Clear(p) \/ (Remake(p) /\ made) \/ (Exit(p) /\ p \notin Owning)
          PROVE  Owning' = Owning
      BY <1>0, <3>4 DEF Clear, Remake, Exit, Owning
    <3> QED BY <1>3, <3>1, <3>2, <3>3, <3>4
  <2> QED BY <2>1 DEF Holder
<1>4. \A p \in Processes : WriteOwnerFails(p) \/ Leave(p) => p \in Owning
  BY DEF WriteOwnerFails, Leave, Owning
<1> QED BY <1>1, <1>2, <1>3, <1>4 DEF LockNext, Enter, Take, Abstract!Next

(* The lock directory implements ExclusiveLock for two processes that exit *)
(* wherever they are, and for more of them while none exits: it is taken   *)
(* when nobody owns it, and lost by its owner only.                        *)
THEOREM LockRefinement ==
  ASSUME Few
  PROVE  LockSpec => RefinesExclusiveLock
<1>1. LockInit => Abstract!Init
  BY DEF LockInit, Abstract!Init, Holder, Owning, Idle
<1> QED
  BY <1>1, ExclusiveAlways, RefinementStep, PTL DEF LockSpec, RefinesExclusiveLock, Abstract!Spec
=============================================================================
