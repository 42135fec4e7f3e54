-------------------------- MODULE InstallationLock --------------------------
(***************************************************************************)
(* withInstallationLock: the lock directory under the account-local        *)
(* install root that serialises the connector processes of several vaults. *)
(* mkdir is the only atomic test; the owner record is written afterwards,  *)
(* and a lock whose owner is gone is removed and made again.               *)
(*                                                                         *)
(* Every action is one file-system call.  Process ids are not reused.      *)
(***************************************************************************)
CONSTANTS
  Processes,  \* connector processes, by process id
  Nobody,       \* no process
  MayExit     \* processes that may exit, wherever they are

VARIABLES
  made,   \* the lock directory exists
  owner,  \* the process id in its owner.json, or None
  old,    \* its modification time is 30 s ago or more
  alive,  \* running processes
  at,     \* control point of each process
  seen    \* the owner each contender read

lockVars == <<made, owner, old, alive, at, seen>>

Idle == "idle"
LockPoints == {Idle, "made", "created", "inside", "contending", "judging", "dating",
                  "reclaiming", "remaking", "gone"}

ASSUME LockAssumption == Nobody \notin Processes /\ MayExit \subseteq Processes

-----------------------------------------------------------------------------
LockInit ==
  /\ made = FALSE
  /\ owner = Nobody
  /\ old = FALSE
  /\ alive = Processes
  /\ at = [p \in Processes |-> Idle]
  /\ seen = [p \in Processes |-> Nobody]

Move(p, point) == at' = [at EXCEPT ![p] = point]

(* mkdir: a new directory without an owner record.                         *)
Make == made' = TRUE /\ owner' = Nobody /\ old' = FALSE

(* rm -r, whoever made the directory that is there.                        *)
Unmake == made' = FALSE /\ owner' = Nobody /\ old' = FALSE

(* mkdir succeeds ...                                                      *)
Create(p) ==
  /\ at[p] = Idle
  /\ ~made
  /\ Make
  /\ Move(p, "made")
  /\ UNCHANGED <<alive, seen>>

(* setPrivateDirectoryMode throws if the directory is gone.                *)
SetMode(p) ==
  /\ at[p] = "made"
  /\ Move(p, IF made THEN "created" ELSE Idle)
  /\ UNCHANGED <<made, owner, old, alive, seen>>

(* ... or fails with EEXIST.                                               *)
Contend(p) ==
  /\ at[p] = Idle
  /\ made
  /\ Move(p, "contending")
  /\ UNCHANGED <<made, owner, old, alive, seen>>

(* The contender reads owner.json ...                                      *)
ReadOwner(p) ==
  /\ at[p] = "contending"
  /\ seen' = [seen EXCEPT ![p] = owner]
  /\ Move(p, IF owner # Nobody THEN "judging" ELSE "dating")
  /\ UNCHANGED <<made, owner, old, alive>>

(* ... and without a record goes by the age of the directory that is there *)
(* by then; one that is gone counts as occupied.                           *)
ReadAge(p) ==
  /\ at[p] = "dating"
  /\ Move(p, IF made /\ old THEN "reclaiming" ELSE Idle)
  /\ UNCHANGED <<made, owner, old, alive, seen>>

(* Mutant: the contender takes the lock over without asking whether its    *)
(* owner is running.                                                       *)
Judge_Blind(p) ==
  /\ at[p] = "judging"
  /\ seen' = [seen EXCEPT ![p] = Nobody]
  /\ Move(p, "reclaiming")
  /\ UNCHANGED <<made, owner, old, alive>>

(* Mutant: the contender never takes a lock over.                          *)
Judge_Timid(p) ==
  /\ at[p] = "judging"
  /\ seen' = [seen EXCEPT ![p] = Nobody]
  /\ Move(p, Idle)
  /\ UNCHANGED <<made, owner, old, alive>>

(* process.kill(pid, 0): the lock of a running process is respected.       *)
Judge(p) ==
  /\ at[p] = "judging"
  /\ seen' = [seen EXCEPT ![p] = Nobody]
  /\ Move(p, IF seen[p] \in alive THEN Idle ELSE "reclaiming")
  /\ UNCHANGED <<made, owner, old, alive>>

(* The abandoned directory is removed, as far as the contender knows ...   *)
Clear(p) ==
  /\ at[p] = "reclaiming"
  /\ Unmake
  /\ Move(p, "remaking")
  /\ UNCHANGED <<alive, seen>>

(* ... and made again; a second EEXIST is thrown to the caller.            *)
Remake(p) ==
  /\ at[p] = "remaking"
  /\ IF made
     THEN /\ Move(p, Idle)
          /\ UNCHANGED <<made, owner, old>>
     ELSE /\ Make
          /\ Move(p, "made")
  /\ UNCHANGED <<alive, seen>>

(* writeFile of owner.json, if the directory is still there.               *)
WriteOwner(p) ==
  /\ at[p] = "created"
  /\ made
  /\ owner' = p
  /\ old' = FALSE
  /\ Move(p, "inside")
  /\ UNCHANGED <<made, alive, seen>>

(* writeFile throws; the finally removes whatever directory is there.      *)
WriteOwnerFails(p) ==
  /\ at[p] = "created"
  /\ Unmake
  /\ Move(p, Idle)
  /\ UNCHANGED <<alive, seen>>

(* The operation returned or threw: the finally removes the directory.     *)
Leave(p) ==
  /\ at[p] = "inside"
  /\ Unmake
  /\ Move(p, Idle)
  /\ UNCHANGED <<alive, seen>>

(* The process quits or is killed.                                         *)
Exit(p) ==
  /\ p \in MayExit \cap alive
  /\ alive' = alive \ {p}
  /\ Move(p, "gone")
  /\ seen' = [seen EXCEPT ![p] = Nobody]
  /\ UNCHANGED <<made, owner, old>>

(* 30 s pass; a running creator writes its record, and a contender reads   *)
(* the age, sooner than that.                                              *)
Age ==
  /\ made
  /\ ~old
  /\ \A p \in Processes : at[p] \notin {"made", "created", "dating"}
  /\ old' = TRUE
  /\ UNCHANGED <<made, owner, alive, at, seen>>

Enter(p) == Create(p) \/ SetMode(p) \/ WriteOwner(p) \/ WriteOwnerFails(p)
Take(p) == Contend(p) \/ ReadOwner(p) \/ ReadAge(p) \/ Judge(p) \/ Clear(p) \/ Remake(p)

LockNext == Age \/ \E p \in Processes : Enter(p) \/ Take(p) \/ Leave(p) \/ Exit(p)

LockSpec == LockInit /\ [][LockNext]_lockVars

(* File-system calls return, an owner record can be written, time passes   *)
(* and the user asks again for an installation that was refused.           *)
LockFairness ==
  /\ SF_lockVars(Age)
  /\ \A p \in Processes :
       /\ WF_lockVars(Enter(p) \/ Take(p))
       /\ SF_lockVars(WriteOwner(p))

LockFairSpec == LockSpec /\ LockFairness

-----------------------------------------------------------------------------
LockTypeOK ==
  /\ made \in BOOLEAN
  /\ owner \in Processes \cup {Nobody}
  /\ old \in BOOLEAN
  /\ alive \subseteq Processes
  /\ at \in [Processes -> LockPoints]
  /\ seen \in [Processes -> Processes \cup {Nobody}]

(* Installation mutation is serialised: two processes are never inside     *)
(* withInstallationLock's operation together.                              *)
MutualExclusion ==
  \A p, q \in Processes : at[p] = "inside" /\ at[q] = "inside" => p = q

(* A lock left by a process that exited does not shut out a process that   *)
(* keeps asking, unless another process is inside over and over.           *)
Reclaimed ==
  \A p \in Processes :
    <>[](alive = {p}) => []<>(at[p] = "inside") \/ <>[](at[p] = "inside")

-----------------------------------------------------------------------------
(* Unless a third process is there when one exits, the directory is the    *)
(* lock of ExclusiveLock.                                                  *)
Few == MayExit = {} \/ \E a, b \in Processes : Processes = {a, b}

Owning == {p \in Processes : at[p] \in {"made", "created", "inside"}}
Holder == IF Owning = {} THEN Nobody ELSE CHOOSE p \in Owning : TRUE

Abstract == INSTANCE ExclusiveLock WITH None <- Nobody, holder <- Holder

RefinesExclusiveLock == Abstract!Spec

(* The inductive invariant behind both: a directory belongs to a process   *)
(* that owns it or has exited, and who takes a lock over is alone.         *)
Exclusive ==
  /\ LockTypeOK
  /\ Processes \ MayExit \subseteq alive
  /\ \A p \in Processes :
       /\ at[p] = "gone" <=> p \notin alive
       /\ at[p] \in {"reclaiming", "remaking"} \/ (at[p] = "dating" /\ old) => alive = {p}
       /\ at[p] = "judging" => seen[p] \notin {Nobody, p}
       /\ at[p] \in {"made", "created"} => made /\ owner = Nobody /\ ~old
       /\ at[p] = "inside" => made /\ owner = p
  /\ \A p, q \in Owning : p = q
  /\ owner # Nobody => made /\ at[owner] \in {"inside", "gone"}
  /\ made /\ owner = Nobody => \E p \in Processes : at[p] \in {"made", "created", "gone"}
  /\ old => made
=============================================================================
