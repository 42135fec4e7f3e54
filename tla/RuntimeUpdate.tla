--------------------------- MODULE RuntimeUpdate ---------------------------
(***************************************************************************)
(* RuntimeUpdateManager with its callers: the views' ensureRuntime, the    *)
(* bootstrap coordinator and the installer dialog.  The runtime manager is *)
(* reduced to one start attempt that everybody joins and to stops that     *)
(* cancel it; the journal to its phase and the package it selects (the     *)
(* module RuntimeInstallation has the file operations).                    *)
(*                                                                         *)
(* A promise that settles moves everybody who awaits it to their next      *)
(* await: no other task runs in between.                                   *)
(***************************************************************************)
EXTENDS Naturals

CONSTANTS
  Views,        \* views that ask for the runtime
  Boot,         \* the bootstrap coordinator
  MaxFaults,    \* bound on failing starts, stops, downloads and file operations
  MaxRestarts   \* bound on restarts of Obsidian

ASSUME ConstantAssumption ==
  /\ Boot \notin Views
  /\ MaxFaults \in Nat
  /\ MaxRestarts \in Nat

VARIABLES
  g,        \* the runtime manager: the package that is up, the start, the stops
  journal,  \* phase of pending-installation.json
  active,   \* the package the pointer selects
  u,        \* pendingInstallation, ...Recovered, recoveredFinalization, recoveredRollback
  install,  \* installPromise and its locals
  client,   \* where each caller of ensureRuntime is
  boot,     \* the run of the bootstrap coordinator
  busy,     \* does the runtime have work that an update may not interrupt?
  leased,   \* does the runtime hold a maintenance lease?
  spent     \* faults and restarts so far

vars == <<g, journal, active, u, install, client, boot, busy, leased, spent>>

None == "none"
Packages == {"old", "new"}
Clients == Views \cup {Boot}

NoInstall == [pc |-> None, by |-> None]

Idle ==
  [up |-> None, ready |-> FALSE, start |-> None, live |-> FALSE, stops |-> {}, draining |-> {},
   stray |-> FALSE]

Init ==
  /\ g = Idle
  /\ journal = None /\ active = "old"
  /\ u = [pending |-> FALSE, recovered |-> FALSE, finalizing |-> FALSE, rolling |-> None]
  /\ install = NoInstall
  /\ client = [c \in Clients |-> "idle"]
  /\ boot = "new"
  /\ busy \in BOOLEAN
  /\ leased = FALSE
  /\ spent = [faults |-> 0, restarts |-> 0]

Fault == spent.faults < MaxFaults /\ spent' = [spent EXCEPT !.faults = @ + 1]

(* The end of installInternal, and what ensureRequiredRuntime makes of it. *)
EndInstall(result) ==
  /\ install' = NoInstall
  /\ boot' = IF boot # "installing" THEN boot ELSE IF result = "deferred" THEN "waiting" ELSE "done"

-----------------------------------------------------------------------------
(* The runtime manager: `up` is the runtime it knows, `ready` its status,  *)
(* `start` the package of the attempt in flight, not `live` when cancelled.*)

(* ensureReady: what is ready is returned, an attempt in flight joined, be *)
(* it cancelled; otherwise the runtime is started, a stop in flight or not.*)
EnsureReady(h, package) ==
  IF h.ready \/ h.start # None THEN h ELSE [h EXCEPT !.start = package, !.live = TRUE]

(* stop: the attempt in flight is cancelled, and waited for.               *)
Stop(h, who) ==
  [h EXCEPT !.live = FALSE, !.ready = FALSE, !.stops = @ \cup {who},
            !.draining = IF h.start = None THEN @ ELSE @ \cup {who}]

(* Its end: whatever was up is forgotten, also if it came up meanwhile.    *)
Stopped(who) == who \in g.stops \ g.draining
AfterStop(who) == [g EXCEPT !.up = None, !.ready = FALSE, !.stops = @ \ {who}]

(* Is a package being undone: the recovered one, or the one installed?     *)
Undoing == u.rolling # None \/ install.pc \in {"unwinding", "undoing"}

(* A request of the runtime; it goes astray (history only) if it starts the*)
(* runtime while a package is being undone.                                *)
Asked == EnsureReady([g EXCEPT !.stray = @ \/ (Undoing /\ g.start = None)], active)

-----------------------------------------------------------------------------
(* ensureRuntime of main.ts, for the clients `who`, when the manager is h. *)

At(points) == {c \in Clients : client[c] \in points}

(* `who` go on to `to`; so do those who only wait for the start after a    *)
(* rollback, once it has ended.                                            *)
Moved(who, to, h) ==
  client' = [c \in Clients |->
    IF c \in who THEN to
    ELSE IF client[c] = "again" /\ h.start = None THEN IF h.ready THEN "ready" ELSE "failed"
    ELSE client[c]]

(* rollbackRecoveredRuntime after a failed request: it waits for a         *)
(* finalization, joins a rollback, or begins one.                          *)
FallBack(who, v, h) ==
  IF who # {} /\ v.recovered /\ ~v.finalizing /\ v.rolling = None
  THEN /\ Moved(who, "rolling", h)
       /\ u' = [v EXCEPT !.rolling = "stopping"]
       /\ g' = Stop(h, "recovery")
  ELSE /\ Moved(who, IF v.finalizing THEN "waiting"
                     ELSE IF v.rolling # None THEN "rolling" ELSE "failed", h)
       /\ u' = v
       /\ g' = h

(* finalizeRecoveredRuntime after a successful one                         *)
Confirm(who, v, h) ==
  IF ~v.recovered THEN Moved(who, "ready", h) /\ g' = h /\ u' = v
  ELSE IF h.up # "new" \/ (v.rolling # None /\ ~v.finalizing) THEN FallBack(who, v, h)
  ELSE Moved(who, "finalizing", h) /\ g' = h /\ u' = [v EXCEPT !.finalizing = @ \/ who # {}]

Call(c) ==
  IF g.ready THEN Confirm({c}, u, g)
  ELSE Moved({c}, "starting", Asked) /\ g' = Asked /\ UNCHANGED u

Ask(c) ==
  /\ client[c] \in {"idle", "ready", "failed"}
  /\ Call(c)
  /\ UNCHANGED <<journal, active, install, boot, busy, leased, spent>>

FinalizeEnds ==
  /\ u.finalizing
  /\ \/ /\ journal' = None
        /\ u' = [u EXCEPT !.pending = FALSE, !.recovered = FALSE, !.finalizing = FALSE]
        /\ client' = [c \in Clients |-> CASE client[c] = "finalizing" -> "ready"
                                          [] client[c] = "waiting" -> "failed"
                                          [] OTHER -> client[c]]
        /\ UNCHANGED <<g, spent>>
     \/ /\ Fault
        /\ journal' \in {journal, "finalizing"}
        /\ FallBack(At({"finalizing", "waiting"}), [u EXCEPT !.finalizing = FALSE], g)
  /\ UNCHANGED <<active, install, boot, busy, leased>>

(* The recovered package is rolled back once the runtime has stopped.      *)
RollbackStopped ==
  /\ u.rolling = "stopping"
  /\ Stopped("recovery")
  /\ g' = AfterStop("recovery")
  /\ u' = [u EXCEPT !.rolling = "undoing"]
  /\ UNCHANGED <<journal, active, install, client, boot, busy, spent>>
  /\ leased' = FALSE

(* Mutant: the pointer stays on the package that was rolled back.          *)
RollbackEnds_Forward ==
  /\ u.rolling = "undoing"
  /\ journal = "activated"
  /\ journal' = None
  /\ u' = [u EXCEPT !.pending = FALSE, !.recovered = FALSE, !.rolling = None]
  /\ g' = EnsureReady(g, "old")
  /\ Moved(At({"rolling"}), IF g.ready THEN "ready" ELSE "again", g')
  /\ UNCHANGED <<active, install, boot, busy, leased, spent>>

RollbackEnds ==
  /\ u.rolling = "undoing"
  /\ journal = "activated"
  /\ journal' = None /\ active' = "old"
  /\ u' = [u EXCEPT !.pending = FALSE, !.recovered = FALSE, !.rolling = None]
  /\ g' = EnsureReady(g, "old")
  /\ Moved(At({"rolling"}), IF g.ready THEN "ready" ELSE "again", g')
  /\ UNCHANGED <<install, boot, busy, leased, spent>>

RollbackFails ==
  /\ \/ u.rolling = "stopping" /\ Stopped("recovery") /\ Fault
     \/ u.rolling = "undoing" /\ (IF journal = "activated" THEN Fault ELSE UNCHANGED spent)
  /\ g' = [g EXCEPT !.stops = @ \ {"recovery"}]
  /\ u' = [u EXCEPT !.rolling = None]
  /\ Moved(At({"rolling"}), "failed", g)
  /\ UNCHANGED <<journal, active, install, boot, busy, leased>>

-----------------------------------------------------------------------------
(* The start in flight.                                                    *)

(* activatePendingRuntime: the candidate asks for admission.               *)
Activate ==
  /\ g.start = "new" /\ g.live /\ journal = "prepared" /\ u.pending
  /\ journal' = "activated" /\ active' = "new"
  /\ UNCHANGED <<g, u, install, client, boot, busy, leased, spent>>

(* Everybody who awaits the start goes on; installInternal lets go of the  *)
(* installation before it seals or unwinds it.                             *)
Released == IF install.pc = "starting" THEN [u EXCEPT !.pending = FALSE] ELSE u

StartSucceeds ==
  /\ g.start # None /\ g.live
  /\ g.start = "new" => journal # "prepared"
  /\ Confirm(At({"starting"}), Released, [g EXCEPT !.up = g.start, !.ready = TRUE, !.start = None])
  /\ CASE install.pc = "starting" -> install' = [install EXCEPT !.pc = "sealing"] /\ UNCHANGED boot
       [] install.pc = "restarting" -> EndInstall("failed")
       [] OTHER -> UNCHANGED <<install, boot>>
  /\ UNCHANGED <<journal, active, busy, leased, spent>>

(* Mutant: a start that was cancelled does not conclude.                   *)
StartFails_Deaf ==
  /\ g.start # None /\ g.live
  /\ IF g.start = "new" /\ journal = "prepared" /\ ~u.pending THEN UNCHANGED spent ELSE Fault
  /\ FallBack(At({"starting"}), Released,
              LET h == [g EXCEPT !.start = None, !.live = FALSE, !.draining = {}]
              IN IF install.pc = "starting" THEN Stop(h, "install") ELSE h)
  /\ CASE install.pc = "starting" -> install' = [install EXCEPT !.pc = "unwinding"] /\ UNCHANGED boot
       [] install.pc = "restarting" -> EndInstall("failed")
       [] OTHER -> UNCHANGED <<install, boot>>
  /\ UNCHANGED <<journal, active, busy, leased>>

StartFails ==
  /\ g.start # None
  /\ IF g.live /\ ~(g.start = "new" /\ journal = "prepared" /\ ~u.pending) THEN Fault ELSE UNCHANGED spent
  /\ FallBack(At({"starting"}), Released,
              LET h == [g EXCEPT !.start = None, !.live = FALSE, !.draining = {}]
              IN IF install.pc = "starting" THEN Stop(h, "install") ELSE h)
  /\ CASE install.pc = "starting" -> install' = [install EXCEPT !.pc = "unwinding"] /\ UNCHANGED boot
       [] install.pc = "restarting" -> EndInstall("failed")
       [] OTHER -> UNCHANGED <<install, boot>>
  /\ UNCHANGED <<journal, active, busy, leased>>

-----------------------------------------------------------------------------
(* installInternal, called by the dialog (which interrupts active work) or *)
(* by the coordinator (which does not).                                    *)
Goto(point) == install' = [install EXCEPT !.pc = point]

Offer ==
  /\ install.pc = None /\ active = "old"
  /\ install' = [pc |-> "staging", by |-> "user"]
  /\ UNCHANGED <<g, journal, active, u, client, boot, busy, leased, spent>>

Stage ==
  /\ install.pc = "staging"
  /\ \/ Goto("admitting") /\ UNCHANGED <<boot, spent>>
     \/ Fault /\ EndInstall("failed")
  /\ UNCHANGED <<g, journal, active, u, client, busy, leased>>

(* Mutant: the coordinator defers to any runtime that is up.               *)
Admit_Shy ==
  /\ install.pc = "admitting"
  /\ \/ g.up # None /\ (busy \/ install.by = Boot) /\ EndInstall("deferred") /\ UNCHANGED <<g, leased>>
     \/ g.up # None /\ ~busy /\ install.by # Boot /\ Goto("committing") /\ leased' = TRUE /\ UNCHANGED <<g, boot>>
     \/ /\ g.up = None \/ (busy /\ install.by # Boot)
        /\ Goto("stopping") /\ g' = Stop(g, "install") /\ UNCHANGED <<boot, leased>>
  /\ UNCHANGED <<journal, active, u, client, busy, spent>>

(* admitMaintenance: a runtime at work defers the update, unless the user  *)
(* interrupts it; even then if the work is maintenance.                    *)
Admit ==
  /\ install.pc = "admitting"
  /\ \/ g.up # None /\ busy /\ EndInstall("deferred") /\ UNCHANGED <<g, leased>>
     \/ g.up # None /\ ~busy /\ Goto("committing") /\ leased' = TRUE /\ UNCHANGED <<g, boot>>
     \/ /\ g.up = None \/ (busy /\ install.by # Boot)
        /\ Goto("stopping") /\ g' = Stop(g, "install") /\ UNCHANGED <<boot, leased>>
  /\ UNCHANGED <<journal, active, u, client, busy, spent>>

(* commitMaintenance: nothing to be done if the runtime is gone; otherwise *)
(* it stops, and the attempt in flight is cancelled but not waited for.    *)
Commit ==
  /\ install.pc = "committing"
  /\ IF g.up = None THEN Goto("preparing") /\ leased' = FALSE /\ UNCHANGED g
     ELSE /\ Goto("stopping") /\ UNCHANGED leased
          /\ g' = [g EXCEPT !.live = FALSE, !.ready = FALSE, !.stops = @ \cup {"install"}]
  /\ UNCHANGED <<journal, active, u, client, boot, busy, spent>>

(* The runtime does not agree, or does not stop; a lease is given back.    *)
CommitFails ==
  /\ install.pc = "committing" \/ (install.pc = "stopping" /\ Stopped("install"))
  /\ Fault
  /\ g' = [g EXCEPT !.stops = @ \ {"install"}]
  /\ leased' = FALSE
  /\ EndInstall("failed")
  /\ UNCHANGED <<journal, active, u, client, busy>>

ReadyToPrepare ==
  /\ install.pc = "stopping"
  /\ Stopped("install")
  /\ g' = AfterStop("install")
  /\ leased' = FALSE
  /\ Goto("preparing")
  /\ UNCHANGED <<journal, active, u, client, boot, busy, spent>>

(* startRuntime: whatever is ready already is returned at once.            *)
Prepare ==
  /\ install.pc = "preparing"
  /\ journal = None
  /\ journal' = "prepared"
  /\ g' = EnsureReady(g, "new")
  /\ u' = [u EXCEPT !.pending = ~g.ready, !.recovered = FALSE]
  /\ Goto(IF g.ready THEN "sealing" ELSE "starting")
  /\ UNCHANGED <<active, client, boot, busy, leased, spent>>

PrepareFails ==
  /\ install.pc = "preparing"
  /\ IF journal = None THEN Fault ELSE UNCHANGED spent
  /\ g' = EnsureReady(g, active)
  /\ IF g.ready THEN EndInstall("failed") ELSE Goto("restarting") /\ UNCHANGED boot
  /\ UNCHANGED <<journal, active, u, client, busy, leased>>

Seal ==
  /\ install.pc = "sealing"
  /\ journal = "activated"
  /\ journal' = None
  /\ EndInstall("installed")
  /\ UNCHANGED <<g, active, u, client, busy, leased, spent>>

(* finalize refuses a package that did not ask for admission.              *)
SealFails ==
  /\ install.pc = "sealing"
  /\ IF journal = "activated" THEN Fault /\ journal' \in {journal, "finalizing"}
                              ELSE UNCHANGED <<journal, spent>>
  /\ g' = Stop(g, "install")
  /\ Goto("unwinding")
  /\ UNCHANGED <<active, u, client, boot, busy, leased>>

Unwind ==
  /\ install.pc = "unwinding"
  /\ Stopped("install")
  /\ g' = AfterStop("install")
  /\ Goto("undoing")
  /\ UNCHANGED <<journal, active, u, client, boot, busy, leased, spent>>

Undo ==
  /\ install.pc = "undoing"
  /\ journal # "finalizing"
  /\ journal' = None /\ active' = "old"
  /\ g' = EnsureReady(g, "old")
  /\ IF g.ready THEN EndInstall("failed") ELSE Goto("restarting") /\ UNCHANGED boot
  /\ UNCHANGED <<u, client, busy, leased, spent>>

UnwindFails ==
  /\ install.pc = "undoing" \/ (install.pc = "unwinding" /\ Stopped("install"))
  /\ IF install.pc = "undoing" /\ journal = "finalizing" THEN UNCHANGED spent ELSE Fault
  /\ g' = [g EXCEPT !.stops = @ \ {"install"}]
  /\ EndInstall("failed")
  /\ UNCHANGED <<journal, active, u, client, busy, leased>>

Install ==
  \/ Stage \/ Admit \/ Commit \/ CommitFails \/ ReadyToPrepare \/ Prepare \/ PrepareFails
  \/ Seal \/ SealFails \/ Unwind \/ Undo \/ UnwindFails

-----------------------------------------------------------------------------
(* RuntimeBootstrapCoordinator: the installed runtime first, then the one  *)
(* this plugin requires; a deferred update is tried again.                 *)
BootStarts ==
  /\ boot \in {"new", "waiting"}
  /\ boot' = "reattaching"
  /\ Call(Boot)
  /\ UNCHANGED <<journal, active, install, busy, leased, spent>>

BootProvisions ==
  /\ boot = "reattaching"
  /\ client[Boot] \in {"ready", "failed"}
  /\ boot' = IF active = "new" THEN "done" ELSE "installing"
  /\ install' = IF active = "old" /\ install.pc = None THEN [pc |-> "staging", by |-> Boot] ELSE install
  /\ UNCHANGED <<g, journal, active, u, client, busy, leased, spent>>

(* retry: the download of the run in flight is aborted.                    *)
Retry ==
  /\ \/ boot = "done" /\ UNCHANGED install
     \/ boot = "installing" /\ install = [pc |-> "staging", by |-> Boot] /\ install' = NoInstall
  /\ boot' = "new"
  /\ UNCHANGED <<g, journal, active, u, client, busy, leased, spent>>

-----------------------------------------------------------------------------
(* The runtime works, or crashes.                                          *)
Work ==
  /\ g.up # None /\ ~leased
  /\ busy' = ~busy
  /\ UNCHANGED <<g, journal, active, u, install, client, boot, leased, spent>>

Die ==
  /\ Fault
  /\ g.up # None
  /\ g' = [g EXCEPT !.up = None, !.ready = FALSE]
  /\ leased' = FALSE
  /\ UNCHANGED <<journal, active, u, install, client, boot, busy>>

(* Obsidian ends and starts; recoverInterruptedInstallation undoes a       *)
(* package that was never activated and keeps one that was.                *)
Restart ==
  /\ spent.restarts < MaxRestarts
  /\ spent' = [spent EXCEPT !.restarts = @ + 1]
  /\ LET kept == journal \in {"activated", "finalizing"}
     IN /\ journal' = IF kept THEN journal ELSE None
        /\ u' = [pending |-> kept, recovered |-> kept, finalizing |-> FALSE, rolling |-> None]
  /\ g' = Idle /\ install' = NoInstall
  /\ client' = [c \in Clients |-> "idle"]
  /\ boot' = "new"
  /\ leased' = FALSE
  /\ UNCHANGED <<active, busy>>

Next ==
  \/ \E c \in Views : Ask(c)
  \/ FinalizeEnds \/ RollbackStopped \/ RollbackEnds \/ RollbackFails
  \/ Activate \/ StartSucceeds \/ StartFails
  \/ Offer \/ Install
  \/ BootStarts \/ BootProvisions \/ Retry
  \/ Work \/ Die \/ Restart

Spec == Init /\ [][Next]_vars

(* Operations end, starts conclude, the coordinator's timer fires.         *)
Fairness ==
  /\ WF_vars(FinalizeEnds) /\ WF_vars(RollbackStopped) /\ WF_vars(RollbackEnds) /\ WF_vars(RollbackFails)
  /\ WF_vars(Activate) /\ WF_vars(StartSucceeds) /\ WF_vars(StartFails)
  /\ WF_vars(Install)
  /\ WF_vars(BootStarts) /\ WF_vars(BootProvisions)

FairSpec == Spec /\ Fairness

-----------------------------------------------------------------------------
Managers ==
  [up : Packages \cup {None}, ready : BOOLEAN, start : Packages \cup {None}, live : BOOLEAN,
   stops : SUBSET {"install", "recovery"}, draining : SUBSET {"install", "recovery"}, stray : BOOLEAN]
Updaters ==
  [pending : BOOLEAN, recovered : BOOLEAN, finalizing : BOOLEAN, rolling : {None, "stopping", "undoing"}]
Installs ==
  [pc : {None, "staging", "admitting", "committing", "stopping", "preparing", "starting", "sealing",
         "unwinding", "undoing", "restarting"},
   by : {None, "user", Boot}]

TypeOK ==
  /\ g \in Managers /\ u \in Updaters /\ install \in Installs
  /\ u.recovered => u.pending
  /\ journal \in {None, "prepared", "activated", "finalizing"}
  /\ active \in Packages
  /\ client \in [Clients -> {"idle", "starting", "finalizing", "waiting", "rolling", "again",
                             "ready", "failed"}]
  /\ boot \in {"new", "reattaching", "installing", "waiting", "done"}
  /\ busy \in BOOLEAN /\ leased \in BOOLEAN
  /\ spent \in [faults : 0..MaxFaults, restarts : 0..MaxRestarts]

(* The journal has one writer at a time: a recovered package is never      *)
(* accepted and rolled back at once, nor while another is installed.       *)
OneMutation ==
  LET writers == (IF u.finalizing THEN {"finalization"} ELSE {})
                   \cup (IF u.rolling = "undoing" THEN {"rollback"} ELSE {})
                   \cup (IF install.pc \in {"sealing", "undoing"} THEN {"install"} ELSE {})
  IN \A a, b \in writers : a = b

(* A view's failed request never stops the runtime that another view was   *)
(* given: a recovery is rolled back only while nobody has been accepted.   *)
HealthyKept == u.rolling # None => At({"ready"}) = {}

(* When nothing is in flight, the runtime that is up is the package the    *)
(* pointer selects, whatever was asked for while it stopped, unless a      *)
(* request started the runtime while a package was being undone.           *)
RunsSelected ==
  ~g.stray /\ install.pc = None /\ ~u.finalizing /\ u.rolling = None /\ g.start = None /\ g.stops = {} =>
    g.up \in {None, active}

(* A maintenance lease does not outlive the installation that asked for    *)
(* it, or the runtime would refuse work for ever.                          *)
LeaseReturned == leased => install.pc \in {"committing", "stopping"}

(* Everybody who asks for the runtime gets it or an error: the joins of    *)
(* start, finalization and rollback never wait for each other.             *)
Answered ==
  \A c \in Clients :
    client[c] \in {"starting", "finalizing", "waiting", "rolling", "again"} ~> client[c] \in {"ready", "failed", "idle"}

(* An update that active work deferred does not stay deferred once the     *)
(* work is over.                                                           *)
DeferredTakenUp ==
  <>[]~busy => <>[](boot # "waiting")

(* Installations exclude each other on the journal and on the runtime,     *)
(* leave the runtime that they selected, and undo none that works.         *)
Sound == TypeOK /\ OneMutation /\ LeaseReturned /\ RunsSelected /\ HealthyKept
=============================================================================
