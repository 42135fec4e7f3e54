--------------------------- MODULE DevelopmentPair --------------------------
(***************************************************************************)
(* The adoption of a development build that was staged beside the vault:   *)
(* DevelopmentPairCoordinator over its two receipts and its cache of       *)
(* runtime bundles, the startup gate, and what it asks of the runtime      *)
(* manager, which is seen as the one runtime process it attaches to.       *)
(*                                                                         *)
(* A pair binds the source fingerprint and the bundle of a runtime to the  *)
(* connector installed with it; bundles of one source may differ.  The     *)
(* plugin may be unloaded, or Obsidian killed, at every await.             *)
(***************************************************************************)
EXTENDS Naturals, FiniteSetsExt

CONSTANTS
  Pairs,       \* the pairs that may be staged
  Source,      \* developmentBuildFingerprint of each pair
  Bundle,      \* executable and assets of each pair
  Connector,   \* connector artifacts of each pair
  Configured,  \* the runtime of the developer command, which no receipt names
  None,
  MaxStages,   \* bound on pairs staged
  MaxUnloads,  \* bound on unloads that nobody needs
  MaxFaults    \* bound on runtimes that exit or cannot be reached, and damages

ASSUME ConstantAssumption ==
  /\ \A f \in {Source, Bundle, Connector} : DOMAIN f = Pairs
  /\ Configured # None
  /\ {Configured, None} \cap (Pairs \cup {Bundle[p] : p \in Pairs} \cup {Source[p] : p \in Pairs}) = {}
  /\ {MaxStages, MaxUnloads, MaxFaults} \subseteq Nat

VARIABLES
  pending,   \* pending.json
  current,   \* current.json with its activation proof
  installed, \* the connector artifacts in the plugin's directory
  cache,     \* the cached bundles, by what verification finds
  proc,      \* the runtime process
  m,         \* the runtime manager: is it attached, its override, its restart timer
  load,      \* this load of the plugin: gate, code, adoption and its locals
  spent,     \* how much of each bound is used
  mishap     \* history: the events that the code does not survive, see Unmixed

vars == <<pending, current, installed, cache, proc, m, load, spent, mishap>>
disk == <<pending, current, installed>>

Bundles == {Bundle[p] : p \in Pairs}
NoProcess == [source |-> None, bundle |-> None, instance |-> 0, owned |-> FALSE]
NoReceipt == [pair |-> None, instance |-> 0, ran |-> None]
NoRuntime == [attached |-> FALSE, override |-> None, retry |-> FALSE]
NoLoad == [pc |-> "off", gate |-> "open", code |-> None, pair |-> None, previous |-> NoReceipt,
           existing |-> NoProcess, replaced |-> FALSE, trial |-> 0, ran |-> None,
           deferred |-> FALSE]

Running == proc # NoProcess

(* randomUUID: an instance that nothing remembers                          *)
Fresh == Min((1..6) \ {proc.instance, current.instance, load.previous.instance,
                       load.existing.instance, load.trial})

Launched(source, bundle) ==
  [source |-> source, bundle |-> bundle, instance |-> Fresh, owned |-> TRUE]

(* ensureReady with the command of a pair, or the configured one: a ready  *)
(* runtime is returned, one of the same source is attached to, any other   *)
(* is shut down first.                                                     *)
Ensured(p) ==
  IF m.attached \/ (Running /\ (p = None \/ proc.source = Source[p])) THEN proc
  ELSE IF p = None THEN Launched(Configured, Configured)
  ELSE Launched(Source[p], Bundle[p])

Init ==
  /\ pending = None
  /\ current = NoReceipt
  /\ installed = None
  /\ cache = [b \in Bundles |-> "absent"]
  /\ proc \in {NoProcess, [source |-> Configured, bundle |-> Configured, instance |-> 1, owned |-> FALSE]}
  /\ m = NoRuntime /\ load = NoLoad
  /\ spent = [stages |-> 0, unloads |-> 0, faults |-> 0]
  /\ mishap = {}

Spend(what, bound) == spent[what] < bound /\ spent' = [spent EXCEPT ![what] = @ + 1]
Goto(pc) == load' = [load EXCEPT !.pc = pc]

-----------------------------------------------------------------------------
(* The workflow outside: it installs a connector, writes the receipt and   *)
(* has the plugin loaded again.  It waits for an adoption to end.          *)
Stage(p) ==
  /\ load.pc \in {"off", "loaded"}
  /\ Spend("stages", MaxStages)
  /\ pending' = p /\ installed' = Connector[p]
  /\ UNCHANGED <<current, cache, proc, m, load, mishap>>

(* Bytes in the cache change; nothing repairs them.                        *)
Damage(b) ==
  /\ cache[b] = "exact"
  /\ Spend("faults", MaxFaults)
  /\ cache' = [cache EXCEPT ![b] = "changed"]
  /\ UNCHANGED <<disk, proc, m, load, mishap>>

(* The plugin is unloaded or Obsidian is killed; the runtime may survive.  *)
Unload ==
  /\ load.pc # "off"
  /\ \/ Spend("unloads", MaxUnloads)
     \/ load.pc = "loaded" /\ pending # None /\ UNCHANGED spent
  /\ load' = NoLoad /\ m' = NoRuntime
  /\ proc' \in {NoProcess, [proc EXCEPT !.owned = FALSE]}
  /\ UNCHANGED <<disk, cache, mishap>>

(* The runtime exits by itself, and an attached one is to be restarted.    *)
Exit ==
  /\ Running
  /\ Spend("faults", MaxFaults)
  /\ proc' = NoProcess
  /\ m' = [m EXCEPT !.attached = FALSE, !.retry = m.attached]
  /\ mishap' = IF load.pc = "promoting" \/ (load.pc \in {"starting", "proving"} /\ ~load.replaced)
               THEN mishap \cup {"exit"} ELSE mishap
  /\ UNCHANGED <<disk, cache, load>>

(* The restart timer: its delay outlasts everything but the bootstrap, the *)
(* hashing of a bundle and the time after the adoption.                    *)
Restart ==
  /\ m.retry
  /\ load.pc \in {"proving", "promoting", "loaded"} /\ load.gate = "open"
  /\ proc' = Ensured(m.override)
  /\ m' = [m EXCEPT !.attached = TRUE, !.retry = FALSE]
  /\ UNCHANGED <<disk, cache, load, spent, mishap>>

(* A view needs the runtime.                                               *)
Use ==
  /\ load.pc = "loaded" /\ load.gate = "open" /\ ~m.attached
  /\ proc' = Ensured(m.override)
  /\ m' = [m EXCEPT !.attached = TRUE, !.retry = FALSE]
  /\ UNCHANGED <<disk, cache, load, spent, mishap>>

-----------------------------------------------------------------------------
(* The adoption.                                                           *)

(* verifyReceipt with a cached bundle                                      *)
Verified(p) == cache[Bundle[p]] = "exact" /\ installed = Connector[p]

(* onload, adoptPending up to its first await and configureCurrentRuntime  *)
Load ==
  /\ load.pc = "off"
  /\ LET started == [NoLoad EXCEPT !.code = installed, !.pair = pending, !.previous = current]
     IN IF pending # None
        THEN load' = [started EXCEPT !.pc = "checking"] /\ UNCHANGED m
        ELSE IF current = NoReceipt \/ Verified(current.pair)
        THEN load' = [started EXCEPT !.pc = "loaded"] /\ m' = [m EXCEPT !.override = current.pair]
        ELSE load' = [started EXCEPT !.pc = "loaded", !.gate = "blocked"] /\ UNCHANGED m
  /\ UNCHANGED <<disk, cache, proc, spent, mishap>>

(* The catch: only an attempt to replace the runtime is undone.            *)
Fail == Goto(IF load.replaced THEN "stopping" ELSE "discarding")

(* verifyReceipt and materializeRuntime: what is staged is copied to the   *)
(* cache, where nothing is repaired.                                       *)
Check ==
  /\ load.pc = "checking"
  /\ \/ /\ installed = Connector[load.pair] /\ cache[Bundle[load.pair]] # "changed"
        /\ cache' = [cache EXCEPT ![Bundle[load.pair]] = "exact"]
        /\ Goto("attaching")
     \/ Fail /\ UNCHANGED cache
  /\ UNCHANGED <<disk, proc, m, spent, mishap>>

(* Mutant: a runtime of the same source is taken for the staged one.       *)
NeedsReplacement_BySource(existing) == existing.source # Source[load.pair]

NeedsReplacement(existing) ==
  \/ existing.source # Source[load.pair]
  \/ existing.instance # load.previous.instance
  \/ Bundle[load.previous.pair] # Bundle[load.pair]

(* reattachExistingForMaintenance: whom nobody reaches counts as stopped.  *)
Attach ==
  /\ load.pc = "attaching"
  /\ \E reached \in BOOLEAN :
       /\ IF reached \/ ~Running THEN UNCHANGED <<spent, mishap>>
          ELSE Spend("faults", MaxFaults) /\ mishap' = mishap \cup {"unreached"}
       /\ LET existing == IF reached THEN proc ELSE NoProcess
          IN /\ m' = [m EXCEPT !.attached = existing # NoProcess]
             /\ load' = [load EXCEPT
                  !.existing = existing,
                  !.replaced = existing = NoProcess,
                  !.pc = IF existing # NoProcess /\ NeedsReplacement(existing) THEN "admitting" ELSE "starting"]
  /\ UNCHANGED <<disk, cache, proc>>

(* admitMaintenance: the runtime admits it, has work to finish, or fails.  *)
Admit ==
  /\ load.pc = "admitting"
  /\ \/ m.attached /\ load' = [load EXCEPT !.pc = "committing", !.replaced = TRUE]
     \/ m.attached /\ load' = [load EXCEPT !.pc = "loaded", !.deferred = TRUE]
     \/ Fail
  /\ UNCHANGED <<disk, cache, proc, m, spent, mishap>>

Commit ==
  /\ load.pc = "committing"
  /\ \/ m.attached /\ proc' = NoProcess /\ m' = NoRuntime /\ Goto("starting")
     \/ Fail /\ UNCHANGED <<proc, m>>
  /\ UNCHANGED <<disk, cache, spent, mishap>>

Start ==
  /\ load.pc = "starting"
  /\ \/ /\ cache[Bundle[load.pair]] = "exact"
        /\ proc' = Ensured(load.pair)
        /\ m' = [m EXCEPT !.attached = TRUE, !.retry = FALSE]
        /\ load' = [load EXCEPT !.pc = "proving", !.trial = proc'.instance]
     \/ Fail /\ UNCHANGED <<proc, m>>
  /\ UNCHANGED <<disk, cache, spent, mishap>>

(* verifyFrontendBootstrap: the instance that was started answers with a   *)
(* bootstrap of its own, or somebody else does, or nobody in time.         *)
Prove ==
  /\ load.pc = "proving"
  /\ \/ /\ m.attached /\ proc.instance = load.trial
        /\ load' = [load EXCEPT !.pc = "promoting", !.ran = proc.bundle]
     \/ Fail
  /\ UNCHANGED <<disk, cache, proc, m, spent, mishap>>

Promote ==
  /\ load.pc = "promoting"
  /\ \/ /\ Verified(load.pair)
        /\ current' = [pair |-> load.pair, instance |-> load.trial, ran |-> load.ran]
        /\ m' = [m EXCEPT !.override = load.pair]
        /\ Goto("sealing")
     \/ Fail /\ UNCHANGED <<current, m>>
  /\ UNCHANGED <<pending, installed, cache, proc, spent, mishap>>

(* The receipt is removed and the result written; a failure blocks.        *)
Seal ==
  /\ load.pc = "sealing"
  /\ \/ pending' = None /\ load' = [load EXCEPT !.pc = "loaded"] /\ UNCHANGED <<m, spent>>
     \/ /\ pending' \in {pending, None} /\ Spend("faults", MaxFaults)
        /\ load' = [load EXCEPT !.pc = "loaded", !.gate = "blocked"] /\ m' = [m EXCEPT !.retry = FALSE]
  /\ UNCHANGED <<current, installed, cache, proc, mishap>>

-----------------------------------------------------------------------------
(* restorePreAdoptionState.                                                *)

(* stop: a runtime this load did not launch may refuse.                    *)
Stop ==
  /\ load.pc = "stopping"
  /\ \/ /\ proc' = IF m.attached THEN NoProcess ELSE proc
        /\ m' = [m EXCEPT !.attached = FALSE, !.retry = FALSE]
        /\ Goto("restoring") /\ UNCHANGED spent
     \/ /\ m.attached /\ ~proc.owned /\ Spend("faults", MaxFaults)
        /\ m' = [m EXCEPT !.retry = FALSE]
        /\ Goto("discarding") /\ UNCHANGED proc
  /\ UNCHANGED <<disk, cache, mishap>>

Restorable_Regardless ==
  /\ load.existing # NoProcess /\ load.previous # NoReceipt
  /\ load.existing.source = Source[load.previous.pair]

(* Only the pair of the receipt, with its connector still installed        *)
Restorable ==
  /\ load.existing # NoProcess /\ load.previous # NoReceipt
  /\ load.existing.source = Source[load.previous.pair]
  /\ installed = Connector[load.previous.pair]

Restore ==
  /\ load.pc = "restoring"
  /\ \/ /\ Restorable /\ cache[Bundle[load.previous.pair]] # "changed"
        /\ cache' = [cache EXCEPT ![Bundle[load.previous.pair]] = "exact"]
        /\ proc' = Ensured(load.previous.pair)
        /\ m' = [m EXCEPT !.attached = TRUE, !.override = load.previous.pair]
     \/ UNCHANGED <<cache, proc, m>>
  /\ Goto("discarding")
  /\ UNCHANGED <<disk, spent, mishap>>

Discard_Kept ==
  /\ load.pc = "discarding"
  /\ Goto("reporting")
  /\ UNCHANGED <<disk, cache, proc, m, spent, mishap>>

Discard ==
  /\ load.pc = "discarding"
  /\ \/ pending' = None /\ UNCHANGED spent
     \/ Spend("faults", MaxFaults) /\ UNCHANGED pending
  /\ Goto("reporting")
  /\ UNCHANGED <<current, installed, cache, proc, m, mishap>>

(* The adoption rejects: the gate closes and owned restarts are cancelled. *)
Report ==
  /\ load.pc = "reporting"
  /\ load' = [load EXCEPT !.pc = "loaded", !.gate = "blocked"]
  /\ m' = [m EXCEPT !.retry = FALSE]
  /\ UNCHANGED <<disk, cache, proc, spent, mishap>>

Adopt ==
  \/ Check \/ Attach \/ Admit \/ Commit \/ Start \/ Prove \/ Promote \/ Seal
  \/ Stop \/ Restore \/ Discard \/ Report

Next ==
  \/ \E p \in Pairs : Stage(p)
  \/ \E b \in Bundles : Damage(b)
  \/ Unload \/ Exit \/ Restart \/ Use \/ Load \/ Adopt

Spec == Init /\ [][Next]_vars

(* Calls come back or time out; the workflow loads the plugin again after  *)
(* it staged a pair.                                                       *)
FairSpec == Spec /\ WF_vars(Adopt) /\ WF_vars(Load) /\ WF_vars(Unload /\ load.pc = "loaded" /\ pending # None)

-----------------------------------------------------------------------------
Connectors == {Connector[p] : p \in Pairs}
Instances == 0..6

Processes == [source : {Source[p] : p \in Pairs} \cup {Configured, None},
              bundle : Bundles \cup {Configured, None}, instance : Instances, owned : BOOLEAN]
Receipts == [pair : Pairs \cup {None}, instance : Instances, ran : Bundles \cup {Configured, None}]
Runtimes == [attached : BOOLEAN, override : Pairs \cup {None}, retry : BOOLEAN]
Loads ==
  [pc : {"off", "checking", "attaching", "admitting", "committing", "starting", "proving", "promoting",
         "sealing", "stopping", "restoring", "discarding", "reporting", "loaded"},
   gate : {"open", "blocked"}, code : Connectors \cup {None}, pair : Pairs \cup {None},
   previous : Receipts, existing : Processes, replaced : BOOLEAN, trial : Instances,
   ran : Bundles \cup {Configured, None}, deferred : BOOLEAN]

TypeOK ==
  /\ pending \in Pairs \cup {None} /\ current \in Receipts
  /\ installed \in Connectors \cup {None}
  /\ cache \in [Bundles -> {"absent", "exact", "changed"}]
  /\ proc \in Processes /\ m \in Runtimes /\ load \in Loads
  /\ m.attached => Running
  /\ mishap \subseteq {"exit", "unreached"}

(* The instance whose bootstrap a current receipt carries ran the bundle   *)
(* that the receipt names.                                                 *)
Proven ==
  current # NoReceipt /\ "unreached" \notin mishap => current.ran = Bundle[current.pair]

(* There is no mixed pair: once a load has ended its adoption, the runtime it is    *)
(* attached to is of the current receipt, and so is the code of the        *)
(* connector; after a failure that is so of any runtime that it launched.  *)
Unmixed ==
  load.pc = "loaded" /\ ~load.deferred /\ m.attached /\ (load.gate = "open" \/ proc.owned)
    /\ current # NoReceipt /\ mishap = {} =>
      proc.source = Source[current.pair] /\ load.code = Connector[current.pair]

Sound == TypeOK /\ Unmixed

(* A staged pair is taken up: its receipt goes when it is promoted or      *)
(* refused, however often the plugin is unloaded, or work defers it.       *)
Taken == pending # None ~> pending = None \/ load.deferred
=============================================================================
