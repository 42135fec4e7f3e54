------------------------ MODULE DevelopmentPair_proofs -----------------------
(* Proofs about DevelopmentPair, for all pairs, artifacts and bounds.      *)
EXTENDS DevelopmentPair, WellFoundedInduction, TLAPS

-----------------------------------------------------------------------------
(* The inductive invariant.                                                *)

Adopting == load.pc \notin {"off", "loaded"}
Named == current # NoReceipt

(* What an adoption may rely on while it runs: nobody else writes the      *)
(* receipts or the connector.                                              *)
Stable ==
  /\ Adopting => load.pair \in Pairs /\ load.code = installed
  /\ Adopting /\ load.pc # "sealing" => load.previous = current
  /\ load.pc \in {"admitting", "committing", "starting", "proving", "promoting"} => m.override = None
  /\ load.pc \in {"off", "checking", "attaching"} => ~m.attached /\ ~m.retry /\ m.override = None
  /\ load.pc \in {"committing", "stopping", "restoring"} => load.replaced
  /\ load.pc \in {"checking", "attaching", "admitting"} => ~load.replaced
  /\ load.pc = "restoring" => ~m.attached /\ ~m.retry
  /\ m.retry => ~m.attached
  /\ Named => current.pair \in Pairs

(* An instance that a receipt names is the process that it was proved on.  *)
Identified ==
  /\ Running => proc.instance # 0
  /\ load.existing # NoProcess => load.existing.instance # 0
  /\ Running /\ proc.instance = current.instance => proc.bundle = current.ran
  /\ Running /\ proc.instance = load.previous.instance => proc.bundle = load.previous.ran
  /\ load.pc = "promoting" /\ Running /\ proc.instance = load.trial => proc.bundle = load.ran

(* What is started for a pair, is proved and will be promoted is of that   *)
(* pair: its source always, its bundle as far as everybody was reached.    *)
Tried ==
  /\ load.pc = "starting" =>
       IF load.replaced THEN ~m.attached
       ELSE /\ load.existing # NoProcess /\ ~NeedsReplacement(load.existing)
            /\ proc \in {load.existing, NoProcess}
  /\ load.pc = "proving" /\ Running /\ proc.instance = load.trial => proc.source = Source[load.pair]
  /\ "unreached" \notin mishap =>
       /\ load.pc = "starting" /\ load.replaced => ~Running
       /\ load.pc = "proving" /\ Running /\ proc.instance = load.trial => proc.bundle = Bundle[load.pair]
       /\ load.pc = "promoting" => load.ran = Bundle[load.pair]

(* The runtime that is attached is the current pair's                      *)
Matching == proc.source = Source[current.pair] /\ load.code = Connector[current.pair]

(* What Unmixed rests on, at each point of a load that no mishap befell.   *)
Unspoilt ==
  /\ load.pc = "off" => ~proc.owned
  /\ Adopting /\ load.pc # "sealing" /\ ~load.replaced => ~proc.owned
  /\ load.pc \in {"starting", "proving", "promoting"} /\ ~load.replaced => m.attached /\ ~m.retry
  /\ load.pc = "promoting" => m.attached /\ proc.source = Source[load.pair]
  /\ load.pc = "sealing" =>
       /\ Named /\ m.override = current.pair /\ load.code = Connector[current.pair]
       /\ m.attached => Matching
  /\ load.pc \in {"discarding", "reporting"} /\ Named /\ m.attached /\ proc.owned => Matching
  /\ load.pc = "loaded" /\ ~load.deferred /\ Named /\ load.gate = "open" =>
       m.override = current.pair /\ load.code = Connector[current.pair]

Inv ==
  /\ TypeOK /\ Stable /\ Identified /\ Tried /\ Proven
  /\ mishap = {} => Unspoilt /\ Unmixed

-----------------------------------------------------------------------------
(* What the operators return.                                              *)

(* Six names are more than the five that anything remembers.               *)
LEMMA FreshIsFresh ==
  ASSUME TypeOK
  PROVE  /\ Fresh \in Instances /\ Fresh # 0
         /\ Fresh \notin {proc.instance, current.instance, load.previous.instance,
                          load.existing.instance, load.trial}
<1> DEFINE taken == {proc.instance, current.instance, load.previous.instance,
                     load.existing.instance, load.trial}
           S == (1..6) \ taken
<1>1. \E x \in {1, 2, 3, 4, 5, 6} : x \notin taken
  OBVIOUS
<1>2. S # {} /\ S \subseteq Nat
  BY <1>1
<1> HIDE DEF S
<1>3. \E x \in S : \A y \in S : x <= y
  <2>1. PICK x \in S : \A y \in S : ~(<<y, x>> \in OpToRel(<, Nat))
    BY <1>2, NatLessThanWellFounded, WFMin
  <2>2. \A y \in S : ~(y < x)
    BY <1>2, <2>1 DEF OpToRel
  <2> QED BY <1>2, <2>2
<1>4. Min(S) \in S
  BY <1>3 DEF Min
<1> QED BY <1>4 DEF Fresh, Instances, S

LEMMA Fields ==
  /\ \A x \in Processes : /\ x.source \in {Source[p] : p \in Pairs} \cup {Configured, None}
                          /\ x.bundle \in Bundles \cup {Configured, None}
                          /\ x.instance \in Instances /\ x.owned \in BOOLEAN
  /\ \A x \in Receipts : /\ x.pair \in Pairs \cup {None} /\ x.instance \in Instances
                         /\ x.ran \in Bundles \cup {Configured, None}
  /\ \A x \in Runtimes : /\ x.attached \in BOOLEAN /\ x.override \in Pairs \cup {None}
                         /\ x.retry \in BOOLEAN
  /\ \A x \in Loads : /\ x.code \in Connectors \cup {None} /\ x.pair \in Pairs \cup {None}
                      /\ x.previous \in Receipts /\ x.existing \in Processes
                      /\ x.replaced \in BOOLEAN /\ x.trial \in Instances
                      /\ x.ran \in Bundles \cup {Configured, None} /\ x.deferred \in BOOLEAN
                      /\ x.gate \in {"open", "blocked"}
BY DEF Processes, Receipts, Runtimes, Loads

LEMMA Nothing ==
  /\ NoProcess \in Processes /\ NoProcess.instance = 0 /\ ~NoProcess.owned
  /\ NoReceipt \in Receipts /\ NoReceipt.instance = 0 /\ NoReceipt.pair = None
  /\ NoRuntime \in Runtimes /\ ~NoRuntime.attached /\ ~NoRuntime.retry /\ NoRuntime.override = None
  /\ NoLoad \in Loads /\ NoLoad.pc = "off" /\ NoLoad.gate = "open" /\ ~NoLoad.replaced
  /\ NoLoad.previous = NoReceipt /\ NoLoad.existing = NoProcess
<1>1. 0 \in Instances
  BY DEF Instances
<1>2. NoProcess \in Processes /\ NoProcess.instance = 0 /\ ~NoProcess.owned
  BY <1>1, Zenon DEF NoProcess, Processes
<1>3. NoReceipt \in Receipts /\ NoReceipt.instance = 0 /\ NoReceipt.pair = None
  BY <1>1, Zenon DEF NoReceipt, Receipts
<1>4. NoRuntime \in Runtimes /\ ~NoRuntime.attached /\ ~NoRuntime.retry /\ NoRuntime.override = None
  BY Zenon DEF NoRuntime, Runtimes
<1>5. NoLoad \in Loads
  BY <1>1, <1>2, <1>3, Zenon DEF NoLoad, Loads
<1>6. /\ NoLoad.pc = "off" /\ NoLoad.gate = "open" /\ ~NoLoad.replaced
      /\ NoLoad.previous = NoReceipt /\ NoLoad.existing = NoProcess
  BY DEF NoLoad
<1> QED BY <1>2, <1>3, <1>4, <1>5, <1>6

(* Whoever needs the runtime gets the one that runs, unless it is of       *)
(* another source, or a new one, of the pair that it asked for.            *)
LEMMA EnsuredIs ==
  ASSUME TypeOK, NEW p \in Pairs \cup {None}
  PROVE  LET e == Ensured(p)
         IN /\ e \in Processes /\ e # NoProcess
            /\ \/ e = proc /\ Running /\ (m.attached \/ p = None \/ proc.source = Source[p])
               \/ /\ ~m.attached /\ (p = None => ~Running)
                  /\ e.instance # 0
                  /\ e.instance \notin {proc.instance, current.instance, load.previous.instance,
                                        load.existing.instance, load.trial}
                  /\ p # None => e.source = Source[p] /\ e.bundle = Bundle[p]
<1>1. CASE m.attached \/ (Running /\ (p = None \/ proc.source = Source[p]))
  BY <1>1 DEF Ensured, TypeOK, Running
<1>2. CASE ~(m.attached \/ (Running /\ (p = None \/ proc.source = Source[p])))
  <2> DEFINE source == IF p = None THEN Configured ELSE Source[p]
             bundle == IF p = None THEN Configured ELSE Bundle[p]
             e == Launched(source, bundle)
  <2>1. Ensured(p) = e
    BY <1>2 DEF Ensured
  <2>2. /\ source \in {Source[q] : q \in Pairs} \cup {Configured, None}
        /\ bundle \in Bundles \cup {Configured, None}
    BY DEF Bundles
  <2>3. p # None => source = Source[p] /\ bundle = Bundle[p]
    OBVIOUS
  <2> HIDE DEF source, bundle
  <2>4. Fresh \in Instances
    BY FreshIsFresh
  <2>5. e \in Processes
    BY <2>2, <2>4, Zenon DEF Launched, Processes
  <2>6. e.source = source /\ e.bundle = bundle /\ e.instance = Fresh
    BY DEF Launched
  <2>7. e # NoProcess
    BY <2>6, FreshIsFresh, Nothing
  <2> QED BY <1>2, <2>1, <2>3, <2>5, <2>6, <2>7, FreshIsFresh
<1> QED BY <1>1, <1>2

-----------------------------------------------------------------------------
(* The fields that an action leaves in the load and the runtime manager.   *)

LoadIs(pc, gate, existing, replaced, trial, ran, deferred) ==
  /\ load' \in Loads
  /\ load'.pc = pc /\ load'.gate = gate /\ load'.existing = existing /\ load'.replaced = replaced
  /\ load'.trial = trial /\ load'.ran = ran /\ load'.deferred = deferred
  /\ load'.code = load.code /\ load'.pair = load.pair /\ load'.previous = load.previous

Goes(pc) == LoadIs(pc, load.gate, load.existing, load.replaced, load.trial, load.ran, load.deferred)

ManagerIs(attached, override, retry) ==
  m' \in Runtimes /\ m'.attached = attached /\ m'.override = override /\ m'.retry = retry

Points == {"off", "checking", "attaching", "admitting", "committing", "starting", "proving", "promoting",
           "sealing", "stopping", "restoring", "discarding", "reporting", "loaded"}

LEMMA GotoIs ==
  ASSUME TypeOK, NEW pc \in Points, Goto(pc)
  PROVE  Goes(pc)
<1>1. load \in Loads /\ load' = [load EXCEPT !.pc = pc]
  BY DEF TypeOK, Goto
<1> QED BY <1>1, Zenon DEF Goes, LoadIs, Loads, Points

LEMMA FailIs ==
  ASSUME TypeOK, Fail
  PROVE  Goes(IF load.replaced THEN "stopping" ELSE "discarding")
<1>1. (IF load.replaced THEN "stopping" ELSE "discarding") \in Points
  BY DEF Points
<1> QED BY <1>1, GotoIs DEF Fail

LEMMA ManagerDoes ==
  ASSUME TypeOK
  PROVE  /\ \A a \in BOOLEAN, r \in BOOLEAN :
              m' = [m EXCEPT !.attached = a, !.retry = r] => ManagerIs(a, m.override, r)
         /\ \A a \in BOOLEAN : m' = [m EXCEPT !.attached = a] => ManagerIs(a, m.override, m.retry)
         /\ \A r \in BOOLEAN : m' = [m EXCEPT !.retry = r] => ManagerIs(m.attached, m.override, r)
         /\ \A o \in Pairs \cup {None} :
              m' = [m EXCEPT !.override = o] => ManagerIs(m.attached, o, m.retry)
         /\ \A a \in BOOLEAN, o \in Pairs \cup {None} :
              m' = [m EXCEPT !.attached = a, !.override = o] => ManagerIs(a, o, m.retry)
<1>1. m \in Runtimes
  BY DEF TypeOK
<1> QED BY <1>1, Zenon DEF Runtimes, ManagerIs

-----------------------------------------------------------------------------
(* Every action preserves the invariant.                                   *)

LEMMA InitInv == Init => Inv
<1> SUFFICES ASSUME Init PROVE Inv
  OBVIOUS
<1>1. /\ pending = None /\ current = NoReceipt /\ installed = None /\ m = NoRuntime /\ load = NoLoad
      /\ mishap = {} /\ cache = [b \in Bundles |-> "absent"]
      /\ proc \in {NoProcess, [source |-> Configured, bundle |-> Configured, instance |-> 1, owned |-> FALSE]}
  BY DEF Init
<1>2. proc \in Processes /\ ~proc.owned /\ (Running => proc.instance # 0)
  <2>1. 1 \in Instances /\ 1 # 0
    BY DEF Instances
  <2> DEFINE c == [source |-> Configured, bundle |-> Configured, instance |-> 1, owned |-> FALSE]
  <2>2. c \in Processes
    BY <2>1, Zenon DEF Processes
  <2>3. ~c.owned /\ c.instance # 0
    BY <2>1
  <2> QED BY <1>1, <2>2, <2>3, Nothing DEF Running
<1>3. TypeOK
  BY <1>1, <1>2, Nothing DEF TypeOK
<1>4. Stable /\ Identified
  BY <1>1, <1>2, Nothing DEF Stable, Identified, Adopting, Named
<1>5. Tried /\ Proven
  BY <1>1, <1>2, Nothing DEF Tried, Proven
<1>6. Unspoilt /\ Unmixed
  BY <1>1, <1>2, Nothing DEF Unspoilt, Unmixed, Adopting, Named
<1> QED BY <1>3, <1>4, <1>5, <1>6 DEF Inv

LEMMA StageKeeps == ASSUME Inv, NEW p \in Pairs, Stage(p) PROVE Inv'
<1>0. TypeOK
  BY DEF Inv
<1>1. UNCHANGED <<current, cache, proc, m, load, mishap>>
      /\ ~Adopting /\ pending' \in Pairs /\ installed' \in Connectors
  BY DEF Stage, Adopting, Connectors
<1>2. TypeOK'
  BY <1>0, <1>1 DEF TypeOK, Running
<1>3. Stable'
  BY <1>0, <1>1 DEF Inv, Stable, Adopting, Named
<1>4. Identified'
  BY <1>0, <1>1 DEF Inv, Identified, Running
<1>5. Tried'
  BY <1>0, <1>1 DEF Inv, Tried, NeedsReplacement, Running
<1>6. Proven'
  BY <1>0, <1>1 DEF Inv, Proven
<1>7. mishap' = {} => Unspoilt' /\ Unmixed'
  BY <1>0, <1>1 DEF Inv, Unspoilt, Unmixed, Matching, Adopting, Named
<1> QED BY <1>2, <1>3, <1>4, <1>5, <1>6, <1>7 DEF Inv

LEMMA DamageKeeps == ASSUME Inv, NEW b \in Bundles, Damage(b) PROVE Inv'
<1>0. TypeOK
  BY DEF Inv
<1>1. UNCHANGED <<pending, current, installed, proc, m, load, mishap>>
  BY DEF Damage, disk
<1>2. cache' \in [Bundles -> {"absent", "exact", "changed"}]
  BY <1>0 DEF Damage, TypeOK
<1>3. TypeOK'
  BY <1>0, <1>1, <1>2 DEF TypeOK, Running
<1>4. Stable'
  BY <1>0, <1>1, <1>2 DEF Inv, Stable, Adopting, Named
<1>5. Identified'
  BY <1>0, <1>1, <1>2 DEF Inv, Identified, Running
<1>6. Tried'
  BY <1>0, <1>1, <1>2 DEF Inv, Tried, NeedsReplacement, Running
<1>7. Proven'
  BY <1>0, <1>1, <1>2 DEF Inv, Proven
<1>8. mishap' = {} => Unspoilt' /\ Unmixed'
  BY <1>0, <1>1, <1>2 DEF Inv, Unspoilt, Unmixed, Matching, Adopting, Named
<1> QED BY <1>3, <1>4, <1>5, <1>6, <1>7, <1>8 DEF Inv

LEMMA UnloadKeeps == ASSUME Inv, Unload PROVE Inv'
<1>0. TypeOK
  BY DEF Inv
<1>1. UNCHANGED <<pending, current, installed, cache, mishap>>
  BY DEF Unload, disk
<1>2. load' = NoLoad /\ m' = NoRuntime
  BY DEF Unload
<1>3. /\ proc' \in Processes /\ ~proc'.owned
      /\ proc' = NoProcess \/ (Running /\ proc'.instance = proc.instance /\ proc'.bundle = proc.bundle
                               /\ proc'.source = proc.source)
  <2> DEFINE q == [proc EXCEPT !.owned = FALSE]
  <2>1. /\ q \in Processes /\ ~q.owned /\ q.instance = proc.instance /\ q.bundle = proc.bundle
        /\ q.source = proc.source
    BY <1>0, Zenon DEF TypeOK, Processes
  <2>2. ~Running => q = NoProcess
    <3>1. \A x \in Processes : x.owned = FALSE => [x EXCEPT !.owned = FALSE] = x
      BY Zenon DEF Processes
    <3>2. proc = NoProcess => proc.owned = FALSE
      BY Nothing, Fields
    <3> QED BY <1>0, <3>1, <3>2 DEF Running, TypeOK
  <2>3. proc' \in {NoProcess, q}
    BY DEF Unload
  <2> HIDE DEF q
  <2> QED BY <2>1, <2>2, <2>3, Nothing
<1>4. TypeOK'
  BY <1>0, <1>1, <1>2, <1>3, Nothing DEF TypeOK, Running
<1>5. Stable'
  BY <1>0, <1>1, <1>2, <1>3, Nothing DEF Inv, Stable, Adopting, Named
<1>6. Identified'
  BY <1>0, <1>1, <1>2, <1>3, Nothing DEF Inv, Identified, Running
<1>7. Tried'
  BY <1>0, <1>1, <1>2, <1>3, Nothing DEF Inv, Tried, NeedsReplacement, Running
<1>8. Proven'
  BY <1>0, <1>1, <1>2, <1>3 DEF Inv, Proven
<1>9. mishap' = {} => Unspoilt' /\ Unmixed'
  BY <1>0, <1>1, <1>2, <1>3, Nothing DEF Inv, Unspoilt, Unmixed, Matching, Adopting, Named
<1> QED BY <1>4, <1>5, <1>6, <1>7, <1>8, <1>9 DEF Inv

LEMMA ExitKeeps == ASSUME Inv, Exit PROVE Inv'
<1>0. TypeOK
  BY DEF Inv
<1>1. UNCHANGED <<pending, current, installed, cache, load>>
  BY DEF Exit, disk
<1>2. Running /\ proc' = NoProcess
  BY DEF Exit
<1>3. ManagerIs(FALSE, m.override, m.attached)
  <2>1. m' = [m EXCEPT !.attached = FALSE, !.retry = m.attached]
    BY DEF Exit
  <2>2. m.attached \in BOOLEAN
    BY <1>0, Fields DEF TypeOK
  <2> QED BY <1>0, <2>1, <2>2, ManagerDoes
<1>4. mishap' = IF load.pc = "promoting" \/ (load.pc \in {"starting", "proving"} /\ ~load.replaced)
                   THEN mishap \cup {"exit"} ELSE mishap
  BY DEF Exit
<1>5. TypeOK'
  BY <1>0, <1>1, <1>2, <1>3, <1>4, Nothing DEF TypeOK, Running, ManagerIs
<1>6. Stable'
  BY <1>0, <1>1, <1>2, <1>3, <1>4, Nothing DEF Inv, Stable, Adopting, Named, ManagerIs
<1>7. Identified'
  BY <1>0, <1>1, <1>2, <1>3, <1>4, Nothing DEF Inv, Identified, Running, ManagerIs
<1>8. Tried'
  BY <1>0, <1>1, <1>2, <1>3, <1>4, Nothing DEF Inv, Tried, NeedsReplacement, Running, ManagerIs
<1>9. Proven'
  BY <1>0, <1>1, <1>2, <1>3, <1>4 DEF Inv, Proven, ManagerIs
<1>10. mishap' = {} => Unspoilt' /\ Unmixed'
    BY <1>0, <1>1, <1>2, <1>3, <1>4, Nothing DEF Inv, Unspoilt, Unmixed, Matching, Adopting,
     Named, ManagerIs
<1> QED BY <1>5, <1>6, <1>7, <1>8, <1>9, <1>10 DEF Inv

LEMMA RestartKeeps == ASSUME Inv, Restart \/ Use PROVE Inv'
<1>0. TypeOK
  BY DEF Inv
<1>1. UNCHANGED <<pending, current, installed, cache, load, mishap>>
  BY DEF Restart, Use, disk
<1>2. /\ ~m.attached /\ load.pc \in {"proving", "promoting", "loaded"} /\ load.gate = "open"
      /\ load.pc # "loaded" => m.retry
  BY DEF Restart, Use, Inv, Stable
<1>3. ManagerIs(TRUE, m.override, FALSE)
  BY <1>0, ManagerDoes DEF Restart, Use
<1>4. /\ proc' \in Processes /\ proc' # NoProcess
      /\ \/ proc' = proc /\ Running /\ (m.attached \/ m.override = None \/ proc.source = Source[m.override])
         \/ /\ ~m.attached /\ (m.override = None => ~Running)
            /\ proc'.instance # 0
            /\ proc'.instance \notin {proc.instance, current.instance, load.previous.instance,
                                      load.existing.instance, load.trial}
            /\ m.override # None => proc'.source = Source[m.override] /\ proc'.bundle = Bundle[m.override]
  <2>1. proc' = Ensured(m.override) /\ m.override \in Pairs \cup {None}
    BY <1>0, Fields DEF Restart, Use, TypeOK
  <2> QED BY <1>0, <2>1, EnsuredIs
<1>5. TypeOK'
  BY <1>0, <1>1, <1>2, <1>3, <1>4, Nothing DEF TypeOK, Running, ManagerIs
<1>6. Stable'
  BY <1>0, <1>1, <1>2, <1>3, <1>4, Nothing DEF Inv, Stable, Adopting, Named, ManagerIs
<1>7. Identified'
  BY <1>0, <1>1, <1>2, <1>3, <1>4, Nothing DEF Inv, Identified, Running, ManagerIs
<1>8. Tried'
  BY <1>0, <1>1, <1>2, <1>3, <1>4, Nothing DEF Inv, Tried, NeedsReplacement, Running, ManagerIs
<1>9. Proven'
  BY <1>0, <1>1, <1>2, <1>3, <1>4 DEF Inv, Proven, ManagerIs
<1>10. mishap' = {} => Unspoilt' /\ Unmixed'
    BY <1>0, <1>1, <1>2, <1>3, <1>4, Nothing, ConstantAssumption DEF Inv, Unspoilt, Unmixed,
     Matching, Adopting, Named, Stable, ManagerIs
<1> QED BY <1>5, <1>6, <1>7, <1>8, <1>9, <1>10 DEF Inv

(* A failure undoes an attempt to replace the runtime, and no other.       *)
LEMMA FailKeeps ==
  ASSUME Inv, Fail,
         load.pc \in {"checking", "admitting", "committing", "starting", "proving", "promoting"},
         UNCHANGED <<pending, current, installed, cache, proc, m, mishap>>
  PROVE  Inv'
<1>0. TypeOK
  BY DEF Inv
<1>1. Goes(IF load.replaced THEN "stopping" ELSE "discarding")
  BY <1>0, FailIs
<1>2. TypeOK'
  BY <1>0, <1>1 DEF TypeOK, Running, Goes, LoadIs
<1>3. Stable'
  BY <1>0, <1>1 DEF Inv, Stable, Adopting, Named, Goes, LoadIs
<1>4. Identified'
  BY <1>0, <1>1 DEF Inv, Identified, Running, Goes, LoadIs
<1>5. Tried'
  BY <1>0, <1>1 DEF Inv, Tried, NeedsReplacement, Running, Goes, LoadIs
<1>6. Proven'
  BY <1>0, <1>1 DEF Inv, Proven, Goes, LoadIs
<1>7. mishap' = {} => Unspoilt' /\ Unmixed'
  BY <1>0, <1>1 DEF Inv, Unspoilt, Unmixed, Matching, Adopting, Named, Goes, LoadIs
<1> QED BY <1>2, <1>3, <1>4, <1>5, <1>6, <1>7 DEF Inv

LEMMA LoadKeeps == ASSUME Inv, Load PROVE Inv'
<1>0. TypeOK
  BY DEF Inv
<1>1. UNCHANGED <<pending, current, installed, cache, proc, mishap>> /\ load.pc = "off"
  BY DEF Load, disk
<1>2. /\ load' \in Loads /\ load'.code = installed /\ load'.pair = pending /\ load'.previous = current
      /\ load'.existing = NoProcess /\ ~load'.replaced
      /\ \/ pending # None /\ load'.pc = "checking" /\ UNCHANGED m
         \/ /\ pending = None /\ load'.pc = "loaded" /\ (~Named \/ Verified(current.pair))
            /\ m' = [m EXCEPT !.override = current.pair]
         \/ pending = None /\ load'.pc = "loaded" /\ load'.gate = "blocked" /\ UNCHANGED m
  <2> DEFINE started == [NoLoad EXCEPT !.code = installed, !.pair = pending, !.previous = current]
             c == [started EXCEPT !.pc = "checking"]
             l == [started EXCEPT !.pc = "loaded"]
             b == [started EXCEPT !.pc = "loaded", !.gate = "blocked"]
  <2>1. /\ started \in Loads /\ started.code = installed /\ started.pair = pending
        /\ started.previous = current /\ started.existing = NoLoad.existing
        /\ started.replaced = NoLoad.replaced
    BY <1>0, Nothing, Zenon DEF TypeOK, Loads
  <2>2. \A x \in Loads :
          LET y == [x EXCEPT !.pc = "checking"]
          IN /\ y \in Loads /\ y.pc = "checking" /\ y.code = x.code /\ y.pair = x.pair
             /\ y.previous = x.previous /\ y.existing = x.existing /\ y.replaced = x.replaced
    BY Zenon DEF Loads
  <2>3. \A x \in Loads :
          LET y == [x EXCEPT !.pc = "loaded"]
          IN /\ y \in Loads /\ y.pc = "loaded" /\ y.code = x.code /\ y.pair = x.pair
             /\ y.previous = x.previous /\ y.existing = x.existing /\ y.replaced = x.replaced
    BY Zenon DEF Loads
  <2>4. \A x \in Loads :
          LET y == [x EXCEPT !.pc = "loaded", !.gate = "blocked"]
          IN /\ y \in Loads /\ y.pc = "loaded" /\ y.code = x.code /\ y.pair = x.pair
             /\ y.previous = x.previous /\ y.existing = x.existing /\ y.replaced = x.replaced
             /\ y.gate = "blocked"
    BY Zenon DEF Loads
  <2>5. \/ pending # None /\ load' = c /\ UNCHANGED m
        \/ /\ pending = None /\ load' = l /\ (~Named \/ Verified(current.pair))
           /\ m' = [m EXCEPT !.override = current.pair]
        \/ pending = None /\ load' = b /\ UNCHANGED m
    BY DEF Load, Named
  <2> HIDE DEF started
  <2>6. CASE pending # None /\ load' = c /\ UNCHANGED m
    BY <2>1, <2>2, <2>6, Nothing
  <2>7. CASE /\ pending = None /\ load' = l /\ (~Named \/ Verified(current.pair))
             /\ m' = [m EXCEPT !.override = current.pair]
    BY <2>1, <2>3, <2>7, Nothing
  <2>8. CASE pending = None /\ load' = b /\ UNCHANGED m
    BY <2>1, <2>4, <2>8, Nothing
  <2> QED BY <2>5, <2>6, <2>7, <2>8
<1>3. \/ UNCHANGED m
      \/ ManagerIs(m.attached, current.pair, m.retry)
  <2>1. current.pair \in Pairs \cup {None}
    BY <1>0, Fields DEF TypeOK
  <2> QED BY <1>0, <1>2, <2>1, ManagerDoes
<1>4. TypeOK'
  BY <1>0, <1>1, <1>2, <1>3 DEF TypeOK, Running, ManagerIs
<1>5. Stable'
  BY <1>0, <1>1, <1>2, <1>3 DEF Inv, TypeOK, Stable, Adopting, Named, ManagerIs
<1>6. Identified'
  BY <1>0, <1>1, <1>2, Nothing DEF Inv, Identified, Running
<1>7. Tried' /\ Proven'
  BY <1>0, <1>1, <1>2 DEF Inv, Tried, Proven, Running
<1>8. ASSUME mishap = {} PROVE Unspoilt' /\ Unmixed'
  <2>1. ~proc.owned /\ ~m.attached
    BY <1>1, <1>8 DEF Inv, Unspoilt, Stable
  <2>2. ~m'.attached
    BY <1>3, <2>1 DEF ManagerIs
  <2>3. load'.pc = "loaded" /\ load'.gate = "open" /\ Named =>
          m'.override = current.pair /\ load'.code = Connector[current.pair]
    <3>1. CASE UNCHANGED m /\ load'.gate = "blocked"
      BY <3>1
    <3>2. CASE load'.pc = "checking"
      BY <3>2
    <3>3. CASE (~Named \/ Verified(current.pair)) /\ m' = [m EXCEPT !.override = current.pair]
      <4>1. m'.override = current.pair
        BY <1>0, <3>3, Fields, ManagerDoes DEF TypeOK, ManagerIs
      <4> QED BY <1>2, <3>3, <4>1 DEF Verified
    <3> QED BY <1>2, <3>1, <3>2, <3>3
  <2> QED BY <1>1, <1>2, <2>1, <2>2, <2>3 DEF Unspoilt, Unmixed, Adopting, Named
<1> QED BY <1>1, <1>4, <1>5, <1>6, <1>7, <1>8 DEF Inv

LEMMA CheckKeeps == ASSUME Inv, Check PROVE Inv'
<1>0. TypeOK
  BY DEF Inv
<1>1. CASE Goto("attaching") /\ cache' = [cache EXCEPT ![Bundle[load.pair]] = "exact"]
  <2>1. UNCHANGED <<pending, current, installed, proc, m, mishap>> /\ load.pc = "checking"
    BY DEF Check, disk
  <2>2. Goes("attaching")
    BY <1>0, <1>1, GotoIs, "attaching" \in Points DEF Points
  <2>3. TypeOK'
    BY <1>0, <1>1, <2>1, <2>2 DEF TypeOK, Running, Goes, LoadIs
  <2>4. Stable' /\ Identified'
    BY <1>0, <2>1, <2>2 DEF Inv, Stable, Identified, Adopting, Named, Running, Goes, LoadIs
  <2>5. Tried' /\ Proven'
    BY <2>1, <2>2 DEF Inv, Tried, Proven, Running, Goes, LoadIs
  <2>6. mishap' = {} => Unspoilt' /\ Unmixed'
    BY <2>1, <2>2 DEF Inv, Unspoilt, Unmixed, Adopting, Named, Goes, LoadIs
  <2> QED BY <2>3, <2>4, <2>5, <2>6 DEF Inv
<1>2. CASE Fail /\ UNCHANGED cache
  BY <1>2, FailKeeps DEF Check, disk
<1> QED BY <1>1, <1>2 DEF Check

LEMMA AttachKeeps == ASSUME Inv, Attach PROVE Inv'
<1>0. TypeOK
  BY DEF Inv
<1>1. UNCHANGED <<pending, current, installed, cache, proc>> /\ load.pc = "attaching"
  BY DEF Attach, disk
<1>2. \/ /\ Running /\ UNCHANGED mishap /\ m' = [m EXCEPT !.attached = TRUE]
         /\ load' = [load EXCEPT !.existing = proc, !.replaced = FALSE,
                                 !.pc = IF NeedsReplacement(proc) THEN "admitting" ELSE "starting"]
      \/ /\ m' = [m EXCEPT !.attached = FALSE]
         /\ load' = [load EXCEPT !.existing = NoProcess, !.replaced = TRUE, !.pc = "starting"]
         /\ \/ ~Running /\ UNCHANGED mishap
            \/ mishap' = mishap \cup {"unreached"}
  <2>1. PICK reached \in BOOLEAN :
          LET existing == IF reached THEN proc ELSE NoProcess
          IN /\ IF reached \/ ~Running THEN UNCHANGED mishap ELSE mishap' = mishap \cup {"unreached"}
             /\ m' = [m EXCEPT !.attached = existing # NoProcess]
             /\ load' = [load EXCEPT
                  !.existing = existing,
                  !.replaced = existing = NoProcess,
                  !.pc = IF existing # NoProcess /\ NeedsReplacement(existing) THEN "admitting" ELSE "starting"]
    BY Zenon DEF Attach
  <2>2. CASE reached /\ Running
    <3>1. (proc # NoProcess) = TRUE /\ (proc = NoProcess) = FALSE
      BY <2>2 DEF Running
    <3> QED BY <2>1, <2>2, <3>1
  <2>3. CASE ~(reached /\ Running)
    <3> DEFINE existing == IF reached THEN proc ELSE NoProcess
    <3>1. existing = NoProcess /\ (existing # NoProcess) = FALSE /\ (existing = NoProcess) = TRUE
      BY <2>3 DEF Running
    <3> QED BY <2>1, <2>3, <3>1
  <2> QED BY <2>2, <2>3
<1>3. \/ /\ Running /\ UNCHANGED mishap /\ ManagerIs(TRUE, m.override, m.retry)
         /\ LoadIs(IF NeedsReplacement(proc) THEN "admitting" ELSE "starting", load.gate, proc, FALSE,
                   load.trial, load.ran, load.deferred)
      \/ /\ ManagerIs(FALSE, m.override, m.retry)
         /\ LoadIs("starting", load.gate, NoProcess, TRUE, load.trial, load.ran, load.deferred)
         /\ \/ ~Running /\ UNCHANGED mishap
            \/ mishap' = mishap \cup {"unreached"}
  <2>1. \A existing \in Processes, replaced \in BOOLEAN, pc \in Points :
          load' = [load EXCEPT !.existing = existing, !.replaced = replaced, !.pc = pc] =>
            LoadIs(pc, load.gate, existing, replaced, load.trial, load.ran, load.deferred)
    <3> SUFFICES ASSUME NEW existing \in Processes, NEW replaced \in BOOLEAN, NEW pc \in Points,
                        load' = [load EXCEPT !.existing = existing, !.replaced = replaced, !.pc = pc]
                 PROVE  LoadIs(pc, load.gate, existing, replaced, load.trial, load.ran, load.deferred)
      OBVIOUS
    <3>1. load \in Loads
      BY <1>0 DEF TypeOK
    <3>2. load' \in Loads
      BY <3>1, Zenon DEF Loads, Points
    <3>3. /\ load'.pc = pc /\ load'.gate = load.gate /\ load'.existing = existing
          /\ load'.replaced = replaced /\ load'.trial = load.trial /\ load'.ran = load.ran
      BY <3>1, Zenon DEF Loads
    <3>4. /\ load'.deferred = load.deferred /\ load'.code = load.code /\ load'.pair = load.pair
          /\ load'.previous = load.previous
      BY <3>1, Zenon DEF Loads
    <3> QED BY <3>2, <3>3, <3>4 DEF LoadIs
  <2>2. (IF NeedsReplacement(proc) THEN "admitting" ELSE "starting") \in Points /\ "starting" \in Points
    BY DEF Points
  <2>3. proc \in Processes
    BY <1>0 DEF TypeOK
  <2> QED BY <1>0, <1>2, <2>1, <2>2, <2>3, Nothing, ManagerDoes
<1>4. TypeOK'
  BY <1>0, <1>1, <1>2, <1>3, Nothing DEF TypeOK, Running, LoadIs, ManagerIs
<1>5. Stable'
  BY <1>0, <1>1, <1>2, <1>3, Nothing DEF Inv, Stable, Adopting, Named, LoadIs, ManagerIs
<1>6. Identified'
  BY <1>0, <1>1, <1>2, <1>3, Nothing DEF Inv, Identified, Running, LoadIs, ManagerIs
<1>7. Tried'
    BY <1>0, <1>1, <1>2, <1>3, Nothing DEF Inv, Tried, NeedsReplacement, Running, LoadIs,
     ManagerIs
<1>8. Proven'
  BY <1>0, <1>1, <1>2, <1>3 DEF Inv, Proven, LoadIs, ManagerIs
<1>9. mishap' = {} => Unspoilt' /\ Unmixed'
    BY <1>0, <1>1, <1>2, <1>3, Nothing DEF Inv, Unspoilt, Unmixed, Matching, Adopting, Named,
     Stable, LoadIs, ManagerIs
<1> QED BY <1>4, <1>5, <1>6, <1>7, <1>8, <1>9 DEF Inv

LEMMA AdmitGrantedKeeps ==
  ASSUME Inv, load.pc = "admitting", m.attached,
         load' = [load EXCEPT !.pc = "committing", !.replaced = TRUE]
           \/ load' = [load EXCEPT !.pc = "loaded", !.deferred = TRUE],
         UNCHANGED <<pending, current, installed, cache, proc, m, mishap>>
  PROVE  Inv'
<1>0. TypeOK
  BY DEF Inv
<1>1. \/ LoadIs("committing", load.gate, load.existing, TRUE, load.trial, load.ran, load.deferred)
      \/ LoadIs("loaded", load.gate, load.existing, load.replaced, load.trial, load.ran, TRUE)
  <2>a. CASE load' = [load EXCEPT !.pc = "committing", !.replaced = TRUE]
    <3>1. load' = [load EXCEPT !.pc = "committing", !.replaced = TRUE] /\ load \in Loads
      BY <1>0, <2>a DEF TypeOK
    <3>2. load' \in Loads
      BY <3>1, Zenon DEF Loads
    <3>3. /\ load'.pc = "committing" /\ load'.gate = load.gate /\ load'.existing = load.existing
          /\ load'.replaced = TRUE /\ load'.trial = load.trial /\ load'.ran = load.ran
      BY <3>1, Zenon DEF Loads
    <3>4. /\ load'.deferred = load.deferred /\ load'.code = load.code /\ load'.pair = load.pair
          /\ load'.previous = load.previous
      BY <3>1, Zenon DEF Loads
    <3> QED BY <3>2, <3>3, <3>4 DEF LoadIs
  <2>b. CASE load' = [load EXCEPT !.pc = "loaded", !.deferred = TRUE]
    <3>1. load' = [load EXCEPT !.pc = "loaded", !.deferred = TRUE] /\ load \in Loads
      BY <1>0, <2>b DEF TypeOK
    <3>2. load' \in Loads
      BY <3>1, Zenon DEF Loads
    <3>3. /\ load'.pc = "loaded" /\ load'.gate = load.gate /\ load'.existing = load.existing
          /\ load'.replaced = load.replaced /\ load'.trial = load.trial /\ load'.ran = load.ran
      BY <3>1, Zenon DEF Loads
    <3>4. /\ load'.deferred = TRUE /\ load'.code = load.code /\ load'.pair = load.pair
          /\ load'.previous = load.previous
      BY <3>1, Zenon DEF Loads
    <3> QED BY <3>2, <3>3, <3>4 DEF LoadIs
  <2> QED BY <2>a, <2>b
<1>2. TypeOK'
  BY <1>0, <1>1 DEF TypeOK, Running, LoadIs
<1>3. Stable'
  BY <1>0, <1>1 DEF Inv, Stable, Adopting, Named, LoadIs
<1>4. Identified'
  BY <1>0, <1>1 DEF Inv, Identified, Running, LoadIs
<1>5. Tried'
  BY <1>0, <1>1 DEF Inv, Tried, NeedsReplacement, Running, LoadIs
<1>6. Proven'
  BY <1>0, <1>1 DEF Inv, Proven, LoadIs
<1>7. mishap' = {} => Unspoilt' /\ Unmixed'
  BY <1>0, <1>1 DEF Inv, Unspoilt, Unmixed, Matching, Adopting, Named, LoadIs
<1> QED BY <1>2, <1>3, <1>4, <1>5, <1>6, <1>7 DEF Inv

LEMMA AdmitKeeps == ASSUME Inv, Admit PROVE Inv'
<1>1. CASE Fail
  BY <1>1, FailKeeps DEF Admit, disk
<1>2. CASE ~Fail
  BY <1>2, AdmitGrantedKeeps DEF Admit, disk
<1> QED BY <1>1, <1>2

LEMMA CommitGrantedKeeps ==
  ASSUME Inv, load.pc = "committing", proc' = NoProcess, m' = NoRuntime, Goto("starting"),
         UNCHANGED <<pending, current, installed, cache, mishap>>
  PROVE  Inv'
<1>0. TypeOK
  BY DEF Inv
<1>1. Goes("starting")
  BY <1>0, GotoIs, "starting" \in Points DEF Points
<1>2. TypeOK'
  BY <1>0, <1>1, Nothing DEF TypeOK, Running, Goes, LoadIs
<1>3. Stable'
  BY <1>0, <1>1, Nothing DEF Inv, Stable, Adopting, Named, Goes, LoadIs
<1>4. Identified'
  BY <1>0, <1>1, Nothing DEF Inv, Identified, Running, Goes, LoadIs
<1>5. Tried'
  BY <1>0, <1>1, Nothing DEF Inv, Tried, NeedsReplacement, Running, Stable, Goes, LoadIs
<1>6. Proven'
  BY <1>0, <1>1 DEF Inv, Proven, Goes, LoadIs
<1>7. mishap' = {} => Unspoilt' /\ Unmixed'
    BY <1>0, <1>1, Nothing DEF Inv, Unspoilt, Unmixed, Matching, Adopting, Named, Stable, Goes,
     LoadIs
<1> QED BY <1>2, <1>3, <1>4, <1>5, <1>6, <1>7 DEF Inv

LEMMA CommitKeeps == ASSUME Inv, Commit PROVE Inv'
<1>1. CASE Fail /\ UNCHANGED <<proc, m>>
  BY <1>1, FailKeeps DEF Commit, disk
<1>2. CASE proc' = NoProcess /\ m' = NoRuntime /\ Goto("starting")
  BY <1>2, CommitGrantedKeeps DEF Commit, disk
<1> QED BY <1>1, <1>2 DEF Commit

LEMMA StartedKeeps ==
  ASSUME Inv, load.pc = "starting", proc' = Ensured(load.pair),
         m' = [m EXCEPT !.attached = TRUE, !.retry = FALSE],
         load' = [load EXCEPT !.pc = "proving", !.trial = proc'.instance],
         UNCHANGED <<pending, current, installed, cache, mishap>>
  PROVE  Inv'
<1>0. TypeOK
  BY DEF Inv
<1>1. load.pair \in Pairs /\ None \notin Pairs
  BY ConstantAssumption DEF Inv, Stable, Adopting
<1>2. /\ proc' \in Processes /\ proc' # NoProcess
      /\ \/ proc' = proc /\ Running /\ (m.attached \/ load.pair = None \/ proc.source = Source[load.pair])
         \/ /\ ~m.attached /\ (load.pair = None => ~Running)
            /\ proc'.instance # 0
            /\ proc'.instance \notin {proc.instance, current.instance, load.previous.instance,
                                      load.existing.instance, load.trial}
            /\ load.pair # None => proc'.source = Source[load.pair] /\ proc'.bundle = Bundle[load.pair]
  BY <1>0, <1>1, EnsuredIs
<1>3. LoadIs("proving", load.gate, load.existing, load.replaced, proc'.instance, load.ran, load.deferred)
  <2>1. load' = [load EXCEPT !.pc = "proving", !.trial = proc'.instance] /\ load \in Loads
    BY <1>0 DEF TypeOK
  <2>i. proc'.instance \in Instances
    BY <1>2, Fields
  <2>2. load' \in Loads
    BY <2>1, <2>i, Zenon DEF Loads
  <2>3. /\ load'.pc = "proving" /\ load'.gate = load.gate /\ load'.existing = load.existing
        /\ load'.replaced = load.replaced /\ load'.trial = proc'.instance /\ load'.ran = load.ran
    BY <2>1, Zenon DEF Loads
  <2>4. /\ load'.deferred = load.deferred /\ load'.code = load.code /\ load'.pair = load.pair
        /\ load'.previous = load.previous
    BY <2>1, Zenon DEF Loads
  <2> QED BY <2>2, <2>3, <2>4 DEF LoadIs
<1>4. ManagerIs(TRUE, m.override, FALSE)
  BY <1>0, ManagerDoes
<1>5. TypeOK'
  BY <1>0, <1>1, <1>2, <1>3, <1>4, Nothing DEF TypeOK, Running, LoadIs, ManagerIs
<1>6. Stable'
  BY <1>0, <1>1, <1>2, <1>3, <1>4, Nothing DEF Inv, Stable, Adopting, Named, LoadIs, ManagerIs
<1>7. Identified'
  BY <1>0, <1>1, <1>2, <1>3, <1>4, Nothing DEF Inv, Identified, Running, LoadIs, ManagerIs
<1>8. Tried'
    BY <1>0, <1>1, <1>2, <1>3, <1>4, Nothing, Fields DEF Inv, Tried, NeedsReplacement, Running,
     TypeOK, Stable, Adopting, Identified, Proven, LoadIs, ManagerIs
<1>9. Proven'
  BY <1>0, <1>1, <1>2, <1>3, <1>4 DEF Inv, Proven, LoadIs, ManagerIs
<1>10. mishap' = {} => Unspoilt' /\ Unmixed'
    BY <1>0, <1>1, <1>2, <1>3, <1>4, Nothing DEF Inv, Unspoilt, Unmixed, Matching, Adopting,
     Named, LoadIs, ManagerIs
<1> QED BY <1>5, <1>6, <1>7, <1>8, <1>9, <1>10 DEF Inv

LEMMA StartKeeps == ASSUME Inv, Start PROVE Inv'
<1>1. CASE Fail /\ UNCHANGED <<proc, m>>
  BY <1>1, FailKeeps DEF Start, disk
<1>2. CASE ~(Fail /\ UNCHANGED <<proc, m>>)
  BY <1>2, StartedKeeps DEF Start, disk
<1> QED BY <1>1, <1>2

LEMMA ProvedKeeps ==
  ASSUME Inv, load.pc = "proving", m.attached, proc.instance = load.trial,
         load' = [load EXCEPT !.pc = "promoting", !.ran = proc.bundle],
         UNCHANGED <<pending, current, installed, cache, proc, m, mishap>>
  PROVE  Inv'
<1>0. TypeOK
  BY DEF Inv
<1>1. LoadIs("promoting", load.gate, load.existing, load.replaced, load.trial, proc.bundle, load.deferred)
  <2>1. load' = [load EXCEPT !.pc = "promoting", !.ran = proc.bundle] /\ load \in Loads
    BY <1>0 DEF TypeOK
  <2>i. proc.bundle \in Bundles \cup {Configured, None}
    BY <1>0, Fields DEF TypeOK
  <2>2. load' \in Loads
    BY <2>1, <2>i, Zenon DEF Loads
  <2>3. /\ load'.pc = "promoting" /\ load'.gate = load.gate /\ load'.existing = load.existing
        /\ load'.replaced = load.replaced /\ load'.trial = load.trial /\ load'.ran = proc.bundle
    BY <2>1, Zenon DEF Loads
  <2>4. /\ load'.deferred = load.deferred /\ load'.code = load.code /\ load'.pair = load.pair
        /\ load'.previous = load.previous
    BY <2>1, Zenon DEF Loads
  <2> QED BY <2>2, <2>3, <2>4 DEF LoadIs
<1>2. TypeOK'
  BY <1>0, <1>1 DEF TypeOK, Running, LoadIs
<1>3. Stable'
  BY <1>0, <1>1 DEF Inv, Stable, Adopting, Named, LoadIs
<1>4. Identified'
  BY <1>0, <1>1 DEF Inv, Identified, Running, LoadIs
<1>5. Tried'
  BY <1>0, <1>1 DEF Inv, Tried, NeedsReplacement, Running, TypeOK, LoadIs
<1>6. Proven'
  BY <1>0, <1>1 DEF Inv, Proven, LoadIs
<1>7. mishap' = {} => Unspoilt' /\ Unmixed'
    BY <1>0, <1>1 DEF Inv, Unspoilt, Unmixed, Matching, Adopting, Named, TypeOK, Stable, Tried,
     LoadIs
<1> QED BY <1>2, <1>3, <1>4, <1>5, <1>6, <1>7 DEF Inv

LEMMA ProveKeeps == ASSUME Inv, Prove PROVE Inv'
<1>1. CASE Fail
  BY <1>1, FailKeeps DEF Prove, disk
<1>2. CASE ~Fail
  BY <1>2, ProvedKeeps DEF Prove, disk
<1> QED BY <1>1, <1>2

LEMMA PromotedKeeps ==
  ASSUME Inv, load.pc = "promoting", Verified(load.pair),
         current' = [pair |-> load.pair, instance |-> load.trial, ran |-> load.ran],
         m' = [m EXCEPT !.override = load.pair], Goto("sealing"),
         UNCHANGED <<pending, installed, cache, proc, mishap>>
  PROVE  Inv'
<1>0. TypeOK
  BY DEF Inv
<1>1. load.pair \in Pairs /\ None \notin Pairs
  BY ConstantAssumption DEF Inv, Stable, Adopting
<1>2. /\ current' \in Receipts /\ current'.pair = load.pair /\ current'.instance = load.trial
      /\ current'.ran = load.ran /\ current' # NoReceipt
  <2>1. load.trial \in Instances /\ load.ran \in Bundles \cup {Configured, None}
    BY <1>0, Fields DEF TypeOK
  <2>2. current' \in Receipts
    BY <1>1, <2>1, Zenon DEF Receipts
  <2> QED BY <1>1, <2>2, Nothing
<1>3. Goes("sealing")
  BY <1>0, GotoIs, "sealing" \in Points DEF Points
<1>4. ManagerIs(m.attached, load.pair, m.retry)
  BY <1>0, <1>1, ManagerDoes
<1>5. installed = Connector[load.pair]
  BY DEF Verified
<1>6. TypeOK'
  BY <1>0, <1>1, <1>2, <1>3, <1>4, <1>5, Nothing DEF TypeOK, Running, Goes, LoadIs, ManagerIs
<1>7. Stable'
    BY <1>0, <1>1, <1>2, <1>3, <1>4, <1>5, Nothing DEF Inv, Stable, Adopting, Named, Goes, LoadIs,
     ManagerIs
<1>8. Identified'
    BY <1>0, <1>1, <1>2, <1>3, <1>4, <1>5, Nothing DEF Inv, Identified, Running, Goes, LoadIs,
     ManagerIs
<1>9. Tried'
    BY <1>0, <1>1, <1>2, <1>3, <1>4, <1>5, Nothing DEF Inv, Tried, NeedsReplacement, Running,
     Goes, LoadIs, ManagerIs
<1>10. Proven'
  BY <1>0, <1>1, <1>2, <1>3, <1>4, <1>5 DEF Inv, Proven, Tried, Goes, LoadIs, ManagerIs
<1>11. mishap' = {} => Unspoilt' /\ Unmixed'
    BY <1>0, <1>1, <1>2, <1>3, <1>4, <1>5, Nothing DEF Inv, Unspoilt, Unmixed, Matching, Adopting,
     Named, Stable, Tried, Goes, LoadIs, ManagerIs
<1> QED BY <1>6, <1>7, <1>8, <1>9, <1>10, <1>11 DEF Inv

LEMMA PromoteKeeps == ASSUME Inv, Promote PROVE Inv'
<1>1. CASE Fail /\ UNCHANGED <<current, m>>
  BY <1>1, FailKeeps DEF Promote, disk
<1>2. CASE ~(Fail /\ UNCHANGED <<current, m>>)
  BY <1>2, PromotedKeeps DEF Promote
<1> QED BY <1>1, <1>2

LEMMA BlockedIs ==
  ASSUME TypeOK, load' = [load EXCEPT !.pc = "loaded", !.gate = "blocked"]
  PROVE  LoadIs("loaded", "blocked", load.existing, load.replaced, load.trial, load.ran, load.deferred)
<1>1. load' = [load EXCEPT !.pc = "loaded", !.gate = "blocked"] /\ load \in Loads
  BY DEF TypeOK
<1>2. load' \in Loads
  BY <1>1, Zenon DEF Loads
<1>3. /\ load'.pc = "loaded" /\ load'.gate = "blocked" /\ load'.existing = load.existing
      /\ load'.replaced = load.replaced /\ load'.trial = load.trial /\ load'.ran = load.ran
  BY <1>1, Zenon DEF Loads
<1>4. /\ load'.deferred = load.deferred /\ load'.code = load.code /\ load'.pair = load.pair
      /\ load'.previous = load.previous
  BY <1>1, Zenon DEF Loads
<1> QED BY <1>2, <1>3, <1>4 DEF LoadIs

LEMMA SealKeeps == ASSUME Inv, Seal PROVE Inv'
<1>0. TypeOK
  BY DEF Inv
<1>1. /\ load.pc = "sealing" /\ UNCHANGED <<current, installed, cache, proc, mishap>>
      /\ pending' \in {pending, None}
  BY DEF Seal
<1>2. \/ LoadIs("loaded", load.gate, load.existing, load.replaced, load.trial, load.ran, load.deferred)
         /\ UNCHANGED m
      \/ LoadIs("loaded", "blocked", load.existing, load.replaced, load.trial, load.ran, load.deferred)
         /\ ManagerIs(m.attached, m.override, FALSE)
  <2>a. CASE load' = [load EXCEPT !.pc = "loaded"] /\ UNCHANGED m
    <3>1. "loaded" \in Points
      BY DEF Points
    <3> QED BY <1>0, <2>a, <3>1, GotoIs DEF Goto, Goes
  <2>b. CASE load' = [load EXCEPT !.pc = "loaded", !.gate = "blocked"] /\ m' = [m EXCEPT !.retry = FALSE]
    <3>1. ManagerIs(m.attached, m.override, FALSE)
      BY <1>0, <2>b, ManagerDoes
    <3> QED BY <1>0, <2>b, <3>1, BlockedIs
  <2> QED BY <2>a, <2>b DEF Seal
<1>3. TypeOK'
  BY <1>0, <1>1, <1>2 DEF TypeOK, Running, LoadIs, ManagerIs
<1>4. Stable'
  BY <1>0, <1>1, <1>2 DEF Inv, Stable, Adopting, Named, LoadIs, ManagerIs
<1>5. Identified'
  BY <1>0, <1>1, <1>2 DEF Inv, Identified, Running, LoadIs, ManagerIs
<1>6. Tried'
  BY <1>0, <1>1, <1>2 DEF Inv, Tried, NeedsReplacement, Running, LoadIs, ManagerIs
<1>7. Proven'
  BY <1>0, <1>1, <1>2 DEF Inv, Proven, LoadIs, ManagerIs
<1>8. mishap' = {} => Unspoilt' /\ Unmixed'
  BY <1>0, <1>1, <1>2 DEF Inv, Unspoilt, Unmixed, Matching, Adopting, Named, LoadIs, ManagerIs
<1> QED BY <1>3, <1>4, <1>5, <1>6, <1>7, <1>8 DEF Inv

LEMMA StopKeeps == ASSUME Inv, Stop PROVE Inv'
<1>0. TypeOK
  BY DEF Inv
<1>1. /\ load.pc = "stopping" /\ UNCHANGED <<pending, current, installed, cache, mishap>>
  BY DEF Stop, disk
<1>2. \/ /\ proc' = (IF m.attached THEN NoProcess ELSE proc) /\ ManagerIs(FALSE, m.override, FALSE)
         /\ Goes("restoring")
      \/ /\ m.attached /\ ~proc.owned /\ ManagerIs(m.attached, m.override, FALSE)
         /\ Goes("discarding") /\ UNCHANGED proc
  BY <1>0, GotoIs, ManagerDoes, "restoring" \in Points, "discarding" \in Points, Fields DEF Stop, Points, TypeOK
<1>3. TypeOK'
  BY <1>0, <1>1, <1>2, Nothing DEF TypeOK, Running, Goes, LoadIs, ManagerIs
<1>4. Stable'
  BY <1>0, <1>1, <1>2, Nothing DEF Inv, Stable, Adopting, Named, Goes, LoadIs, ManagerIs
<1>5. Identified'
  BY <1>0, <1>1, <1>2, Nothing DEF Inv, Identified, Running, Goes, LoadIs, ManagerIs
<1>6. Tried'
    BY <1>0, <1>1, <1>2, Nothing DEF Inv, Tried, NeedsReplacement, Running, Goes, LoadIs,
     ManagerIs
<1>7. Proven'
  BY <1>0, <1>1, <1>2 DEF Inv, Proven, Goes, LoadIs, ManagerIs
<1>8. mishap' = {} => Unspoilt' /\ Unmixed'
    BY <1>0, <1>1, <1>2, Nothing DEF Inv, Unspoilt, Unmixed, Matching, Adopting, Named, Goes,
     LoadIs, ManagerIs
<1> QED BY <1>3, <1>4, <1>5, <1>6, <1>7, <1>8 DEF Inv

LEMMA RestoreKeeps == ASSUME Inv, Restore PROVE Inv'
<1>0. TypeOK
  BY DEF Inv
<1>1. /\ load.pc = "restoring" /\ UNCHANGED <<pending, current, installed, mishap>>
  BY DEF Restore, disk
<1>2. Goes("discarding")
  BY <1>0, GotoIs, "discarding" \in Points DEF Restore, Points
<1>3. \/ /\ Restorable /\ cache' = [cache EXCEPT ![Bundle[load.previous.pair]] = "exact"]
         /\ proc' = Ensured(load.previous.pair)
         /\ m' = [m EXCEPT !.attached = TRUE, !.override = load.previous.pair]
      \/ UNCHANGED <<cache, proc, m>>
  BY DEF Restore
<1>4. \/ /\ Named /\ current.pair \in Pairs /\ None \notin Pairs /\ installed = Connector[current.pair]
         /\ cache' \in [Bundles -> {"absent", "exact", "changed"}]
         /\ proc' = Ensured(current.pair) /\ ManagerIs(TRUE, current.pair, m.retry)
      \/ UNCHANGED <<cache, proc, m>>
  <2>1. load.previous = current /\ (Named => current.pair \in Pairs)
    BY <1>1 DEF Inv, Stable, Adopting
  <2>2. CASE /\ Restorable /\ cache' = [cache EXCEPT ![Bundle[load.previous.pair]] = "exact"]
             /\ proc' = Ensured(load.previous.pair)
             /\ m' = [m EXCEPT !.attached = TRUE, !.override = load.previous.pair]
    <3>1. Named /\ current.pair \in Pairs /\ installed = Connector[current.pair]
      BY <2>1, <2>2 DEF Restorable, Named
    <3>2. ManagerIs(TRUE, current.pair, m.retry)
      BY <1>0, <2>1, <2>2, <3>1, ManagerDoes
    <3>3. cache' \in [Bundles -> {"absent", "exact", "changed"}]
      BY <1>0, <2>2 DEF TypeOK
    <3> QED BY <2>1, <2>2, <3>1, <3>2, <3>3, ConstantAssumption
  <2> QED BY <1>3, <2>2
<1>5. \/ /\ Named /\ installed = Connector[current.pair]
         /\ cache' \in [Bundles -> {"absent", "exact", "changed"}] /\ ManagerIs(TRUE, current.pair, m.retry)
         /\ proc' \in Processes /\ proc' # NoProcess
         /\ \/ proc' = proc /\ Running /\ (m.attached \/ proc.source = Source[current.pair])
            \/ /\ proc'.instance # 0
               /\ proc'.instance \notin {proc.instance, current.instance, load.previous.instance,
                                         load.existing.instance, load.trial}
               /\ proc'.source = Source[current.pair]
      \/ UNCHANGED <<cache, proc, m>>
  <2>1. CASE /\ Named /\ current.pair \in Pairs /\ None \notin Pairs /\ installed = Connector[current.pair]
             /\ cache' \in [Bundles -> {"absent", "exact", "changed"}]
             /\ proc' = Ensured(current.pair) /\ ManagerIs(TRUE, current.pair, m.retry)
    <3>1. current.pair # None
      BY <2>1
    <3> QED BY <1>0, <2>1, <3>1, EnsuredIs
  <2> QED BY <1>4, <2>1
<1>6. TypeOK'
  BY <1>0, <1>1, <1>2, <1>3, <1>4, <1>5, Nothing DEF TypeOK, Running, Goes, LoadIs, ManagerIs
<1>7. Stable'
    BY <1>0, <1>1, <1>2, <1>3, <1>4, <1>5, Nothing DEF Inv, Stable, Adopting, Named, Goes, LoadIs,
     ManagerIs
<1>8. Identified'
    BY <1>0, <1>1, <1>2, <1>3, <1>4, <1>5, Nothing DEF Inv, Identified, Running, Goes, LoadIs,
     ManagerIs
<1>9. Tried'
    BY <1>0, <1>1, <1>2, <1>3, <1>4, <1>5, Nothing DEF Inv, Tried, NeedsReplacement, Running,
     Goes, LoadIs, ManagerIs
<1>10. Proven'
  BY <1>0, <1>1, <1>2, <1>3, <1>4, <1>5 DEF Inv, Proven, Goes, LoadIs, ManagerIs
<1>11. mishap' = {} => Unspoilt' /\ Unmixed'
    BY <1>0, <1>1, <1>2, <1>3, <1>4, <1>5, Nothing DEF Inv, Unspoilt, Unmixed, Matching, Adopting,
     Named, Stable, Goes, LoadIs, ManagerIs
<1> QED BY <1>6, <1>7, <1>8, <1>9, <1>10, <1>11 DEF Inv

LEMMA DiscardKeeps == ASSUME Inv, Discard PROVE Inv'
<1>0. TypeOK
  BY DEF Inv
<1>1. /\ load.pc = "discarding" /\ UNCHANGED <<current, installed, cache, proc, m, mishap>>
      /\ pending' \in {pending, None}
  BY DEF Discard
<1>2. Goes("reporting")
  BY <1>0, GotoIs, "reporting" \in Points DEF Discard, Points
<1>3. TypeOK'
  BY <1>0, <1>1, <1>2 DEF TypeOK, Running, Goes, LoadIs
<1>4. Stable'
  BY <1>0, <1>1, <1>2 DEF Inv, Stable, Adopting, Named, Goes, LoadIs
<1>5. Identified'
  BY <1>0, <1>1, <1>2 DEF Inv, Identified, Running, Goes, LoadIs
<1>6. Tried'
  BY <1>0, <1>1, <1>2 DEF Inv, Tried, NeedsReplacement, Running, Goes, LoadIs
<1>7. Proven'
  BY <1>0, <1>1, <1>2 DEF Inv, Proven, Goes, LoadIs
<1>8. mishap' = {} => Unspoilt' /\ Unmixed'
  BY <1>0, <1>1, <1>2 DEF Inv, Unspoilt, Unmixed, Matching, Adopting, Named, Goes, LoadIs
<1> QED BY <1>3, <1>4, <1>5, <1>6, <1>7, <1>8 DEF Inv

LEMMA ReportKeeps == ASSUME Inv, Report PROVE Inv'
<1>0. TypeOK
  BY DEF Inv
<1>1. /\ load.pc = "reporting" /\ UNCHANGED <<pending, current, installed, cache, proc, mishap>>
  BY DEF Report, disk
<1>2. LoadIs("loaded", "blocked", load.existing, load.replaced, load.trial, load.ran, load.deferred)
  BY <1>0, BlockedIs DEF Report
<1>3. ManagerIs(m.attached, m.override, FALSE)
  BY <1>0, ManagerDoes DEF Report
<1>4. TypeOK'
  BY <1>0, <1>1, <1>2, <1>3 DEF TypeOK, Running, LoadIs, ManagerIs
<1>5. Stable'
  BY <1>0, <1>1, <1>2, <1>3 DEF Inv, Stable, Adopting, Named, LoadIs, ManagerIs
<1>6. Identified'
  BY <1>0, <1>1, <1>2, <1>3 DEF Inv, Identified, Running, LoadIs, ManagerIs
<1>7. Tried'
  BY <1>0, <1>1, <1>2, <1>3 DEF Inv, Tried, NeedsReplacement, Running, LoadIs, ManagerIs
<1>8. Proven'
  BY <1>0, <1>1, <1>2, <1>3 DEF Inv, Proven, LoadIs, ManagerIs
<1>9. mishap' = {} => Unspoilt' /\ Unmixed'
    BY <1>0, <1>1, <1>2, <1>3 DEF Inv, Unspoilt, Unmixed, Matching, Adopting, Named, LoadIs,
     ManagerIs
<1> QED BY <1>4, <1>5, <1>6, <1>7, <1>8, <1>9 DEF Inv

LEMMA NextInv == Inv /\ [Next]_vars => Inv'
<1> SUFFICES ASSUME Inv, [Next]_vars PROVE Inv'
  OBVIOUS
<1>1. CASE (\E p \in Pairs : Stage(p)) \/ (\E b \in Bundles : Damage(b))
  BY <1>1, StageKeeps, DamageKeeps
<1>2. CASE Unload \/ Exit \/ Restart \/ Use \/ Load
  BY <1>2, UnloadKeeps, ExitKeeps, RestartKeeps, LoadKeeps
<1>3. CASE Check \/ Attach \/ Admit \/ Commit \/ Start \/ Prove \/ Promote \/ Seal
  BY <1>3, CheckKeeps, AttachKeeps, AdmitKeeps, CommitKeeps, StartKeeps, ProveKeeps, PromoteKeeps, SealKeeps
<1>4. CASE Stop \/ Restore \/ Discard \/ Report
  BY <1>4, StopKeeps, RestoreKeeps, DiscardKeeps, ReportKeeps
<1>5. CASE UNCHANGED vars
  <2>1. UNCHANGED <<pending, current, installed, cache, proc, m, load, mishap>>
    BY <1>5 DEF vars
  <2>2. TypeOK' /\ Stable' /\ Identified'
    BY <2>1 DEF Inv, TypeOK, Stable, Identified, Running, Adopting, Named
  <2>3. Tried' /\ Proven'
    BY <2>1 DEF Inv, Tried, Proven, Running, NeedsReplacement
  <2>4. mishap' = {} => Unspoilt' /\ Unmixed'
    BY <2>1 DEF Inv, Unspoilt, Unmixed, Matching, Adopting, Named
  <2> QED BY <2>2, <2>3, <2>4 DEF Inv
<1> QED BY <1>1, <1>2, <1>3, <1>4, <1>5 DEF Next, Adopt

(* Every reachable state satisfies the inductive invariant.                *)
THEOREM InvAlways == Spec => []Inv
BY InitInv, NextInv, PTL DEF Spec

(* A current receipt names the bundle that its instance really ran: the    *)
(* coordinator proves the trial process, not whatever answers.             *)
THEOREM ProvenAlways == Spec => []Proven
<1>1. Inv => Proven
  BY DEF Inv
<1> QED BY <1>1, InvAlways, PTL

(* There is no mixed pair: after an adoption, whatever became of it, the   *)
(* runtime that the plugin uses and its own code are one pair's.           *)
THEOREM SoundAlways == Spec => []Sound
<1>1. Inv => Sound
  BY DEF Inv, Sound, Unmixed
<1> QED BY <1>1, InvAlways, PTL

=============================================================================
