------------------------ MODULE RuntimeUpdate_proofs -------------------------
(* Proofs about RuntimeUpdate, for all views and bounds.                   *)
EXTENDS RuntimeUpdate, TLAPS

-----------------------------------------------------------------------------
(* The inductive invariant.                                                *)

(* Nobody has been given the runtime, or will be without being asked.      *)
Nobody == \A c \in Clients : client[c] \notin {"ready", "again"}

(* A recovered package is the only business there is: no installation runs *)
(* and nobody has been accepted yet.                                       *)
Recovered ==
  /\ u.recovered => install.pc = None /\ journal \in {"activated", "finalizing"}
  /\ u.recovered => Nobody
  /\ u.finalizing => u.recovered /\ u.rolling = None
  /\ u.rolling # None => u.recovered
  /\ u.pending => u.recovered \/ install.pc = "starting"

(* The pointer follows the journal, and an installation begins on the old  *)
(* package.                                                                *)
Pointed ==
  /\ journal = "prepared" => active = "old"
  /\ journal \in {"activated", "finalizing"} => active = "new"
  /\ install.pc \in {"staging", "admitting", "committing", "stopping", "preparing"} => active = "old"

(* What is ready is up, and nothing else is started; an installation that  *)
(* starts its package has stopped what was up; the stop before an undoing  *)
(* has cancelled the start that it waits for.                              *)
Stopping ==
  /\ g.ready => g.up # None /\ g.start = None
  /\ install.pc \in {"preparing", "starting"} => g.ready \/ g.up = None
  /\ u.rolling = "stopping" => "recovery" \in g.stops
  /\ install.pc = "unwinding" => "install" \in g.stops
  /\ ~g.stray /\ g.start # None =>
       /\ u.rolling = "stopping" => ~g.live /\ "recovery" \in g.draining
       /\ install.pc = "unwinding" => ~g.live /\ "install" \in g.draining

(* What is up is what the pointer selects, and so is what comes up, unless *)
(* it will be activated; while a package is undone nothing is.             *)
Selected ==
  /\ g.up \in {None, active}
  /\ g.start \in {None, active} \/ (g.start = "new" /\ journal = "prepared")
  /\ u.rolling = "undoing" \/ install.pc = "undoing" => g.up = None /\ g.start = None

Inv ==
  /\ TypeOK /\ LeaseReturned /\ Recovered /\ Pointed /\ Stopping
  /\ ~g.stray => Selected

-----------------------------------------------------------------------------
(* What the operators do to the records.                                   *)

Points == {"idle", "starting", "finalizing", "waiting", "rolling", "again", "ready", "failed"}

LEMMA Fields ==
  /\ \A h \in Managers : /\ h.up \in Packages \cup {None} /\ h.start \in Packages \cup {None}
                         /\ h.live \in BOOLEAN /\ h.stops \in SUBSET {"install", "recovery"}
                         /\ h.ready \in BOOLEAN /\ h.stray \in BOOLEAN
                         /\ h.draining \in SUBSET {"install", "recovery"}
  /\ \A v \in Updaters : /\ v.pending \in BOOLEAN /\ v.recovered \in BOOLEAN /\ v.finalizing \in BOOLEAN
                         /\ v.rolling \in {None, "stopping", "undoing"}
BY DEF Managers, Updaters

(* h with an attempt to run `package`, unless it is ready or starting      *)
Ensured(r, h, package) ==
  /\ r \in Managers /\ r.up = h.up /\ r.ready = h.ready /\ r.stops = h.stops
  /\ r.draining = h.draining /\ r.stray = h.stray
  /\ IF h.ready \/ h.start # None THEN r.start = h.start /\ r.live = h.live
                                 ELSE r.start = package /\ r.live

(* h while it stops for `who`, waiting for its attempt                     *)
Halted(r, h, who) ==
  /\ r \in Managers /\ r.up = h.up /\ ~r.ready /\ r.start = h.start /\ ~r.live
  /\ r.stops = h.stops \cup {who} /\ r.stray = h.stray
  /\ r.draining = IF h.start = None THEN h.draining ELSE h.draining \cup {who}

(* h once it has stopped for `who`, or has failed to                       *)
Over(r, h, who) ==
  /\ r \in Managers /\ r.up = None /\ ~r.ready /\ r.start = h.start /\ r.live = h.live
  /\ r.stops = h.stops \ {who} /\ r.draining = h.draining /\ r.stray = h.stray
Unstopped(r, h, who) ==
  /\ r \in Managers /\ r.up = h.up /\ r.ready = h.ready /\ r.start = h.start /\ r.live = h.live
  /\ r.stops = h.stops \ {who} /\ r.draining = h.draining /\ r.stray = h.stray

LEMMA EnsureReadyDoes ==
  ASSUME NEW h \in Managers, NEW package \in Packages
  PROVE  Ensured(EnsureReady(h, package), h, package)
<1>1. CASE h.ready \/ h.start # None
  BY <1>1 DEF EnsureReady, Ensured
<1>2. CASE ~(h.ready \/ h.start # None)
  <2> DEFINE r == [h EXCEPT !.start = package, !.live = TRUE]
  <2>1. /\ r \in Managers /\ r.up = h.up /\ r.ready = h.ready /\ r.stops = h.stops
        /\ r.draining = h.draining /\ r.stray = h.stray /\ r.start = package /\ r.live
    BY Zenon DEF Managers
  <2> QED BY <2>1, <1>2 DEF EnsureReady, Ensured
<1> QED BY <1>1, <1>2

LEMMA StopDoes ==
  ASSUME NEW h \in Managers, NEW who \in {"install", "recovery"}
  PROVE  Halted(Stop(h, who), h, who)
<1> DEFINE d == IF h.start = None THEN h.draining ELSE h.draining \cup {who}
<1>1. h.stops \cup {who} \in SUBSET {"install", "recovery"} /\ d \in SUBSET {"install", "recovery"}
  BY Fields
<1>2. Stop(h, who) = [h EXCEPT !.live = FALSE, !.ready = FALSE, !.stops = h.stops \cup {who}, !.draining = d]
  BY Zenon DEF Stop, Managers
<1> HIDE DEF d
<1>3. LET r == Stop(h, who)
      IN /\ r \in Managers /\ r.up = h.up /\ ~r.ready /\ r.start = h.start /\ ~r.live
         /\ r.stops = h.stops \cup {who} /\ r.stray = h.stray /\ r.draining = d
  BY <1>1, <1>2, Zenon DEF Managers
<1> QED BY <1>3 DEF d, Halted

LEMMA UnstopDoes ==
  ASSUME NEW h \in Managers, NEW who
  PROVE  Unstopped([h EXCEPT !.stops = @ \ {who}], h, who)
<1>1. h.stops \ {who} \in SUBSET {"install", "recovery"}
  BY Fields
<1> QED BY <1>1, Zenon DEF Managers, Unstopped

LEMMA AfterStopDoes ==
  ASSUME g \in Managers, NEW who
  PROVE  Over(AfterStop(who), g, who)
<1>1. g.stops \ {who} \in SUBSET {"install", "recovery"}
  BY Fields
<1> QED BY <1>1, Zenon DEF AfterStop, Managers, Over

LEMMA AskedDoes ==
  ASSUME TypeOK
  PROVE  /\ Asked \in Managers /\ Asked.up = g.up /\ Asked.ready = g.ready /\ Asked.stops = g.stops
         /\ Asked.draining = g.draining
         /\ IF g.ready \/ g.start # None THEN Asked.start = g.start /\ Asked.live = g.live
                                        ELSE Asked.start = active /\ Asked.live
         /\ ~Asked.stray => ~g.stray /\ (g.start # None \/ ~Undoing)
<1> DEFINE b == g.stray \/ (Undoing /\ g.start = None)
<1> DEFINE h == [g EXCEPT !.stray = b]
<1>1. b \in BOOLEAN /\ g \in Managers /\ active \in Packages
  BY Fields DEF TypeOK
<1>2. [g EXCEPT !.stray = @ \/ (Undoing /\ g.start = None)] = h
  BY <1>1, Zenon DEF Managers
<1>3. Asked = EnsureReady(h, active)
  BY <1>2, Zenon DEF Asked
<1> HIDE DEF b
<1>4. /\ h \in Managers /\ h.up = g.up /\ h.ready = g.ready /\ h.start = g.start /\ h.live = g.live
      /\ h.stops = g.stops /\ h.draining = g.draining /\ h.stray = b
  BY <1>1, Zenon DEF Managers
<1> HIDE DEF h
<1>5. Ensured(EnsureReady(h, active), h, active)
  BY <1>1, <1>4, EnsureReadyDoes
<1> QED BY <1>3, <1>4, <1>5 DEF b, Ensured

LEMMA ConcludedDoes ==
  ASSUME NEW h \in Managers
  PROVE  /\ LET r == [h EXCEPT !.up = h.start, !.ready = TRUE, !.start = None]
            IN /\ r \in Managers /\ r.up = h.start /\ r.ready /\ r.start = None /\ r.live = h.live
               /\ r.stops = h.stops /\ r.draining = h.draining /\ r.stray = h.stray
         /\ LET r == [h EXCEPT !.start = None, !.live = FALSE, !.draining = {}]
            IN /\ r \in Managers /\ r.up = h.up /\ r.ready = h.ready /\ r.start = None /\ ~r.live
               /\ r.stops = h.stops /\ r.draining = {} /\ r.stray = h.stray
         /\ LET r == [h EXCEPT !.up = None, !.ready = FALSE]
            IN /\ r \in Managers /\ r.up = None /\ ~r.ready /\ r.start = h.start /\ r.live = h.live
               /\ r.stops = h.stops /\ r.draining = h.draining /\ r.stray = h.stray
         /\ LET r == [h EXCEPT !.live = FALSE, !.ready = FALSE, !.stops = @ \cup {"install"}]
            IN /\ r \in Managers /\ r.up = h.up /\ ~r.ready /\ r.start = h.start /\ ~r.live
               /\ r.stops = h.stops \cup {"install"} /\ r.draining = h.draining /\ r.stray = h.stray
<1>1. h.stops \cup {"install"} \in SUBSET {"install", "recovery"} /\ {} \in SUBSET {"install", "recovery"}
  BY Fields
<1> QED BY <1>1, Zenon DEF Managers

LEMMA UpdaterDoes ==
  ASSUME NEW v \in Updaters
  PROVE  /\ \A r \in {None, "stopping", "undoing"} :
              LET w == [v EXCEPT !.rolling = r]
              IN /\ w \in Updaters /\ w.rolling = r /\ w.pending = v.pending
                 /\ w.recovered = v.recovered /\ w.finalizing = v.finalizing
         /\ \A b \in BOOLEAN :
              LET w == [v EXCEPT !.finalizing = b]
              IN /\ w \in Updaters /\ w.finalizing = b /\ w.pending = v.pending
                 /\ w.recovered = v.recovered /\ w.rolling = v.rolling
         /\ \A b \in BOOLEAN :
              LET w == [v EXCEPT !.pending = b]
              IN /\ w \in Updaters /\ w.pending = b /\ w.finalizing = v.finalizing
                 /\ w.recovered = v.recovered /\ w.rolling = v.rolling
         /\ \A b \in BOOLEAN :
              LET w == [v EXCEPT !.pending = b, !.recovered = FALSE]
              IN /\ w \in Updaters /\ w.pending = b /\ w.finalizing = v.finalizing
                 /\ ~w.recovered /\ w.rolling = v.rolling
BY Zenon DEF Updaters

LEMMA GotoDoes ==
  ASSUME install \in Installs,
         NEW point \in {None, "staging", "admitting", "committing", "stopping", "preparing",
                        "starting", "sealing", "unwinding", "undoing", "restarting"},
         install' = [install EXCEPT !.pc = point]
  PROVE  install' \in Installs /\ install'.pc = point
BY Zenon DEF Installs

LEMMA EndInstallDoes ==
  ASSUME TypeOK, NEW result, EndInstall(result)
  PROVE  /\ install' \in Installs /\ install'.pc = None
         /\ boot' \in {"new", "reattaching", "installing", "waiting", "done"}
<1>1. NoInstall \in Installs /\ NoInstall.pc = None
  BY Zenon DEF NoInstall, Installs
<1> QED BY <1>1 DEF EndInstall, TypeOK

LEMMA FaultDoes ==
  ASSUME TypeOK, Fault \/ UNCHANGED spent
  PROVE  spent' \in [faults : 0..MaxFaults, restarts : 0..MaxRestarts]
<1>1. CASE UNCHANGED spent
  BY <1>1 DEF TypeOK
<1>2. CASE Fault
  <2>1. spent.faults + 1 \in 0..MaxFaults /\ spent.restarts \in 0..MaxRestarts
    BY <1>2, ConstantAssumption DEF Fault, TypeOK
  <2> QED BY <1>2, <2>1 DEF Fault, TypeOK
<1> QED BY <1>1, <1>2

-----------------------------------------------------------------------------
(* What the joins do to the callers, to the updater and to the manager.    *)

LEMMA MovedDoes ==
  ASSUME client \in [Clients -> Points], NEW who, NEW to \in Points, NEW h, Moved(who, to, h)
  PROVE  /\ client' \in [Clients -> Points]
         /\ Nobody /\ to \notin {"ready", "again"} => Nobody'
<1>1. \A c \in Clients : client'[c] \in {to, "failed", "ready", client[c]}
  BY DEF Moved
<1>2. \A c \in Clients : client'[c] \in {to, client[c]} \/ client[c] = "again"
  BY DEF Moved
<1>3. client' \in [Clients -> Points]
  <2>1. client' = [c \in Clients |-> client'[c]]
    BY DEF Moved
  <2>2. \A c \in Clients : client'[c] \in Points
    BY <1>1 DEF Points
  <2> QED BY <2>1, <2>2
<1> QED BY <1>2, <1>3 DEF Nobody

(* A failed request waits for what is in flight, or begins a rollback of   *)
(* the recovered package; it makes nobody ready.                           *)
LEMMA FallBackDoes ==
  ASSUME client \in [Clients -> Points], NEW who, NEW v \in Updaters, NEW h \in Managers,
         FallBack(who, v, h)
  PROVE  /\ client' \in [Clients -> Points] /\ u' \in Updaters /\ g' \in Managers
         /\ Nobody => Nobody'
         /\ u'.pending = v.pending /\ u'.recovered = v.recovered /\ u'.finalizing = v.finalizing
         /\ \/ u'.rolling = v.rolling /\ g' = h
            \/ /\ v.recovered /\ ~v.finalizing /\ v.rolling = None /\ u'.rolling = "stopping"
               /\ Halted(g', h, "recovery")
<1>1. CASE who # {} /\ v.recovered /\ ~v.finalizing /\ v.rolling = None
  <2>1. Moved(who, "rolling", h) /\ u' = [v EXCEPT !.rolling = "stopping"] /\ g' = Stop(h, "recovery")
    BY <1>1 DEF FallBack
  <2>2. client' \in [Clients -> Points] /\ (Nobody => Nobody')
    BY <2>1, MovedDoes, "rolling" \in Points \ {"ready", "again"} DEF Points
  <2>3. /\ u' \in Updaters /\ u'.rolling = "stopping" /\ u'.pending = v.pending
        /\ u'.recovered = v.recovered /\ u'.finalizing = v.finalizing
    BY <2>1, UpdaterDoes
  <2>4. Halted(g', h, "recovery") /\ g' \in Managers
    BY <2>1, StopDoes DEF Halted
  <2> QED BY <1>1, <2>2, <2>3, <2>4
<1>2. CASE ~(who # {} /\ v.recovered /\ ~v.finalizing /\ v.rolling = None)
  <2> DEFINE to == IF v.finalizing THEN "waiting" ELSE IF v.rolling # None THEN "rolling" ELSE "failed"
  <2>1. Moved(who, to, h) /\ u' = v /\ g' = h
    BY <1>2 DEF FallBack
  <2>2. to \in Points \ {"ready", "again"}
    BY DEF Points
  <2> HIDE DEF to
  <2>3. client' \in [Clients -> Points] /\ (Nobody => Nobody')
    BY <2>1, <2>2, MovedDoes
  <2> QED BY <2>1, <2>3
<1> QED BY <1>1, <1>2

(* A request that succeeds is accepted, unless the package is a recovered  *)
(* one: that is finalized first, or falls back.                            *)
LEMMA ConfirmDoes ==
  ASSUME client \in [Clients -> Points], NEW who, NEW v \in Updaters, NEW h \in Managers,
         Confirm(who, v, h)
  PROVE  /\ client' \in [Clients -> Points] /\ u' \in Updaters /\ g' \in Managers
         /\ v.recovered /\ Nobody => Nobody'
         /\ u'.pending = v.pending /\ u'.recovered = v.recovered
         /\ \/ /\ u'.rolling = v.rolling /\ g' = h
               /\ \/ u'.finalizing = v.finalizing
                  \/ v.recovered /\ v.rolling = None
            \/ /\ v.recovered /\ ~v.finalizing /\ v.rolling = None /\ u'.rolling = "stopping"
               /\ u'.finalizing = v.finalizing
               /\ Halted(g', h, "recovery")
<1>1. CASE ~v.recovered
  <2>1. Moved(who, "ready", h) /\ g' = h /\ u' = v
    BY <1>1 DEF Confirm
  <2>2. client' \in [Clients -> Points]
    BY <2>1, MovedDoes, "ready" \in Points DEF Points
  <2> QED BY <1>1, <2>1, <2>2
<1>2. CASE v.recovered /\ (h.up # "new" \/ (v.rolling # None /\ ~v.finalizing))
  <2>1. FallBack(who, v, h)
    BY <1>2 DEF Confirm
  <2> HIDE DEF Nobody
  <2> QED BY <2>1, FallBackDoes, <1>2
<1>3. CASE v.recovered /\ ~(h.up # "new" \/ (v.rolling # None /\ ~v.finalizing))
  <2>1. Moved(who, "finalizing", h) /\ g' = h /\ u' = [v EXCEPT !.finalizing = @ \/ who # {}]
    BY <1>3 DEF Confirm
  <2>2. client' \in [Clients -> Points] /\ (Nobody => Nobody')
    BY <2>1, MovedDoes, "finalizing" \in Points \ {"ready", "again"} DEF Points
  <2>3. CASE v.finalizing
    <3>1. u' = [v EXCEPT !.finalizing = TRUE]
      BY <2>1, <2>3
    <3>2. u' \in Updaters /\ u'.finalizing /\ u'.pending = v.pending
          /\ u'.recovered = v.recovered /\ u'.rolling = v.rolling
      BY <3>1, UpdaterDoes
    <3> QED BY <2>1, <2>2, <2>3, <3>2, Fields
  <2>4. CASE ~v.finalizing
    <3>1. v.rolling = None
      BY <1>3, <2>4
    <3> DEFINE b == who # {}
    <3>2. b \in BOOLEAN /\ v.finalizing = FALSE
      BY <2>4, Fields
    <3>3. u' = [v EXCEPT !.finalizing = b]
      BY <2>1, <3>2
    <3> HIDE DEF b
    <3>4. u' \in Updaters /\ u'.pending = v.pending
          /\ u'.recovered = v.recovered /\ u'.rolling = v.rolling
      BY <3>2, <3>3, Zenon DEF Updaters
    <3> QED BY <1>3, <2>1, <2>2, <3>1, <3>4
  <2> QED BY <2>3, <2>4
<1> QED BY <1>1, <1>2, <1>3

-----------------------------------------------------------------------------
(* Every action preserves the invariant.                                   *)

USE DEF Ensured, Halted, Over, Unstopped

LEMMA InitInv == Init => Inv
<1> SUFFICES ASSUME Init PROVE Inv
  OBVIOUS
<1>1. g \in Managers /\ u \in Updaters /\ install \in Installs
  BY Zenon DEF Init, Idle, NoInstall, Managers, Updaters, Installs
<1>2. spent \in [faults : 0..MaxFaults, restarts : 0..MaxRestarts]
  <2>1. 0 \in 0..MaxFaults /\ 0 \in 0..MaxRestarts
    BY ConstantAssumption
  <2> QED BY <2>1 DEF Init
<1>3. TypeOK
  BY <1>1, <1>2 DEF Init, TypeOK, Packages
<1>4. install.pc = None /\ g.up = None /\ g.start = None /\ ~g.ready
  BY DEF Init, Idle, NoInstall
<1>5. u.rolling = None /\ ~u.pending /\ ~u.recovered /\ ~u.finalizing
  BY DEF Init
<1>6. ~leased /\ journal = None /\ active = "old"
  BY DEF Init
<1>7. None \notin {"prepared", "activated", "finalizing", "undoing", "unwinding", "stopping"}
  BY DEF None
<1>8. LeaseReturned /\ Recovered
  BY <1>4, <1>5, <1>6 DEF LeaseReturned, Recovered
<1>9. Pointed /\ Stopping /\ Selected
  BY <1>4, <1>5, <1>6, <1>7 DEF Pointed, Stopping, Selected
<1> QED
  BY <1>3, <1>8, <1>9 DEF Inv

(* A request: it is confirmed at once, or joins the start.                 *)
LEMMA CallKeeps ==
  ASSUME Inv, NEW c \in Clients, Call(c), UNCHANGED <<journal, active, install, busy, leased, spent>>,
         boot' \in {"new", "reattaching", "installing", "waiting", "done"}
  PROVE  Inv'
<1>0. client \in [Clients -> Points] /\ TypeOK
  BY DEF Inv, TypeOK, Points
<1>1. CASE g.ready
  <2>1. Confirm({c}, u, g)
    BY <1>1 DEF Call
  <2>2. /\ client' \in [Clients -> Points] /\ u' \in Updaters /\ g' \in Managers
        /\ u.recovered /\ Nobody => Nobody'
        /\ u'.pending = u.pending /\ u'.recovered = u.recovered
        /\ \/ /\ u'.rolling = u.rolling /\ g' = g
              /\ \/ u'.finalizing = u.finalizing
                 \/ u.recovered /\ u.rolling = None
           \/ /\ u.recovered /\ ~u.finalizing /\ u.rolling = None /\ u'.rolling = "stopping"
              /\ u'.finalizing = u.finalizing
              /\ Halted(g', g, "recovery")
    BY <1>0, <2>1, ConfirmDoes DEF TypeOK
  <2>3. TypeOK'
    BY <1>0, <2>2 DEF TypeOK, Points
  <2>4. LeaseReturned' /\ Recovered' /\ Pointed'
    BY <2>2 DEF Inv, LeaseReturned, Recovered, Pointed
  <2>5. Stopping'
    BY <1>1, <2>2 DEF Inv, Stopping, Recovered, None
  <2>6. (~g.stray => Selected)'
    BY <1>1, <2>2 DEF Inv, Selected, Stopping
  <2> QED BY <2>3, <2>4, <2>5, <2>6 DEF Inv
<1>2. CASE ~g.ready
  <2>1. Moved({c}, "starting", Asked) /\ g' = Asked /\ u' = u
    BY <1>2 DEF Call
  <2>2. client' \in [Clients -> Points] /\ (Nobody => Nobody')
    BY <1>0, <2>1, MovedDoes, "starting" \in Points \ {"ready", "again"} DEF Points
  <2>3. /\ g' \in Managers /\ g'.up = g.up /\ g'.ready = g.ready /\ g'.stops = g.stops
        /\ g'.draining = g.draining
        /\ IF g.ready \/ g.start # None THEN g'.start = g.start /\ g'.live = g.live
                                       ELSE g'.start = active /\ g'.live
        /\ ~g'.stray => ~g.stray /\ (g.start # None \/ ~Undoing)
    BY <1>0, <2>1, AskedDoes
  <2>4. TypeOK'
    BY <1>0, <2>1, <2>2, <2>3 DEF TypeOK, Points
  <2>5. LeaseReturned' /\ Recovered' /\ Pointed'
    BY <2>1, <2>2 DEF Inv, LeaseReturned, Recovered, Pointed
  <2>6. Stopping'
    BY <1>2, <2>1, <2>3 DEF Inv, Stopping, Undoing, None
  <2>7. (~g.stray => Selected)'
    BY <1>2, <2>1, <2>3 DEF Inv, Selected, Undoing, None
  <2> QED BY <2>4, <2>5, <2>6, <2>7 DEF Inv
<1> QED BY <1>1, <1>2

LEMMA AskKeeps == ASSUME Inv, NEW c \in Views, Ask(c) PROVE Inv'
<1>1. c \in Clients /\ boot \in {"new", "reattaching", "installing", "waiting", "done"}
  BY DEF Clients, Inv, TypeOK
<1> QED BY <1>1, CallKeeps DEF Ask

LEMMA BootStartsKeeps == ASSUME Inv, BootStarts PROVE Inv'
<1>1. Boot \in Clients
  BY DEF Clients
<1> QED BY <1>1, CallKeeps DEF BootStarts

LEMMA RollbackStoppedKeeps == ASSUME Inv, RollbackStopped PROVE Inv'
<1>0. client \in [Clients -> Points] /\ TypeOK
  BY DEF Inv, TypeOK, Points
<1>1. Over(g', g, "recovery")
  BY <1>0, AfterStopDoes DEF RollbackStopped, TypeOK
<1>2. /\ u' \in Updaters /\ u'.rolling = "undoing" /\ u'.pending = u.pending
      /\ u'.recovered = u.recovered /\ u'.finalizing = u.finalizing
  BY <1>0, UpdaterDoes DEF RollbackStopped, TypeOK
<1>3. Nobody => Nobody'
  BY DEF Nobody, RollbackStopped
<1>4. TypeOK'
  BY <1>0, <1>1, <1>2, <1>3 DEF Inv, TypeOK, Points, Packages, Recovered, RollbackStopped
<1>5. LeaseReturned' /\ Recovered'
  BY <1>0, <1>1, <1>2, <1>3 DEF Inv, TypeOK, Packages, None, LeaseReturned, Recovered, Pointed, Stopping, Selected, Stopped, RollbackStopped
<1>6. Pointed' /\ Stopping'
  BY <1>0, <1>1, <1>2, <1>3 DEF Inv, TypeOK, Packages, None, LeaseReturned, Recovered, Pointed, Stopping, Selected, Stopped, RollbackStopped
<1>7. (~g.stray => Selected)'
  BY <1>0, <1>1, <1>2, <1>3 DEF Inv, TypeOK, Packages, None, LeaseReturned, Recovered, Pointed, Stopping, Selected, Stopped, RollbackStopped
<1> QED BY <1>4, <1>5, <1>6, <1>7 DEF Inv

LEMMA RollbackEndsKeeps == ASSUME Inv, RollbackEnds PROVE Inv'
<1>0. client \in [Clients -> Points] /\ TypeOK
  BY DEF Inv, TypeOK, Points
<1>1. Ensured(g', g, "old")
  BY <1>0, EnsureReadyDoes DEF RollbackEnds, TypeOK, Packages
<1>2. /\ u' \in Updaters /\ u'.rolling = None /\ ~u'.pending
      /\ ~u'.recovered /\ u'.finalizing = u.finalizing
  BY <1>0, Zenon DEF RollbackEnds, TypeOK, Updaters
<1>3. client' \in [Clients -> Points]
  BY <1>0, MovedDoes, "again" \in Points, "ready" \in Points DEF RollbackEnds, Points
<1>4. TypeOK'
  BY <1>0, <1>1, <1>2, <1>3 DEF Inv, TypeOK, Points, Packages, Recovered, RollbackEnds
<1>5. LeaseReturned' /\ Recovered'
  BY <1>0, <1>1, <1>2, <1>3 DEF Inv, TypeOK, Packages, None, LeaseReturned, Recovered, Pointed, Stopping, Selected, Stopped, RollbackEnds
<1>6. Pointed' /\ Stopping'
  BY <1>0, <1>1, <1>2, <1>3 DEF Inv, TypeOK, Packages, None, LeaseReturned, Recovered, Pointed, Stopping, Selected, Stopped, RollbackEnds
<1>7. (~g.stray => Selected)'
  BY <1>0, <1>1, <1>2, <1>3 DEF Inv, TypeOK, Packages, None, LeaseReturned, Recovered, Pointed, Stopping, Selected, Stopped, RollbackEnds
<1> QED BY <1>4, <1>5, <1>6, <1>7 DEF Inv

LEMMA RollbackFailsKeeps == ASSUME Inv, RollbackFails PROVE Inv'
<1>0. client \in [Clients -> Points] /\ TypeOK
  BY DEF Inv, TypeOK, Points
<1>1. Unstopped(g', g, "recovery")
  BY <1>0, UnstopDoes DEF RollbackFails, TypeOK
<1>2. /\ u' \in Updaters /\ u'.rolling = None /\ u'.pending = u.pending
      /\ u'.recovered = u.recovered /\ u'.finalizing = u.finalizing
  BY <1>0, UpdaterDoes DEF RollbackFails, TypeOK
<1>3. client' \in [Clients -> Points] /\ (Nobody => Nobody')
  BY <1>0, MovedDoes, "failed" \in Points \ {"ready", "again"} DEF RollbackFails, Points
<1>4. spent' \in [faults : 0..MaxFaults, restarts : 0..MaxRestarts]
  BY <1>0, FaultDoes DEF RollbackFails
<1>5. TypeOK'
  BY <1>0, <1>1, <1>2, <1>3, <1>4 DEF Inv, TypeOK, Points, Packages, Recovered, RollbackFails
<1>6. LeaseReturned' /\ Recovered'
  BY <1>0, <1>1, <1>2, <1>3, <1>4 DEF Inv, TypeOK, Packages, None, LeaseReturned, Recovered, Pointed, Stopping, Selected, Stopped, RollbackFails
<1>7. Pointed' /\ Stopping'
  BY <1>0, <1>1, <1>2, <1>3, <1>4 DEF Inv, TypeOK, Packages, None, LeaseReturned, Recovered, Pointed, Stopping, Selected, Stopped, RollbackFails
<1>8. (~g.stray => Selected)'
  BY <1>0, <1>1, <1>2, <1>3, <1>4 DEF Inv, TypeOK, Packages, None, LeaseReturned, Recovered, Pointed, Stopping, Selected, Stopped, RollbackFails
<1> QED BY <1>5, <1>6, <1>7, <1>8 DEF Inv

LEMMA ActivateKeeps == ASSUME Inv, Activate PROVE Inv'
<1>0. client \in [Clients -> Points] /\ TypeOK
  BY DEF Inv, TypeOK, Points
<1>1. Nobody => Nobody'
  BY DEF Nobody, Activate
<1>2. TypeOK'
  BY <1>0, <1>1 DEF Inv, TypeOK, Points, Packages, Recovered, Activate
<1>3. LeaseReturned' /\ Recovered'
  BY <1>0, <1>1 DEF Inv, TypeOK, Packages, None, LeaseReturned, Recovered, Pointed, Stopping, Selected, Stopped, Activate
<1>4. Pointed' /\ Stopping'
  BY <1>0, <1>1 DEF Inv, TypeOK, Packages, None, LeaseReturned, Recovered, Pointed, Stopping, Selected, Stopped, Activate
<1>5. (~g.stray => Selected)'
  BY <1>0, <1>1 DEF Inv, TypeOK, Packages, None, LeaseReturned, Recovered, Pointed, Stopping, Selected, Stopped, Activate
<1> QED BY <1>2, <1>3, <1>4, <1>5 DEF Inv

LEMMA OfferKeeps == ASSUME Inv, Offer PROVE Inv'
<1>0. client \in [Clients -> Points] /\ TypeOK
  BY DEF Inv, TypeOK, Points
<1>1. install' \in Installs /\ install'.pc = "staging"
  BY Zenon DEF Offer, Installs
<1>2. Nobody => Nobody'
  BY DEF Nobody, Offer
<1>3. TypeOK'
  BY <1>0, <1>1, <1>2 DEF Inv, TypeOK, Points, Packages, Recovered, Offer
<1>4. LeaseReturned' /\ Recovered'
  BY <1>0, <1>1, <1>2 DEF Inv, TypeOK, Packages, None, LeaseReturned, Recovered, Pointed, Stopping, Selected, Stopped, Offer
<1>5. Pointed' /\ Stopping'
  BY <1>0, <1>1, <1>2 DEF Inv, TypeOK, Packages, None, LeaseReturned, Recovered, Pointed, Stopping, Selected, Stopped, Offer
<1>6. (~g.stray => Selected)'
  BY <1>0, <1>1, <1>2 DEF Inv, TypeOK, Packages, None, LeaseReturned, Recovered, Pointed, Stopping, Selected, Stopped, Offer
<1> QED BY <1>3, <1>4, <1>5, <1>6 DEF Inv

LEMMA StageKeeps == ASSUME Inv, Stage PROVE Inv'
<1>0. client \in [Clients -> Points] /\ TypeOK
  BY DEF Inv, TypeOK, Points
<1>1. /\ install' \in Installs /\ install'.pc \in {"admitting", None}
      /\ boot' \in {"new", "reattaching", "installing", "waiting", "done"}
  BY <1>0, GotoDoes, EndInstallDoes DEF Stage, Goto, TypeOK
<1>2. spent' \in [faults : 0..MaxFaults, restarts : 0..MaxRestarts]
  BY <1>0, FaultDoes DEF Stage
<1>3. install.pc = "staging" /\ UNCHANGED <<g, journal, active, u, client, busy, leased>>
  BY DEF Stage
<1>4. Nobody => Nobody'
  BY DEF Nobody, Stage
<1>5. TypeOK'
  BY <1>0, <1>1, <1>2, <1>3, <1>4 DEF Inv, TypeOK, Points, Packages, Recovered
<1>6. LeaseReturned' /\ Recovered'
  BY <1>0, <1>1, <1>2, <1>3, <1>4 DEF Inv, TypeOK, Packages, None, LeaseReturned, Recovered, Pointed, Stopping, Selected, Stopped
<1>7. Pointed' /\ Stopping'
  BY <1>0, <1>1, <1>2, <1>3, <1>4 DEF Inv, TypeOK, Packages, None, LeaseReturned, Recovered, Pointed, Stopping, Selected, Stopped
<1>8. (~g.stray => Selected)'
  BY <1>0, <1>1, <1>2, <1>3, <1>4 DEF Inv, TypeOK, Packages, None, LeaseReturned, Recovered, Pointed, Stopping, Selected, Stopped
<1> QED BY <1>5, <1>6, <1>7, <1>8 DEF Inv

LEMMA AdmitKeeps == ASSUME Inv, Admit PROVE Inv'
<1>0. client \in [Clients -> Points] /\ TypeOK
  BY DEF Inv, TypeOK, Points
<1>1. install.pc = "admitting" /\ UNCHANGED <<journal, active, u, client, busy, spent>>
  BY DEF Admit
<1>2. \/ /\ install' \in Installs /\ install'.pc = None
         /\ boot' \in {"new", "reattaching", "installing", "waiting", "done"} /\ UNCHANGED <<g, leased>>
      \/ /\ install' \in Installs /\ install'.pc = "committing" /\ leased' = TRUE /\ UNCHANGED <<g, boot>>
      \/ /\ install' \in Installs /\ install'.pc = "stopping" /\ g' = Stop(g, "install")
         /\ UNCHANGED <<boot, leased>>
  BY <1>0, GotoDoes, EndInstallDoes DEF Admit, Goto, TypeOK
<1>3. /\ g' \in Managers
      /\ \/ UNCHANGED g
         \/ Halted(g', g, "install")
  BY <1>0, <1>2, StopDoes DEF TypeOK
<1>4. Nobody => Nobody'
  BY DEF Nobody, Admit
<1>5. TypeOK'
  BY <1>0, <1>1, <1>2, <1>3, <1>4 DEF Inv, TypeOK, Points, Packages, Recovered
<1>6. LeaseReturned' /\ Recovered'
  BY <1>0, <1>1, <1>2, <1>3, <1>4 DEF Inv, TypeOK, Packages, None, LeaseReturned, Recovered, Pointed, Stopping, Selected, Stopped
<1>7. Pointed' /\ Stopping'
  BY <1>0, <1>1, <1>2, <1>3, <1>4 DEF Inv, TypeOK, Packages, None, LeaseReturned, Recovered, Pointed, Stopping, Selected, Stopped
<1>8. (~g.stray => Selected)'
  BY <1>0, <1>1, <1>2, <1>3, <1>4 DEF Inv, TypeOK, Packages, None, LeaseReturned, Recovered, Pointed, Stopping, Selected, Stopped
<1> QED BY <1>5, <1>6, <1>7, <1>8 DEF Inv

LEMMA CommitKeeps == ASSUME Inv, Commit PROVE Inv'
<1>0. client \in [Clients -> Points] /\ TypeOK
  BY DEF Inv, TypeOK, Points
<1>1. /\ install.pc = "committing" /\ install' \in Installs
      /\ \/ install'.pc = "preparing" /\ leased' = FALSE /\ g.up = None /\ g' = g
         \/ /\ install'.pc = "stopping" /\ leased' = leased
            /\ g' \in Managers /\ g'.up = g.up /\ ~g'.ready /\ g'.start = g.start /\ ~g'.live
            /\ g'.stops = g.stops \cup {"install"} /\ g'.draining = g.draining /\ g'.stray = g.stray
  <2>1. /\ install.pc = "committing"
        /\ \/ Goto("preparing") /\ leased' = FALSE /\ g.up = None /\ g' = g
           \/ /\ Goto("stopping") /\ leased' = leased
              /\ g' = [g EXCEPT !.live = FALSE, !.ready = FALSE, !.stops = @ \cup {"install"}]
    BY DEF Commit
  <2>2. g \in Managers
    BY <1>0 DEF TypeOK
  <2>3. LET r == [g EXCEPT !.live = FALSE, !.ready = FALSE, !.stops = @ \cup {"install"}]
        IN /\ r \in Managers /\ r.up = g.up /\ ~r.ready /\ r.start = g.start /\ ~r.live
           /\ r.stops = g.stops \cup {"install"} /\ r.draining = g.draining /\ r.stray = g.stray
    BY <2>2, ConcludedDoes
  <2>4. \A p \in {"preparing", "stopping"} : Goto(p) => install' \in Installs /\ install'.pc = p
    BY <1>0, GotoDoes DEF Goto, TypeOK
  <2> QED BY <2>1, <2>3, <2>4
<1>2. UNCHANGED <<journal, active, u, client, boot, busy, spent>>
  BY DEF Commit
<1>3. Nobody => Nobody'
  BY <1>2 DEF Nobody
<1>4. TypeOK'
  BY <1>0, <1>1, <1>2, <1>3 DEF Inv, TypeOK, Points, Packages, Recovered
<1>5. LeaseReturned' /\ Recovered'
  BY <1>0, <1>1, <1>2, <1>3 DEF Inv, TypeOK, LeaseReturned, Recovered, None
<1>6. Pointed' /\ Stopping'
  BY <1>0, <1>1, <1>2, <1>3 DEF Inv, TypeOK, Packages, None, Recovered, Pointed, Stopping
<1>7. (~g.stray => Selected)'
  BY <1>0, <1>1, <1>2, <1>3 DEF Inv, TypeOK, Packages, None, Recovered, Selected
<1> QED BY <1>4, <1>5, <1>6, <1>7 DEF Inv

LEMMA CommitFailsKeeps == ASSUME Inv, CommitFails PROVE Inv'
<1>0. client \in [Clients -> Points] /\ TypeOK
  BY DEF Inv, TypeOK, Points
<1>1. /\ install' \in Installs /\ install'.pc = None
      /\ boot' \in {"new", "reattaching", "installing", "waiting", "done"}
  BY <1>0, EndInstallDoes DEF CommitFails
<1>2. Unstopped(g', g, "install")
  BY <1>0, UnstopDoes DEF CommitFails, TypeOK
<1>3. spent' \in [faults : 0..MaxFaults, restarts : 0..MaxRestarts]
  BY <1>0, FaultDoes DEF CommitFails
<1>4. Nobody => Nobody'
  BY DEF Nobody, CommitFails
<1>5. TypeOK'
  BY <1>0, <1>1, <1>2, <1>3, <1>4 DEF Inv, TypeOK, Points, Packages, Recovered, CommitFails
<1>6. LeaseReturned' /\ Recovered'
  BY <1>0, <1>1, <1>2, <1>3, <1>4 DEF Inv, TypeOK, Packages, None, LeaseReturned, Recovered, Pointed, Stopping, Selected, Stopped, CommitFails
<1>7. Pointed' /\ Stopping'
  BY <1>0, <1>1, <1>2, <1>3, <1>4 DEF Inv, TypeOK, Packages, None, LeaseReturned, Recovered, Pointed, Stopping, Selected, Stopped, CommitFails
<1>8. (~g.stray => Selected)'
  BY <1>0, <1>1, <1>2, <1>3, <1>4 DEF Inv, TypeOK, Packages, None, LeaseReturned, Recovered, Pointed, Stopping, Selected, Stopped, CommitFails
<1> QED BY <1>5, <1>6, <1>7, <1>8 DEF Inv

LEMMA ReadyToPrepareKeeps == ASSUME Inv, ReadyToPrepare PROVE Inv'
<1>0. client \in [Clients -> Points] /\ TypeOK
  BY DEF Inv, TypeOK, Points
<1>1. install' \in Installs /\ install'.pc = "preparing"
  BY <1>0, GotoDoes DEF ReadyToPrepare, Goto, TypeOK
<1>2. Over(g', g, "install")
  BY <1>0, AfterStopDoes DEF ReadyToPrepare, TypeOK
<1>3. Nobody => Nobody'
  BY DEF Nobody, ReadyToPrepare
<1>4. TypeOK'
  BY <1>0, <1>1, <1>2, <1>3 DEF Inv, TypeOK, Points, Packages, Recovered, ReadyToPrepare
<1>5. LeaseReturned' /\ Recovered'
  BY <1>0, <1>1, <1>2, <1>3 DEF Inv, TypeOK, Packages, None, LeaseReturned, Recovered, Pointed, Stopping, Selected, Stopped, ReadyToPrepare
<1>6. Pointed' /\ Stopping'
  BY <1>0, <1>1, <1>2, <1>3 DEF Inv, TypeOK, Packages, None, LeaseReturned, Recovered, Pointed, Stopping, Selected, Stopped, ReadyToPrepare
<1>7. (~g.stray => Selected)'
  BY <1>0, <1>1, <1>2, <1>3 DEF Inv, TypeOK, Packages, None, LeaseReturned, Recovered, Pointed, Stopping, Selected, Stopped, ReadyToPrepare
<1> QED BY <1>4, <1>5, <1>6, <1>7 DEF Inv

LEMMA PrepareKeeps == ASSUME Inv, Prepare PROVE Inv'
<1>0. client \in [Clients -> Points] /\ TypeOK
  BY DEF Inv, TypeOK, Points
<1>1. install' \in Installs /\ install'.pc = IF g.ready THEN "sealing" ELSE "starting"
  BY <1>0, GotoDoes DEF Prepare, Goto, TypeOK
<1>2. Ensured(g', g, "new")
  BY <1>0, EnsureReadyDoes DEF Prepare, TypeOK, Packages
<1>3. /\ u' \in Updaters /\ u'.pending = ~g.ready /\ ~u'.recovered
      /\ u'.rolling = u.rolling /\ u'.finalizing = u.finalizing
  BY <1>0, Zenon DEF Prepare, TypeOK, Updaters
<1>4. Nobody => Nobody'
  BY DEF Nobody, Prepare
<1>5. TypeOK'
  BY <1>0, <1>1, <1>2, <1>3, <1>4 DEF Inv, TypeOK, Points, Packages, Recovered, Prepare
<1>6. LeaseReturned' /\ Recovered'
  BY <1>0, <1>1, <1>2, <1>3, <1>4 DEF Inv, TypeOK, Packages, None, LeaseReturned, Recovered, Pointed, Stopping, Selected, Stopped, Prepare
<1>7. Pointed' /\ Stopping'
  BY <1>0, <1>1, <1>2, <1>3, <1>4 DEF Inv, TypeOK, Packages, None, LeaseReturned, Recovered, Pointed, Stopping, Selected, Stopped, Prepare
<1>8. (~g.stray => Selected)'
  BY <1>0, <1>1, <1>2, <1>3, <1>4 DEF Inv, TypeOK, Packages, None, LeaseReturned, Recovered, Pointed, Stopping, Selected, Stopped, Prepare
<1> QED BY <1>5, <1>6, <1>7, <1>8 DEF Inv

LEMMA PrepareFailsKeeps == ASSUME Inv, PrepareFails PROVE Inv'
<1>0. client \in [Clients -> Points] /\ TypeOK
  BY DEF Inv, TypeOK, Points
<1>1. /\ install' \in Installs /\ install'.pc \in {"restarting", None}
      /\ boot' \in {"new", "reattaching", "installing", "waiting", "done"}
  BY <1>0, GotoDoes, EndInstallDoes DEF PrepareFails, Goto, TypeOK
<1>2. Ensured(g', g, active)
  BY <1>0, EnsureReadyDoes DEF PrepareFails, TypeOK
<1>3. spent' \in [faults : 0..MaxFaults, restarts : 0..MaxRestarts]
  BY <1>0, FaultDoes DEF PrepareFails
<1>4. install.pc = "preparing" /\ UNCHANGED <<journal, active, u, client, busy, leased>>
  BY DEF PrepareFails
<1>5. Nobody => Nobody'
  BY DEF Nobody, PrepareFails
<1>6. TypeOK'
  BY <1>0, <1>1, <1>2, <1>3, <1>4, <1>5 DEF Inv, TypeOK, Points, Packages, Recovered
<1>7. LeaseReturned' /\ Recovered'
  BY <1>0, <1>1, <1>2, <1>3, <1>4, <1>5 DEF Inv, TypeOK, Packages, None, LeaseReturned, Recovered, Pointed, Stopping, Selected, Stopped
<1>8. Pointed' /\ Stopping'
  BY <1>0, <1>1, <1>2, <1>3, <1>4, <1>5 DEF Inv, TypeOK, Packages, None, LeaseReturned, Recovered, Pointed, Stopping, Selected, Stopped
<1>9. (~g.stray => Selected)'
  BY <1>0, <1>1, <1>2, <1>3, <1>4, <1>5 DEF Inv, TypeOK, Packages, None, LeaseReturned, Recovered, Pointed, Stopping, Selected, Stopped
<1> QED BY <1>6, <1>7, <1>8, <1>9 DEF Inv

LEMMA SealKeeps == ASSUME Inv, Seal PROVE Inv'
<1>0. client \in [Clients -> Points] /\ TypeOK
  BY DEF Inv, TypeOK, Points
<1>1. /\ install' \in Installs /\ install'.pc = None
      /\ boot' \in {"new", "reattaching", "installing", "waiting", "done"}
  BY <1>0, EndInstallDoes DEF Seal
<1>2. Nobody => Nobody'
  BY DEF Nobody, Seal
<1>3. TypeOK'
  BY <1>0, <1>1, <1>2 DEF Inv, TypeOK, Points, Packages, Recovered, Seal
<1>4. LeaseReturned' /\ Recovered'
  BY <1>0, <1>1, <1>2 DEF Inv, TypeOK, Packages, None, LeaseReturned, Recovered, Pointed, Stopping, Selected, Stopped, Seal
<1>5. Pointed' /\ Stopping'
  BY <1>0, <1>1, <1>2 DEF Inv, TypeOK, Packages, None, LeaseReturned, Recovered, Pointed, Stopping, Selected, Stopped, Seal
<1>6. (~g.stray => Selected)'
  BY <1>0, <1>1, <1>2 DEF Inv, TypeOK, Packages, None, LeaseReturned, Recovered, Pointed, Stopping, Selected, Stopped, Seal
<1> QED BY <1>3, <1>4, <1>5, <1>6 DEF Inv

LEMMA SealFailsKeeps == ASSUME Inv, SealFails PROVE Inv'
<1>0. client \in [Clients -> Points] /\ TypeOK
  BY DEF Inv, TypeOK, Points
<1>1. install' \in Installs /\ install'.pc = "unwinding"
  BY <1>0, GotoDoes DEF SealFails, Goto, TypeOK
<1>2. Halted(g', g, "install")
  BY <1>0, StopDoes DEF SealFails, TypeOK
<1>3. spent' \in [faults : 0..MaxFaults, restarts : 0..MaxRestarts]
  BY <1>0, FaultDoes DEF SealFails
<1>4. /\ install.pc = "sealing" /\ UNCHANGED <<active, u, client, boot, busy, leased>>
      /\ journal' = journal \/ (journal = "activated" /\ journal' = "finalizing")
  BY DEF SealFails
<1>5. Nobody => Nobody'
  BY DEF Nobody, SealFails
<1>6. TypeOK'
  BY <1>0, <1>1, <1>2, <1>3, <1>4, <1>5 DEF Inv, TypeOK, Points, Packages, Recovered
<1>7. LeaseReturned' /\ Recovered'
  BY <1>0, <1>1, <1>2, <1>3, <1>4, <1>5 DEF Inv, TypeOK, Packages, None, LeaseReturned, Recovered, Pointed, Stopping, Selected, Stopped
<1>8. Pointed' /\ Stopping'
  BY <1>0, <1>1, <1>2, <1>3, <1>4, <1>5 DEF Inv, TypeOK, Packages, None, LeaseReturned, Recovered, Pointed, Stopping, Selected, Stopped
<1>9. (~g.stray => Selected)'
  BY <1>0, <1>1, <1>2, <1>3, <1>4, <1>5 DEF Inv, TypeOK, Packages, None, LeaseReturned, Recovered, Pointed, Stopping, Selected, Stopped
<1> QED BY <1>6, <1>7, <1>8, <1>9 DEF Inv

LEMMA UnwindKeeps == ASSUME Inv, Unwind PROVE Inv'
<1>0. client \in [Clients -> Points] /\ TypeOK
  BY DEF Inv, TypeOK, Points
<1>1. install' \in Installs /\ install'.pc = "undoing"
  BY <1>0, GotoDoes DEF Unwind, Goto, TypeOK
<1>2. Over(g', g, "install")
  BY <1>0, AfterStopDoes DEF Unwind, TypeOK
<1>3. Nobody => Nobody'
  BY DEF Nobody, Unwind
<1>4. TypeOK'
  BY <1>0, <1>1, <1>2, <1>3 DEF Inv, TypeOK, Points, Packages, Recovered, Unwind
<1>5. LeaseReturned' /\ Recovered'
  BY <1>0, <1>1, <1>2, <1>3 DEF Inv, TypeOK, Packages, None, LeaseReturned, Recovered, Pointed, Stopping, Selected, Stopped, Unwind
<1>6. Pointed' /\ Stopping'
  BY <1>0, <1>1, <1>2, <1>3 DEF Inv, TypeOK, Packages, None, LeaseReturned, Recovered, Pointed, Stopping, Selected, Stopped, Unwind
<1>7. (~g.stray => Selected)'
  BY <1>0, <1>1, <1>2, <1>3 DEF Inv, TypeOK, Packages, None, LeaseReturned, Recovered, Pointed, Stopping, Selected, Stopped, Unwind
<1> QED BY <1>4, <1>5, <1>6, <1>7 DEF Inv

LEMMA UndoKeeps == ASSUME Inv, Undo PROVE Inv'
<1>0. client \in [Clients -> Points] /\ TypeOK
  BY DEF Inv, TypeOK, Points
<1>1. /\ install' \in Installs /\ install'.pc \in {"restarting", None}
      /\ boot' \in {"new", "reattaching", "installing", "waiting", "done"}
  BY <1>0, GotoDoes, EndInstallDoes DEF Undo, Goto, TypeOK
<1>2. Ensured(g', g, "old")
  BY <1>0, EnsureReadyDoes DEF Undo, TypeOK, Packages
<1>3. /\ install.pc = "undoing" /\ journal' = None /\ active' = "old"
      /\ UNCHANGED <<u, client, busy, leased, spent>>
  BY DEF Undo
<1>4. Nobody => Nobody'
  BY DEF Nobody, Undo
<1>5. TypeOK'
  BY <1>0, <1>1, <1>2, <1>3, <1>4 DEF Inv, TypeOK, Points, Packages, Recovered
<1>6. LeaseReturned' /\ Recovered'
  BY <1>0, <1>1, <1>2, <1>3, <1>4 DEF Inv, TypeOK, Packages, None, LeaseReturned, Recovered, Pointed, Stopping, Selected, Stopped
<1>7. Pointed' /\ Stopping'
  BY <1>0, <1>1, <1>2, <1>3, <1>4 DEF Inv, TypeOK, Packages, None, LeaseReturned, Recovered, Pointed, Stopping, Selected, Stopped
<1>8. (~g.stray => Selected)'
  BY <1>0, <1>1, <1>2, <1>3, <1>4 DEF Inv, TypeOK, Packages, None, LeaseReturned, Recovered, Pointed, Stopping, Selected, Stopped
<1> QED BY <1>5, <1>6, <1>7, <1>8 DEF Inv

LEMMA UnwindFailsKeeps == ASSUME Inv, UnwindFails PROVE Inv'
<1>0. client \in [Clients -> Points] /\ TypeOK
  BY DEF Inv, TypeOK, Points
<1>1. /\ install' \in Installs /\ install'.pc = None
      /\ boot' \in {"new", "reattaching", "installing", "waiting", "done"}
  BY <1>0, EndInstallDoes DEF UnwindFails
<1>2. Unstopped(g', g, "install")
  BY <1>0, UnstopDoes DEF UnwindFails, TypeOK
<1>3. spent' \in [faults : 0..MaxFaults, restarts : 0..MaxRestarts]
  BY <1>0, FaultDoes DEF UnwindFails
<1>4. install.pc \in {"unwinding", "undoing"} /\ UNCHANGED <<journal, active, u, client, busy, leased>>
  BY DEF UnwindFails
<1>5. Nobody => Nobody'
  BY DEF Nobody, UnwindFails
<1>6. TypeOK'
  BY <1>0, <1>1, <1>2, <1>3, <1>4, <1>5 DEF Inv, TypeOK, Points, Packages, Recovered
<1>7. LeaseReturned' /\ Recovered'
  BY <1>0, <1>1, <1>2, <1>3, <1>4, <1>5 DEF Inv, TypeOK, Packages, None, LeaseReturned, Recovered, Pointed, Stopping, Selected, Stopped
<1>8. Pointed' /\ Stopping'
  BY <1>0, <1>1, <1>2, <1>3, <1>4, <1>5 DEF Inv, TypeOK, Packages, None, LeaseReturned, Recovered, Pointed, Stopping, Selected, Stopped
<1>9. (~g.stray => Selected)'
  BY <1>0, <1>1, <1>2, <1>3, <1>4, <1>5 DEF Inv, TypeOK, Packages, None, LeaseReturned, Recovered, Pointed, Stopping, Selected, Stopped
<1> QED BY <1>6, <1>7, <1>8, <1>9 DEF Inv

LEMMA BootProvisionsKeeps == ASSUME Inv, BootProvisions PROVE Inv'
<1>0. client \in [Clients -> Points] /\ TypeOK
  BY DEF Inv, TypeOK, Points
<1>1. /\ install' \in Installs
      /\ install' = install \/ (active = "old" /\ install.pc = None /\ install'.pc = "staging")
  BY <1>0, Zenon DEF BootProvisions, TypeOK, Installs
<1>2. /\ boot' \in {"done", "installing"} /\ UNCHANGED <<g, journal, active, u, client, busy, leased, spent>>
  BY DEF BootProvisions
<1>3. Nobody => Nobody'
  BY DEF Nobody, BootProvisions
<1>4. TypeOK'
  BY <1>0, <1>1, <1>2, <1>3 DEF Inv, TypeOK, Points, Packages, Recovered
<1>5. LeaseReturned' /\ Recovered'
  BY <1>0, <1>1, <1>2, <1>3 DEF Inv, TypeOK, Packages, None, LeaseReturned, Recovered, Pointed, Stopping, Selected, Stopped
<1>6. Pointed' /\ Stopping'
  BY <1>0, <1>1, <1>2, <1>3 DEF Inv, TypeOK, Packages, None, LeaseReturned, Recovered, Pointed, Stopping, Selected, Stopped
<1>7. (~g.stray => Selected)'
  BY <1>0, <1>1, <1>2, <1>3 DEF Inv, TypeOK, Packages, None, LeaseReturned, Recovered, Pointed, Stopping, Selected, Stopped
<1> QED BY <1>4, <1>5, <1>6, <1>7 DEF Inv

LEMMA RetryKeeps == ASSUME Inv, Retry PROVE Inv'
<1>0. client \in [Clients -> Points] /\ TypeOK
  BY DEF Inv, TypeOK, Points
<1>1. NoInstall \in Installs /\ NoInstall.pc = None
  BY Zenon DEF NoInstall, Installs
<1>2. install = [pc |-> "staging", by |-> Boot] => install.pc = "staging"
  OBVIOUS
<1>3. /\ install' \in Installs
      /\ install' = install \/ (install.pc = "staging" /\ install'.pc = None)
  BY <1>0, <1>1, <1>2, Zenon DEF Retry, TypeOK
<1>4. Nobody => Nobody'
  BY DEF Nobody, Retry
<1>5. TypeOK'
  BY <1>0, <1>1, <1>2, <1>3, <1>4 DEF Inv, TypeOK, Points, Packages, Recovered, Retry
<1>6. LeaseReturned' /\ Recovered'
  BY <1>0, <1>1, <1>2, <1>3, <1>4 DEF Inv, TypeOK, Packages, None, LeaseReturned, Recovered, Pointed, Stopping, Selected, Stopped, Retry
<1>7. Pointed' /\ Stopping'
  BY <1>0, <1>1, <1>2, <1>3, <1>4 DEF Inv, TypeOK, Packages, None, LeaseReturned, Recovered, Pointed, Stopping, Selected, Stopped, Retry
<1>8. (~g.stray => Selected)'
  BY <1>0, <1>1, <1>2, <1>3, <1>4 DEF Inv, TypeOK, Packages, None, LeaseReturned, Recovered, Pointed, Stopping, Selected, Stopped, Retry
<1> QED BY <1>5, <1>6, <1>7, <1>8 DEF Inv

LEMMA WorkKeeps == ASSUME Inv, Work PROVE Inv'
<1>0. client \in [Clients -> Points] /\ TypeOK
  BY DEF Inv, TypeOK, Points
<1>1. Nobody => Nobody'
  BY DEF Nobody, Work
<1>2. TypeOK'
  BY <1>0, <1>1 DEF Inv, TypeOK, Points, Packages, Recovered, Work
<1>3. LeaseReturned' /\ Recovered'
  BY <1>0, <1>1 DEF Inv, TypeOK, Packages, None, LeaseReturned, Recovered, Pointed, Stopping, Selected, Stopped, Work
<1>4. Pointed' /\ Stopping'
  BY <1>0, <1>1 DEF Inv, TypeOK, Packages, None, LeaseReturned, Recovered, Pointed, Stopping, Selected, Stopped, Work
<1>5. (~g.stray => Selected)'
  BY <1>0, <1>1 DEF Inv, TypeOK, Packages, None, LeaseReturned, Recovered, Pointed, Stopping, Selected, Stopped, Work
<1> QED BY <1>2, <1>3, <1>4, <1>5 DEF Inv

LEMMA DieKeeps == ASSUME Inv, Die PROVE Inv'
<1>0. client \in [Clients -> Points] /\ TypeOK
  BY DEF Inv, TypeOK, Points
<1>1. /\ g' \in Managers /\ g'.up = None /\ ~g'.ready /\ g'.start = g.start /\ g'.live = g.live
      /\ g'.stops = g.stops /\ g'.draining = g.draining /\ g'.stray = g.stray
  BY <1>0, ConcludedDoes DEF Die, TypeOK
<1>2. spent' \in [faults : 0..MaxFaults, restarts : 0..MaxRestarts]
  BY <1>0, FaultDoes DEF Die
<1>3. Nobody => Nobody'
  BY DEF Nobody, Die
<1>4. TypeOK'
  BY <1>0, <1>1, <1>2, <1>3 DEF Inv, TypeOK, Points, Packages, Recovered, Die
<1>5. LeaseReturned' /\ Recovered'
  BY <1>0, <1>1, <1>2, <1>3 DEF Inv, TypeOK, Packages, None, LeaseReturned, Recovered, Pointed, Stopping, Selected, Stopped, Die
<1>6. Pointed' /\ Stopping'
  BY <1>0, <1>1, <1>2, <1>3 DEF Inv, TypeOK, Packages, None, LeaseReturned, Recovered, Pointed, Stopping, Selected, Stopped, Die
<1>7. (~g.stray => Selected)'
  BY <1>0, <1>1, <1>2, <1>3 DEF Inv, TypeOK, Packages, None, LeaseReturned, Recovered, Pointed, Stopping, Selected, Stopped, Die
<1> QED BY <1>4, <1>5, <1>6, <1>7 DEF Inv

(* The end of a finalization: it is done, or those who wait fall back.     *)
LEMMA FinalizeEndsKeeps == ASSUME Inv, FinalizeEnds PROVE Inv'
<1>0. client \in [Clients -> Points] /\ TypeOK
  BY DEF Inv, TypeOK, Points
<1>1. u.finalizing /\ UNCHANGED <<active, install, boot, busy, leased>>
  BY DEF FinalizeEnds
<1>2. CASE /\ journal' = None
           /\ u' = [u EXCEPT !.pending = FALSE, !.recovered = FALSE, !.finalizing = FALSE]
           /\ client' = [c \in Clients |-> CASE client[c] = "finalizing" -> "ready"
                                             [] client[c] = "waiting" -> "failed"
                                             [] OTHER -> client[c]]
           /\ UNCHANGED <<g, spent>>
  <2>1. /\ u' \in Updaters /\ ~u'.pending /\ ~u'.recovered /\ ~u'.finalizing /\ u'.rolling = u.rolling
    BY <1>0, <1>2, Zenon DEF TypeOK, Updaters
  <2>2. client' \in [Clients -> Points]
    <3>1. \A c \in Clients : client'[c] \in {"ready", "failed", client[c]}
      BY <1>2
    <3>2. client' = [c \in Clients |-> client'[c]]
      BY <1>2
    <3>3. \A c \in Clients : client'[c] \in Points
      BY <1>0, <3>1 DEF Points
    <3> QED BY <3>2, <3>3
  <2>3. TypeOK'
    BY <1>0, <1>1, <1>2, <2>1, <2>2 DEF TypeOK, Points
  <2>4. LeaseReturned' /\ Recovered'
    BY <1>1, <1>2, <2>1 DEF Inv, LeaseReturned, Recovered
  <2>5. Pointed' /\ Stopping'
    BY <1>1, <1>2, <2>1 DEF Inv, Pointed, Stopping, None, Recovered
  <2>6. (~g.stray => Selected)'
    BY <1>1, <1>2, <2>1 DEF Inv, Selected, None, Recovered
  <2> QED BY <2>3, <2>4, <2>5, <2>6 DEF Inv
<1>3. CASE /\ Fault
           /\ journal' \in {journal, "finalizing"}
           /\ FallBack(At({"finalizing", "waiting"}), [u EXCEPT !.finalizing = FALSE], g)
  <2> DEFINE v == [u EXCEPT !.finalizing = FALSE]
  <2>1. /\ v \in Updaters /\ v.rolling = u.rolling /\ v.pending = u.pending
        /\ v.recovered = u.recovered /\ ~v.finalizing
    BY <1>0, UpdaterDoes DEF TypeOK
  <2> HIDE DEF v
  <2>2. /\ client' \in [Clients -> Points] /\ u' \in Updaters /\ g' \in Managers
        /\ Nobody => Nobody'
        /\ u'.pending = v.pending /\ u'.recovered = v.recovered /\ u'.finalizing = v.finalizing
        /\ \/ u'.rolling = v.rolling /\ g' = g
           \/ /\ v.recovered /\ ~v.finalizing /\ v.rolling = None /\ u'.rolling = "stopping"
              /\ Halted(g', g, "recovery")
    <3>1. FallBack(At({"finalizing", "waiting"}), v, g)
      BY <1>3 DEF v
    <3> HIDE DEF Nobody
    <3> QED BY <1>0, <2>1, <3>1, FallBackDoes DEF TypeOK
  <2>3. spent' \in [faults : 0..MaxFaults, restarts : 0..MaxRestarts]
    BY <1>0, <1>3, FaultDoes
  <2>4. TypeOK'
    BY <1>0, <1>1, <1>3, <2>1, <2>2, <2>3 DEF TypeOK, Points
  <2>5. LeaseReturned' /\ Recovered'
    BY <1>1, <1>3, <2>1, <2>2 DEF Inv, LeaseReturned, Recovered
  <2>6. Pointed' /\ Stopping'
    BY <1>1, <1>3, <2>1, <2>2 DEF Inv, Pointed, Stopping, None, Recovered
  <2>7. (~g.stray => Selected)'
    BY <1>1, <1>3, <2>1, <2>2 DEF Inv, Selected, None, Recovered
  <2> QED BY <2>4, <2>5, <2>6, <2>7 DEF Inv
<1> QED BY <1>2, <1>3 DEF FinalizeEnds

(* The end of a start moves everybody who awaits it, the installer too.     *)
LEMMA StartSucceedsKeeps == ASSUME Inv, StartSucceeds PROVE Inv'
<1> DEFINE h == [g EXCEPT !.up = g.start, !.ready = TRUE, !.start = None]
<1> DEFINE v == Released
<1>0. client \in [Clients -> Points] /\ TypeOK
  BY DEF Inv, TypeOK, Points
<1>1. /\ h \in Managers /\ h.up = g.start /\ h.ready /\ h.start = None /\ h.live = g.live
      /\ h.stops = g.stops /\ h.draining = g.draining /\ h.stray = g.stray
  BY <1>0, ConcludedDoes DEF TypeOK
<1>2. /\ v \in Updaters /\ v.recovered = u.recovered /\ v.finalizing = u.finalizing
      /\ v.rolling = u.rolling
      /\ IF install.pc = "starting" THEN ~v.pending ELSE v.pending = u.pending
  <2>1. CASE install.pc = "starting"
    BY <1>0, <2>1, UpdaterDoes DEF TypeOK, Released
  <2>2. CASE install.pc # "starting"
    BY <1>0, <2>2 DEF TypeOK, Released
  <2> QED BY <2>1, <2>2
<1>3. Confirm(At({"starting"}), v, h)
  BY Zenon DEF StartSucceeds
<1>4. \/ /\ install.pc = "starting" /\ install' \in Installs /\ install'.pc = "sealing"
         /\ UNCHANGED boot
      \/ /\ install.pc = "restarting" /\ install' \in Installs /\ install'.pc = None
         /\ boot' \in {"new", "reattaching", "installing", "waiting", "done"}
      \/ /\ install.pc \notin {"starting", "restarting"} /\ UNCHANGED <<install, boot>>
  BY <1>0, GotoDoes, EndInstallDoes DEF StartSucceeds, TypeOK
<1>5. /\ UNCHANGED <<journal, active, busy, leased, spent>>
      /\ g.start = "new" => journal # "prepared"
      /\ g.start # None /\ g.live
  BY DEF StartSucceeds
<1> HIDE DEF h, v
<1>6. /\ client' \in [Clients -> Points] /\ u' \in Updaters /\ g' \in Managers
      /\ v.recovered /\ Nobody => Nobody'
      /\ u'.pending = v.pending /\ u'.recovered = v.recovered
      /\ \/ /\ u'.rolling = v.rolling /\ g' = h
            /\ \/ u'.finalizing = v.finalizing
               \/ v.recovered /\ v.rolling = None
         \/ /\ v.recovered /\ ~v.finalizing /\ v.rolling = None /\ u'.rolling = "stopping"
            /\ u'.finalizing = v.finalizing
            /\ Halted(g', h, "recovery")
  BY <1>0, <1>1, <1>2, <1>3, ConfirmDoes
<1>7. TypeOK'
  BY <1>0, <1>1, <1>2, <1>4, <1>5, <1>6 DEF Inv, TypeOK, Points, Recovered, None
<1>8. LeaseReturned' /\ Recovered'
  BY <1>0, <1>1, <1>2, <1>4, <1>5, <1>6, Fields DEF Inv, TypeOK, LeaseReturned, Recovered, None
<1>9. Pointed' /\ Stopping'
  BY <1>0, <1>1, <1>2, <1>4, <1>5, <1>6, Fields DEF Inv, TypeOK, Pointed, Stopping, Recovered, None
<1>10. (~g.stray => Selected)'
  BY <1>0, <1>1, <1>2, <1>4, <1>5, <1>6, Fields DEF Inv, TypeOK, Selected, Recovered, Packages, None
<1> QED BY <1>7, <1>8, <1>9, <1>10 DEF Inv

LEMMA StartFailsKeeps == ASSUME Inv, StartFails PROVE Inv'
<1> DEFINE h == IF install.pc = "starting" THEN Stop([g EXCEPT !.start = None, !.live = FALSE, !.draining = {}], "install")
                                    ELSE [g EXCEPT !.start = None, !.live = FALSE, !.draining = {}]
<1> DEFINE v == Released
<1>0. client \in [Clients -> Points] /\ TypeOK
  BY DEF Inv, TypeOK, Points
<1>1. /\ h \in Managers /\ h.up = g.up /\ (h.ready => g.ready) /\ h.start = None /\ ~h.live
      /\ h.stray = g.stray
      /\ IF install.pc = "starting" THEN h.stops = g.stops \cup {"install"} ELSE h.stops = g.stops
  <2> DEFINE k == [g EXCEPT !.start = None, !.live = FALSE, !.draining = {}]
  <2>1. /\ k \in Managers /\ k.up = g.up /\ k.ready = g.ready /\ k.start = None /\ ~k.live
        /\ k.stops = g.stops /\ k.stray = g.stray
    BY <1>0, ConcludedDoes DEF TypeOK
  <2>2. h = IF install.pc = "starting" THEN Stop(k, "install") ELSE k
    OBVIOUS
  <2> HIDE DEF k, h
  <2> QED BY <2>1, <2>2, StopDoes
<1>2. /\ v \in Updaters /\ v.recovered = u.recovered /\ v.finalizing = u.finalizing
      /\ v.rolling = u.rolling
      /\ IF install.pc = "starting" THEN ~v.pending ELSE v.pending = u.pending
  <2>1. CASE install.pc = "starting"
    BY <1>0, <2>1, UpdaterDoes DEF TypeOK, Released
  <2>2. CASE install.pc # "starting"
    BY <1>0, <2>2 DEF TypeOK, Released
  <2> QED BY <2>1, <2>2
<1>3. FallBack(At({"starting"}), v, h)
  BY Zenon DEF StartFails
<1>4. \/ /\ install.pc = "starting" /\ install' \in Installs /\ install'.pc = "unwinding"
         /\ UNCHANGED boot
      \/ /\ install.pc = "restarting" /\ install' \in Installs /\ install'.pc = None
         /\ boot' \in {"new", "reattaching", "installing", "waiting", "done"}
      \/ /\ install.pc \notin {"starting", "restarting"} /\ UNCHANGED <<install, boot>>
  BY <1>0, GotoDoes, EndInstallDoes DEF StartFails, TypeOK
<1>5. UNCHANGED <<journal, active, busy, leased>> /\ g.start # None
      /\ spent' \in [faults : 0..MaxFaults, restarts : 0..MaxRestarts]
  BY <1>0, FaultDoes DEF StartFails
<1> HIDE DEF h, v
<1>6. /\ client' \in [Clients -> Points] /\ u' \in Updaters /\ g' \in Managers
      /\ v.recovered /\ Nobody => Nobody'
      /\ u'.pending = v.pending /\ u'.recovered = v.recovered
      /\ \/ /\ u'.rolling = v.rolling /\ g' = h
            /\ \/ u'.finalizing = v.finalizing
               \/ v.recovered /\ v.rolling = None
         \/ /\ v.recovered /\ ~v.finalizing /\ v.rolling = None /\ u'.rolling = "stopping"
            /\ u'.finalizing = v.finalizing
            /\ Halted(g', h, "recovery")
  <2>1. /\ client' \in [Clients -> Points] /\ u' \in Updaters /\ g' \in Managers
        /\ Nobody => Nobody'
        /\ u'.pending = v.pending /\ u'.recovered = v.recovered /\ u'.finalizing = v.finalizing
        /\ \/ u'.rolling = v.rolling /\ g' = h
           \/ /\ v.recovered /\ ~v.finalizing /\ v.rolling = None /\ u'.rolling = "stopping"
              /\ Halted(g', h, "recovery")
    BY <1>0, <1>1, <1>2, <1>3, FallBackDoes
  <2> QED BY <2>1
<1>7. TypeOK'
  BY <1>0, <1>1, <1>2, <1>4, <1>5, <1>6 DEF Inv, TypeOK, Points, Recovered, None
<1>8. LeaseReturned' /\ Recovered'
  BY <1>0, <1>1, <1>2, <1>4, <1>5, <1>6, Fields DEF Inv, TypeOK, LeaseReturned, Recovered, None
<1>9. Pointed' /\ Stopping'
  BY <1>0, <1>1, <1>2, <1>4, <1>5, <1>6, Fields DEF Inv, TypeOK, Pointed, Stopping, Recovered, None
<1>10. (~g.stray => Selected)'
  BY <1>0, <1>1, <1>2, <1>4, <1>5, <1>6, Fields DEF Inv, TypeOK, Selected, Recovered, Packages, None
<1> QED BY <1>7, <1>8, <1>9, <1>10 DEF Inv

LEMMA RestartKeeps == ASSUME Inv, Restart PROVE Inv'
<1>0. TypeOK
  BY DEF Inv
<1>1. g' \in Managers /\ g'.up = None /\ g'.start = None /\ ~g'.ready
  BY Zenon DEF Restart, Idle, Managers
<1>2. install' \in Installs /\ install'.pc = None
  BY Zenon DEF Restart, NoInstall, Installs
<1> DEFINE kept == journal \in {"activated", "finalizing"}
<1>3. kept \in BOOLEAN
  OBVIOUS
<1>4. u' = [pending |-> kept, recovered |-> kept, finalizing |-> FALSE, rolling |-> None]
  BY DEF Restart
<1>5. journal' = IF kept THEN journal ELSE None
  BY DEF Restart
<1> HIDE DEF kept
<1>6. /\ u' \in Updaters /\ u'.pending = kept /\ u'.recovered = kept /\ u'.finalizing = FALSE
      /\ u'.rolling = None
  BY <1>3, <1>4, Zenon DEF Updaters
<1>7. /\ client' = [c \in Clients |-> "idle"] /\ boot' = "new" /\ leased' = FALSE
      /\ UNCHANGED <<active, busy>>
  BY DEF Restart
<1>8. spent' \in [faults : 0..MaxFaults, restarts : 0..MaxRestarts]
  <2>1. spent.restarts + 1 \in 0..MaxRestarts
    BY <1>0, ConstantAssumption DEF TypeOK, Restart
  <2> QED BY <1>0, <2>1 DEF TypeOK, Restart
<1>9. TypeOK'
  BY <1>0, <1>1, <1>2, <1>5, <1>6, <1>7, <1>8 DEF TypeOK, kept
<1>10. LeaseReturned' /\ Recovered'
  BY <1>2, <1>5, <1>6, <1>7 DEF LeaseReturned, Recovered, Nobody, kept
<1>11. Pointed' /\ Stopping'
  BY <1>0, <1>1, <1>2, <1>5, <1>6, <1>7 DEF Inv, TypeOK, Pointed, Stopping, kept, None
<1>12. Selected'
  BY <1>0, <1>1, <1>2, <1>6, <1>7 DEF TypeOK, Packages, Selected, None
<1> QED BY <1>9, <1>10, <1>11, <1>12 DEF Inv

LEMMA NextInv == Inv /\ [Next]_vars => Inv'
<1> SUFFICES ASSUME Inv, [Next]_vars PROVE Inv'
  OBVIOUS
<1>1. CASE \E c \in Views : Ask(c)
  BY <1>1, AskKeeps
<1>2. CASE FinalizeEnds \/ RollbackStopped \/ RollbackEnds \/ RollbackFails
  BY <1>2, FinalizeEndsKeeps, RollbackStoppedKeeps, RollbackEndsKeeps, RollbackFailsKeeps
<1>3. CASE Activate \/ StartSucceeds \/ StartFails
  BY <1>3, ActivateKeeps, StartSucceedsKeeps, StartFailsKeeps
<1>4. CASE Offer \/ Stage \/ Admit \/ Commit \/ CommitFails \/ ReadyToPrepare
  BY <1>4, OfferKeeps, StageKeeps, AdmitKeeps, CommitKeeps, CommitFailsKeeps, ReadyToPrepareKeeps
<1>5. CASE Prepare \/ PrepareFails \/ Seal \/ SealFails \/ Unwind \/ Undo \/ UnwindFails
  BY <1>5, PrepareKeeps, PrepareFailsKeeps, SealKeeps, SealFailsKeeps, UnwindKeeps, UndoKeeps,
     UnwindFailsKeeps
<1>6. CASE BootStarts \/ BootProvisions \/ Retry
  BY <1>6, BootStartsKeeps, BootProvisionsKeeps, RetryKeeps
<1>7. CASE Work \/ Die \/ Restart
  BY <1>7, WorkKeeps, DieKeeps, RestartKeeps
<1>8. CASE UNCHANGED vars
  <2>1. TypeOK' /\ (Nobody => Nobody')
    BY <1>8 DEF Inv, TypeOK, vars, Nobody
  <2>2. LeaseReturned' /\ Recovered' /\ Pointed' /\ Stopping' /\ (~g.stray => Selected)'
    BY <1>8, <2>1 DEF Inv, vars, LeaseReturned, Recovered, Pointed, Stopping, Selected
  <2> QED BY <2>1, <2>2 DEF Inv
<1> QED BY <1>1, <1>2, <1>3, <1>4, <1>5, <1>6, <1>7, <1>8 DEF Next, Install

(* Every reachable state satisfies the inductive invariant, whether views  *)
(* ask during a rollback or not.                                           *)
THEOREM InvAlways == Spec => []Inv
BY InitInv, NextInv, PTL DEF Spec

(* The journal has one writer at a time: installInternal, the finalization *)
(* of a recovered package and its rollback never overlap.                  *)
THEOREM OneMutationAlways == Spec => []OneMutation
<1>1. Inv => OneMutation
  <2> SUFFICES ASSUME Inv PROVE OneMutation
    OBVIOUS
  <2>1. u.finalizing => u.rolling = None /\ install.pc = None
    BY DEF Inv, Recovered
  <2>2. u.rolling = "undoing" => ~u.finalizing /\ install.pc = None
    BY DEF Inv, Recovered, None
  <2> QED BY <2>1, <2>2 DEF OneMutation, None
<1> QED BY <1>1, InvAlways, PTL

(* A view's failed request never takes the runtime from another view.      *)
THEOREM HealthyKeptAlways == Spec => []HealthyKept
<1>1. Inv => HealthyKept
  BY DEF Inv, Recovered, Nobody, HealthyKept, At
<1> QED BY <1>1, InvAlways, PTL

(* What is up at rest is also what the pointer selects, unless a request   *)
(* started the runtime while a package was being undone.                   *)
THEOREM SoundAlways == Spec => []Sound
<1>1. Inv => RunsSelected
  BY DEF Inv, Selected, RunsSelected
<1>2. Inv => TypeOK /\ LeaseReturned
  BY DEF Inv
<1> QED BY <1>1, <1>2, InvAlways, OneMutationAlways, HealthyKeptAlways, PTL DEF Sound

=============================================================================
