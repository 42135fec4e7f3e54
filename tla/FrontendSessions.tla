-------------------------- MODULE FrontendSessions --------------------------
(***************************************************************************)
(* FrontendSessionRegistry with the transports it owns: one per view       *)
(* channel and one utility transport, their sockets and retry timers, over *)
(* a runtime that is bound, replaced, lost and unbound.                    *)
(*                                                                         *)
(* A settling promise moves everybody who awaits it: an ensure that found  *)
(* the connection of an earlier runtime in flight begins its own.          *)
(***************************************************************************)
EXTENDS Naturals

CONSTANTS
  Channels,     \* channels of the views
  Utility,      \* the transport used while no view is registered
  MaxAttempts,  \* RECONNECT_MAX_ATTEMPTS
  MaxRuntimes,  \* bound on runtime processes
  MaxBinds,     \* bound on the binds of each of them
  MaxFaults,    \* bound on failing connections and on crashes
  Mishaps       \* of "disturb", "credentials" and "terminal", those that happen

ASSUME ConstantAssumption ==
  /\ Utility \notin Channels
  /\ MaxAttempts \in Nat /\ MaxRuntimes \in Nat /\ MaxBinds \in Nat /\ MaxFaults \in Nat
  /\ Mishaps \subseteq {"disturb", "credentials", "terminal"}

VARIABLES
  e,      \* the entry of each channel with its transport, and the utility transport
  rt,     \* runtime: the instance that is bound, 0 for none
  bind,   \* what bindRuntime has come to
  up,     \* the instance that is alive, 0 for none
  spent   \* instances, binds of the last one and faults so far

vars == <<e, rt, bind, up, spent>>

All == Channels \cup {Utility}
Callers == {"register", "view", "bind"}

(* An entry: its life and runtimeInstanceId; the transport's URL, socket,  *)
(* timer and reconnectAttempt; the connectEntry in flight (pc, its runtime *)
(* and whether generation has moved) with those who await it, and those    *)
(* who await it to begin anew.                                             *)
NoEntry ==
  [life |-> "new", rid |-> 0,
   has |-> FALSE, url |-> 0, sock |-> "none", timer |-> FALSE, tries |-> 0, leaked |-> FALSE,
   pc |-> "idle", rt |-> 0, stale |-> FALSE, joined |-> {}, queued |-> {}]

Init ==
  /\ e = [x \in All |-> NoEntry]
  /\ rt = 0 /\ bind = "none" /\ up = 0
  /\ spent = [runtimes |-> 0, binds |-> 0, faults |-> 0]

Fault == spent.faults < MaxFaults /\ spent' = [spent EXCEPT !.faults = @ + 1]

-----------------------------------------------------------------------------
(* ChatobbyTransport.                                                      *)

(* openConnection: what is open or opening is left as it is.               *)
Open(x, event) ==
  IF x.sock # "none" THEN x
  ELSE [x EXCEPT !.sock = "hello", !.timer = FALSE, !.tries = IF event = "connect" THEN 0 ELSE @ + 1]

(* Mutant: disconnect leaves the retry timer.                              *)
Disconnect_Ticking(x) ==
  [x EXCEPT !.sock = "none", !.pc = IF @ = "connecting" THEN "abandoned" ELSE @]

(* disconnect: an attempt in flight is left to fail by its own timers.     *)
Disconnect(x) ==
  [x EXCEPT !.sock = "none", !.timer = FALSE, !.pc = IF @ = "connecting" THEN "abandoned" ELSE @]

(* Mutant: one attempt too few.                                            *)
Broken_Early(x) == [x EXCEPT !.sock = "none", !.timer = x.tries + 1 < MaxAttempts]

(* An attempt has failed, or the socket has closed: canRetry.              *)
Broken(x) == [x EXCEPT !.sock = "none", !.timer = x.tries < MaxAttempts]

(* connect, and setRuntime, which first waits for the old socket to close. *)
Connect(x) == [Open(x, "connect") EXCEPT !.pc = "connecting"]

SetRuntime(x) ==
  IF x.sock # "none" THEN [Disconnect(x) EXCEPT !.pc = "replacing"] ELSE Connect([x EXCEPT !.url = x.rt])

-----------------------------------------------------------------------------
(* The registry.                                                           *)

(* connectEntry for runtime r, awaited by `who`.                           *)
ConnectEntry(x, r, who) ==
  LET y == [x EXCEPT !.rt = r, !.stale = FALSE, !.joined = who]
  IN IF ~x.has THEN Connect([y EXCEPT !.has = TRUE, !.url = r])
     ELSE IF x.rid # r THEN SetRuntime(y) ELSE Connect(y)

Refused(x, r) == x.life # "registered" \/ r = 0

(* ensure *)
Ensure(x, r, who) ==
  IF Refused(x, r) \/ (x.sock \in {"open", "deaf"} /\ x.rid = r) THEN x
  ELSE IF x.pc = "idle" THEN ConnectEntry(x, r, who)
  ELSE IF x.rt = r THEN [x EXCEPT !.joined = @ \cup who]
  ELSE [x EXCEPT !.queued = @ \cup who]

(* Mutant: those who waited to begin anew are not resumed.                 *)
Settled_Forgetful(x) == [x EXCEPT !.pc = "idle", !.rt = 0, !.stale = FALSE, !.joined = {}]

(* The end of connectEntry.                                                *)
Settled(x) ==
  LET y == [x EXCEPT !.pc = "idle", !.rt = 0, !.stale = FALSE, !.joined = {}, !.queued = {}]
  IN IF x.queued = {} THEN y ELSE Ensure(y, rt, x.queued)

BindFailed(x) == "bind" \in x.joined \/ ("bind" \in x.queued /\ Refused(x, rt))

(* ensureUtility *)
EnsureUtility(x, r, who) ==
  IF x.sock \in {"open", "deaf"} /\ x.rid = r THEN x
  ELSE [ConnectEntry(x, r, who) EXCEPT !.rid = r]

(* releaseUtilityTransport *)
Release(x) == [Disconnect(x) EXCEPT !.has = FALSE, !.rid = 0, !.url = 0, !.tries = 0]

(* Unless "disturb", an old socket has closed before anything else happens *)
(* to its transport.                                                       *)
Calm(x) == "disturb" \in Mishaps \/ e[x].pc # "replacing"

Register(c) ==
  /\ e[c].life = "new"
  /\ e' = [e EXCEPT ![c] = Ensure([@ EXCEPT !.life = "registered"], rt, {"register"})]
  /\ UNCHANGED <<rt, bind, up, spent>>

Ask(c) ==
  /\ ~Refused(e[c], rt)
  /\ e' = [e EXCEPT ![c] = Ensure(@, rt, {"view"})]
  /\ UNCHANGED <<rt, bind, up, spent>>

AskUtility ==
  /\ rt # 0 /\ e[Utility].pc = "idle"
  /\ e' = [e EXCEPT ![Utility] = EnsureUtility(@, rt, {"view"})]
  /\ UNCHANGED <<rt, bind, up, spent>>

Unregister(c) ==
  /\ e[c].life = "registered"
  /\ Calm(c)
  /\ e' = [e EXCEPT ![c] = Disconnect([@ EXCEPT !.life = "closing"])]
  /\ UNCHANGED <<rt, bind, up, spent>>

Unregistered(c) ==
  /\ e[c].life = "closing"
  /\ e' = [e EXCEPT ![c].life = "gone", ![c].has = FALSE, ![c].rid = 0]
  /\ UNCHANGED <<rt, bind, up, spent>>

Registered == {c \in Channels : e[c].life = "registered"}

(* bindRuntime in flight: it awaits the channels that were registered when *)
(* it began, or the utility transport alone.                               *)
Binding == bind \in {"waiting", "utility"}

BindRuntime ==
  /\ ~Binding /\ up # 0 /\ spent.binds < MaxBinds
  /\ Registered = {} => e[Utility].pc = "idle"
  /\ rt' = up /\ bind' = IF Registered = {} THEN "utility" ELSE "waiting"
  /\ spent' = [spent EXCEPT !.binds = @ + 1]
  /\ e' = [x \in All |->
             LET y == [e[x] EXCEPT !.stale = @ \/ e[x].pc # "idle"]
             IN IF x \in Registered THEN Ensure(y, up, {"bind"})
                ELSE IF x = Utility /\ Registered = {} THEN EnsureUtility(y, up, {"bind"}) ELSE y]
  /\ UNCHANGED up

(* What a bind that was given up still awaits goes on without it.          *)
Relabelled(callers, k) == IF "bind" \in callers THEN (callers \ {"bind"}) \cup {k} ELSE callers
Outlives(x, k) == [x EXCEPT !.joined = Relabelled(@, k), !.queued = Relabelled(@, k)]

BindSucceeds ==
  /\ Binding
  /\ \A x \in All : "bind" \notin e[x].joined \cup e[x].queued
  /\ bind' = "ok"
  /\ Calm(Utility)
  /\ e' = IF bind = "utility" THEN e ELSE [e EXCEPT ![Utility] = Release(@)]
  /\ UNCHANGED <<rt, up, spent>>

(* The runtime manager gives the start up, and ends a process it launched. *)
BindFails ==
  /\ IF bind = "failed" THEN UNCHANGED spent ELSE Binding /\ Fault
  /\ bind' = "none"
  /\ e' = [x \in All |-> Outlives(e[x], IF bind = "failed" THEN "view" ELSE "register")]
  /\ up' \in {up, 0}
  /\ UNCHANGED rt

(* disconnectRuntime *)
DisconnectRuntime ==
  /\ rt # 0
  /\ \A x \in All : Calm(x)
  /\ rt' = 0
  /\ bind' = IF bind = "ok" THEN "none" ELSE bind
  /\ e' = [x \in All |->
             LET y == [e[x] EXCEPT !.stale = @ \/ e[x].pc # "idle", !.rid = 0] IN IF e[x].has THEN Disconnect(y) ELSE y]
  /\ UNCHANGED <<up, spent>>

-----------------------------------------------------------------------------
(* Sockets and timers.                                                     *)

(* x becomes y, and connectEntry, if it was in flight, ends.               *)
Conclude(x, y, ok) ==
  /\ e' = [k \in All |->
             LET z == IF k # x THEN e[k] ELSE IF e[x].pc = "idle" THEN y ELSE Settled(y)
             IN IF k = Utility /\ ok /\ "register" \in e[x].joined THEN Release(z) ELSE z]
  /\ bind' = IF Binding /\ ~ok /\ e[x].pc # "idle" /\ BindFailed(e[x]) THEN "failed" ELSE bind

ConnectOk(x) ==
  /\ e[x].sock = "hello" /\ e[x].url = up
  /\ LET y == [e[x] EXCEPT !.sock = "open", !.tries = 0]
     IN IF y.pc = "idle" \/ x = Utility THEN Conclude(x, y, TRUE)
        ELSE IF y.stale \/ y.life # "registered" THEN Conclude(x, IF y.has THEN Disconnect(y) ELSE y, FALSE)
        ELSE Calm(Utility) /\ Conclude(x, [y EXCEPT !.rid = y.rt], TRUE)
  /\ UNCHANGED <<rt, up, spent>>

(* The handshake fails; or the credentials do, and the socket is forgotten.*)
ConnectFails(x) ==
  /\ e[x].sock = "hello"
  /\ IF e[x].url = up THEN Fault ELSE UNCHANGED spent
  /\ \E forgotten \in {FALSE} \cup {"credentials" \in Mishaps /\ e[x].url = up} :
       Conclude(x, [Broken(e[x]) EXCEPT !.leaked = @ \/ forgotten], FALSE)
  /\ UNCHANGED <<rt, up>>

AbandonedFails(x) ==
  /\ e[x].pc = "abandoned"
  /\ Conclude(x, e[x], FALSE)
  /\ UNCHANGED <<rt, up, spent>>

(* setRuntime goes on once the old socket has closed; the entry may have   *)
(* lost its transport by then.                                             *)
Replaced(x) ==
  /\ e[x].pc = "replacing"
  /\ LET y == Open([e[x] EXCEPT !.url = e[x].rt], "connect")
     IN IF y.has THEN e' = [e EXCEPT ![x] = [y EXCEPT !.pc = "connecting"]] /\ UNCHANGED bind
        ELSE Conclude(x, y, FALSE)
  /\ UNCHANGED <<rt, up, spent>>

(* handleClientClose *)
Closed(x) ==
  /\ e[x].sock = "open"
  /\ IF e[x].url = up THEN Fault ELSE UNCHANGED spent
  /\ e' = [e EXCEPT ![x] = Broken(@)]
  /\ UNCHANGED <<rt, bind, up>>

(* A close code that ends the session for good reaches nobody.             *)
ClosedForGood(x) ==
  /\ "terminal" \in Mishaps
  /\ e[x].sock = "open" /\ Fault
  /\ e' = [e EXCEPT ![x].sock = "deaf"]
  /\ UNCHANGED <<rt, bind, up>>

RetryFires(x) ==
  /\ e[x].timer
  /\ e' = [e EXCEPT ![x] = Open(@, "retry")]
  /\ UNCHANGED <<rt, bind, up, spent>>

-----------------------------------------------------------------------------
(* The runtime process.                                                    *)
Spawn ==
  /\ up = 0 /\ spent.runtimes < MaxRuntimes
  /\ up' = spent.runtimes + 1
  /\ spent' = [spent EXCEPT !.runtimes = @ + 1, !.binds = 0]
  /\ UNCHANGED <<e, rt, bind>>

Exit ==
  /\ up # 0
  /\ IF rt = 0 THEN UNCHANGED spent ELSE Fault
  /\ up' = 0
  /\ UNCHANGED <<e, rt, bind>>

Next ==
  \/ \E c \in Channels : Register(c) \/ Ask(c) \/ Unregister(c) \/ Unregistered(c)
  \/ AskUtility \/ BindRuntime \/ BindSucceeds \/ BindFails \/ DisconnectRuntime
  \/ \E x \in All : ConnectOk(x) \/ ConnectFails(x) \/ AbandonedFails(x) \/ Replaced(x)
                      \/ Closed(x) \/ ClosedForGood(x) \/ RetryFires(x)
  \/ Spawn \/ Exit

Spec == Init /\ [][Next]_vars

(* A handshake succeeds or fails, attempts time out, sockets close and     *)
(* timers fire.                                                            *)
Fairness ==
  /\ WF_vars(BindSucceeds) /\ WF_vars(BindFails /\ bind = "failed")
  /\ \A x \in All :
       /\ WF_vars(ConnectOk(x) \/ ConnectFails(x)) /\ WF_vars(AbandonedFails(x)) /\ WF_vars(Replaced(x))
       /\ WF_vars(Closed(x) /\ e[x].url # up) /\ WF_vars(RetryFires(x))

FairSpec == Spec /\ Fairness

-----------------------------------------------------------------------------
Entries ==
  [life : {"new", "registered", "closing", "gone"}, rid : 0..MaxRuntimes,
   has : BOOLEAN, url : 0..MaxRuntimes, sock : {"none", "hello", "open", "deaf"},
   timer : BOOLEAN, tries : 0..MaxAttempts, leaked : BOOLEAN,
   pc : {"idle", "replacing", "connecting", "abandoned"}, rt : 0..MaxRuntimes, stale : BOOLEAN,
   joined : SUBSET Callers, queued : SUBSET Callers]

Spents == [runtimes : 0..MaxRuntimes, binds : 0..MaxBinds, faults : 0..MaxFaults]

TypeOK ==
  /\ e \in [All -> Entries]
  /\ \A x \in All : e[x].pc = "idle" => e[x].joined = {} /\ e[x].queued = {}
  /\ \A x \in All : e[x].timer => e[x].sock = "none"
  /\ rt \in 0..MaxRuntimes /\ up \in 0..MaxRuntimes
  /\ spent \in Spents
  /\ bind \in {"none", "waiting", "utility", "failed", "ok"}

(* A closed view leaves nothing behind: no socket, no timer that would     *)
(* open one, nothing that only the runtime still knows.                    *)
NoOrphan ==
  \A x \in All : ~e[x].has /\ e[x].pc = "idle" => e[x].sock = "none" /\ ~e[x].timer /\ ~e[x].leaked

(* Once nothing is in flight for a view, it is connected to no other       *)
(* runtime than the bound one, and to none when none is bound.             *)
NoStale ==
  \A c \in Registered : e[c].pc = "idle" /\ (e[c].sock # "none" \/ e[c].timer) => e[c].url = rt

(* Everybody who waits for a connection gets it or an error, however many  *)
(* runtimes come and go meanwhile.                                         *)
Answered ==
  /\ \A x \in All : \A k \in Callers \ {"bind"} :
       k \in e[x].joined \cup e[x].queued ~> k \notin e[x].joined \cup e[x].queued
  /\ Binding ~> ~Binding

(* A connection that was retried MaxAttempts times in vain is given up,    *)
(* until somebody asks for it.                                             *)
GivenUp(c) == e[c].sock = "none" /\ ~e[c].timer /\ e[c].tries = MaxAttempts

(* While the runtime stays, a lost connection comes back by itself, unless *)
(* it was closed for good or all of its retries have failed.               *)
Recovers ==
  \A c \in Channels :
    <>[](bind = "ok" /\ rt = up /\ up # 0) =>
      <>[](c \notin Registered \/ e[c].sock \in {"open", "deaf"} \/ GivenUp(c))

(* A channel at rest is connected to the bound runtime or to none, and one *)
(* that is closed holds nothing.                                           *)
Sound == TypeOK /\ NoStale /\ NoOrphan
=============================================================================
