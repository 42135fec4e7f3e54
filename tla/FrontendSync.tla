---------------------------- MODULE FrontendSync ----------------------------
(***************************************************************************)
(* One view's frontend session: the store of runtime-owned projections,    *)
(* the protocol controller that negotiates, subscribes and resynchronises, *)
(* the generated client that buffers patches during the cutover, and the   *)
(* runtime at the other end of the connection.                             *)
(*                                                                         *)
(* A patch is its position in the runtime's sequence; its revision is that *)
(* position too.  Messages of one connection arrive in the order sent.     *)
(***************************************************************************)
EXTENDS Naturals, Sequences, FiniteSets

CONSTANTS
  MaxInstance,  \* bound on runtime instances
  MaxHead,      \* bound on the patches of one instance
  MaxDrops,     \* bound on lost connections
  MaxGaps,      \* bound on patches that the runtime skips
  MaxTroubles,  \* bound on malformed frames, failed requests and late timers
  MaxAsked,     \* bound on synchronisations asked for by the view
  MaxTimers     \* bound on pending resynchronisation timers

VARIABLES
  srv,        \* the runtime: instance, patches made, is the view subscribed
  conn,       \* the transport is connected
  bound,      \* the controller is bound to the transport
  restoring,  \* the view restores its session before it synchronises
  up,         \* requests on their way to the runtime
  answer,     \* the subscription result the runtime is about to send
  down,       \* messages on their way to the client
  cutover,    \* client: patches are buffered (bootstrapping or replaying)
  buffer,     \* client: buffered patches
  life,       \* controller: lifecycle
  sync,       \* controller: what the current synchronisation waits for
  caps,       \* controller: negotiated capabilities are admitted
  store,      \* store: the snapshot
  timers,     \* pending resynchronisation timers
  illegal,    \* history: an illegal lifecycle transition was attempted
  spent       \* how much of each bound is used

link == <<conn, bound, restoring>>
network == <<up, answer, down>>
client == <<cutover, buffer>>
controller == <<life, sync, caps, timers, illegal>>
vars == <<srv, conn, bound, restoring, up, answer, down, cutover, buffer, life, sync, caps, store,
          timers, illegal, spent>>

-----------------------------------------------------------------------------
LifecycleStates == {"disconnected", "connecting", "negotiating", "bootstrapping",
                    "replaying", "live", "resynchronizing", "degraded", "closed"}

(* FRONTEND_LIFECYCLE_TRANSITIONS                                          *)
Transitions ==
  [disconnected |-> {"connecting", "closed"},
   connecting |-> {"negotiating", "disconnected", "degraded", "closed"},
   negotiating |-> {"bootstrapping", "replaying", "degraded", "disconnected", "closed"},
   bootstrapping |-> {"live", "resynchronizing", "degraded", "disconnected", "closed"},
   replaying |-> {"live", "resynchronizing", "degraded", "disconnected", "closed"},
   live |-> {"connecting", "resynchronizing", "degraded", "disconnected", "closed"},
   resynchronizing |-> {"negotiating", "bootstrapping", "replaying", "degraded",
                        "disconnected", "closed"},
   degraded |-> {"connecting", "negotiating", "resynchronizing", "disconnected", "closed"},
   closed |-> {}]

Legal(from, to) == from = to \/ to \in Transitions[from]

SyncStates == {"none", "negotiating", "subscribing", "resubscribing"}
NoStore == [instance |-> 0, sequence |-> 0, content |-> <<>>]
NoResume == 0 - 1
Bootstrap(instance, n) == [instance |-> instance, sequence |-> n, content |-> [i \in 1..n |-> i]]

Patch(instance, n) == [type |-> "patch", instance |-> instance, sequence |-> n]
Request(type, resume) == [type |-> type, resume |-> resume, current |-> TRUE]
Reply(type, request, base, n) ==
  [type |-> type, current |-> request.current, base |-> base, sequence |-> n]
Silence == [type |-> "silence"]

ASSUME ConstantAssumption ==
  /\ {MaxInstance, MaxHead, MaxDrops, MaxGaps, MaxTroubles, MaxAsked, MaxTimers} \subseteq Nat
  /\ MaxInstance > 0

Init ==
  /\ srv = [instance |-> 1, head |-> 0, subscribed |-> FALSE]
  /\ conn = FALSE
  /\ bound = FALSE
  /\ restoring = FALSE
  /\ up = <<>>
  /\ answer = Silence
  /\ down = <<>>
  /\ cutover = FALSE
  /\ buffer = {}
  /\ life = "disconnected"
  /\ sync = "none"
  /\ caps = FALSE
  /\ store = NoStore
  /\ timers = 0
  /\ illegal = FALSE
  /\ spent = [drops |-> 0, gaps |-> 0, malformed |-> 0, asked |-> 0, late |-> 0, failures |-> 0]

-----------------------------------------------------------------------------
(* FrontendStore *)

(* applyPatch throws FrontendResyncRequiredError.                          *)
NeedsResync(st, p) ==
  \/ st.instance # p.instance
  \/ p.sequence > st.sequence + 1

(* applyPatch: a duplicate is skipped, the next patch is applied.          *)
Applied(st, p) ==
  IF NeedsResync(st, p) \/ p.sequence <= st.sequence
  THEN st
  ELSE [st EXCEPT !.sequence = p.sequence, !.content = Append(@, p.sequence)]

(* The last patch up to which there is no gap between st and patches.      *)
Reached(st, patches) ==
  CHOOSE n \in st.sequence..MaxHead :
    /\ \A k \in (st.sequence + 1)..n : Patch(st.instance, k) \in patches
    /\ Patch(st.instance, n + 1) \notin patches

(* The store after patches were handed to it in the order of their         *)
(* sequence: those that follow without a gap are applied one by one.       *)
AppliedAll(st, patches) ==
  LET n == Reached(st, patches)
  IN [st EXCEPT !.sequence = n,
                !.content = @ \o [i \in 1..(n - st.sequence) |-> st.sequence + i]]

(* A timer is set for every other patch that is not a duplicate.           *)
TimersFor(st, patches) ==
  Cardinality({p \in patches : NeedsResync([st EXCEPT !.sequence = Reached(st, patches)], p)})

AddTimers(n) == timers' = IF timers + n > MaxTimers THEN MaxTimers ELSE timers + n

-----------------------------------------------------------------------------
(* FrontendProtocolController *)

(* An epoch ends: whatever was asked in it is answered in vain.            *)
Stale(m) == IF "current" \in DOMAIN m THEN [m EXCEPT !.current = FALSE] ELSE m
StaleAll(messages) == [i \in DOMAIN messages |-> Stale(messages[i])]

(* performSynchronize up to its first await, from a network just given.    *)
BeginFrom(u, a, d) ==
  /\ caps' = FALSE
  /\ sync' = "negotiating"
  /\ up' = Append(StaleAll(u), Request("negotiate", NoResume))
  /\ answer' = Stale(a)
  /\ down' = StaleAll(d)
  /\ cutover' = FALSE
  /\ life' = "negotiating"

Begin == BeginFrom(up, answer, down)

Trouble(kind) ==
  /\ spent.malformed + spent.late + spent.failures < MaxTroubles
  /\ spent' = [spent EXCEPT ![kind] = @ + 1]

(* The transport connects with a new client and the view starts to restore *)
(* its session.                                                            *)
Connect ==
  /\ ~conn
  /\ life # "closed"
  /\ conn' = TRUE
  /\ bound' = TRUE
  /\ restoring' = TRUE
  /\ life' = IF bound THEN life ELSE "connecting"
  /\ UNCHANGED <<srv, network, client, sync, caps, store, timers, illegal, spent>>

(* The session is restored, or is not: the view synchronises in any case.  *)
Restore ==
  /\ restoring
  /\ restoring' = FALSE
  /\ IF sync = "none" THEN Begin ELSE UNCHANGED <<life, sync, caps, network, cutover>>
  /\ UNCHANGED <<srv, conn, bound, buffer, store, timers, illegal, spent>>

(* Mutant: the capabilities of the lost connection stay admitted.          *)
Drop_Admitted ==
  /\ conn
  /\ spent.drops < MaxDrops
  /\ spent' = [spent EXCEPT !.drops = @ + 1]
  /\ conn' = FALSE
  /\ srv' = [srv EXCEPT !.subscribed = FALSE]
  /\ up' = <<>> /\ answer' = Silence /\ down' = <<>>
  /\ cutover' = FALSE
  /\ buffer' = {}
  /\ sync' = "none"
  /\ restoring' = FALSE
  /\ UNCHANGED <<bound, life, caps, store, timers, illegal>>

(* The connection is lost.  The controller only ends the epoch; or the     *)
(* transport is replaced, and the controller is unbound from it.           *)
Drop ==
  /\ conn
  /\ spent.drops < MaxDrops
  /\ spent' = [spent EXCEPT !.drops = @ + 1]
  /\ conn' = FALSE
  /\ srv' = [srv EXCEPT !.subscribed = FALSE]
  /\ up' = <<>> /\ answer' = Silence /\ down' = <<>>
  /\ cutover' = FALSE
  /\ buffer' = {}
  /\ caps' = FALSE
  /\ sync' = "none"
  /\ restoring' = FALSE
  /\ \/ UNCHANGED <<life, bound>>
     \/ life' = "disconnected" /\ bound' = FALSE
  /\ UNCHANGED <<store, timers, illegal>>

(* The view asks for a synchronisation; one in progress is shared.         *)
Ask ==
  /\ conn
  /\ sync = "none"
  /\ spent.asked < MaxAsked
  /\ spent' = [spent EXCEPT !.asked = @ + 1]
  /\ Begin
  /\ UNCHANGED <<srv, link, buffer, store, timers, illegal>>

(* Where the lifecycle is when a timer is meant to fire: no                *)
(* synchronisation is in progress.                                         *)
Quiet == {"live", "degraded", "resynchronizing"}

(* A resynchronisation timer fires.  Nothing cancels it.                   *)
FireTimer ==
  /\ timers > 0
  /\ \/ life \in Quiet /\ UNCHANGED spent
     \/ life \notin Quiet /\ Trouble("late")
  /\ timers' = timers - 1
  /\ IF ~Legal(life, "resynchronizing")
     THEN /\ illegal' = TRUE
          /\ UNCHANGED <<life, sync, caps, network, cutover>>
     ELSE /\ UNCHANGED illegal
          /\ IF conn /\ sync = "none"
             THEN Begin
             ELSE /\ life' = "resynchronizing"
                  /\ UNCHANGED <<sync, caps, network, cutover>>
  /\ UNCHANGED <<srv, link, buffer, store>>

(* destroy                                                                 *)
Close ==
  /\ life # "closed"
  /\ life' = "closed"
  /\ bound' = FALSE
  /\ conn' = FALSE
  /\ restoring' = FALSE
  /\ srv' = [srv EXCEPT !.subscribed = FALSE]
  /\ up' = <<>> /\ answer' = Silence /\ down' = <<>>
  /\ cutover' = FALSE
  /\ buffer' = {}
  /\ caps' = FALSE
  /\ sync' = "none"
  /\ UNCHANGED <<store, timers, illegal, spent>>

-----------------------------------------------------------------------------
(* Messages at the client *)

Received(type) == conn /\ down # <<>> /\ Head(down).type = type

(* A patch is buffered during the cutover ...                              *)
BufferPatch ==
  /\ Received("patch")
  /\ cutover
  /\ buffer' = buffer \cup {Head(down)}
  /\ down' = Tail(down)
  /\ UNCHANGED <<srv, link, up, answer, cutover, controller, store, spent>>

(* Mutant: a patch that does not fit is ignored.                           *)
HandlePatch_Ignored ==
  /\ Received("patch")
  /\ ~cutover
  /\ store' = Applied(store, Head(down))
  /\ AddTimers(0)
  /\ down' = Tail(down)
  /\ UNCHANGED <<srv, link, up, answer, client, life, sync, caps, illegal, spent>>

(* Mutant: any newer patch is applied.                                     *)
Applied_Unordered(st, p) ==
  IF p.sequence <= st.sequence \/ st.instance # p.instance
  THEN st
  ELSE [st EXCEPT !.sequence = p.sequence, !.content = Append(@, p.sequence)]

HandlePatch_Unordered ==
  /\ Received("patch")
  /\ ~cutover
  /\ store' = Applied_Unordered(store, Head(down))
  /\ AddTimers(IF NeedsResync(store, Head(down)) THEN 1 ELSE 0)
  /\ down' = Tail(down)
  /\ UNCHANGED <<srv, link, up, answer, client, life, sync, caps, illegal, spent>>

(* ... and handed to the store otherwise.                                  *)
HandlePatch ==
  /\ Received("patch")
  /\ ~cutover
  /\ store' = Applied(store, Head(down))
  /\ AddTimers(IF NeedsResync(store, Head(down)) THEN 1 ELSE 0)
  /\ down' = Tail(down)
  /\ UNCHANGED <<srv, link, up, answer, client, life, sync, caps, illegal, spent>>

(* A malformed patch, or a protocol error that asks to resynchronise.      *)
HandleProtocolError ==
  /\ Received("malformed")
  /\ IF Legal(life, "resynchronizing")
     THEN /\ BeginFrom(up, answer, Tail(down))
          /\ UNCHANGED illegal
     ELSE /\ caps' = FALSE
          /\ sync' = "none"
          /\ up' = StaleAll(up)
          /\ answer' = Stale(answer)
          /\ down' = StaleAll(Tail(down))
          /\ cutover' = FALSE
          /\ illegal' = TRUE
          /\ UNCHANGED life
  /\ UNCHANGED <<srv, link, buffer, store, timers, spent>>

(* The negotiation is answered: subscribe, from the store's own position   *)
(* if it shows the same runtime instance.                                  *)
HandleNegotiated ==
  /\ Received("negotiated")
  /\ down' = Tail(down)
  /\ IF Head(down).current
     THEN LET resumes == store.instance = srv.instance
          IN /\ life' = IF resumes THEN "replaying" ELSE "bootstrapping"
             /\ up' = Append(up, Request("subscribe", IF resumes THEN store.sequence ELSE NoResume))
             /\ cutover' = TRUE
             /\ sync' = "subscribing"
     ELSE UNCHANGED <<life, up, cutover, sync>>
  /\ UNCHANGED <<srv, link, answer, buffer, caps, store, timers, illegal, spent>>

(* Resumption is refused: subscribe again, without a position.             *)
HandleResyncRequired ==
  /\ Received("resync-required")
  /\ IF Head(down).current
     THEN IF sync = "subscribing"
          THEN /\ life' = "bootstrapping"
               /\ up' = Append(up, Request("subscribe", NoResume))
               /\ cutover' = TRUE
               /\ sync' = "resubscribing"
          ELSE /\ life' = "degraded"
               /\ cutover' = FALSE
               /\ sync' = "none"
               /\ UNCHANGED up
     ELSE /\ cutover' = FALSE
          /\ UNCHANGED <<life, up, sync>>
  /\ down' = Tail(down)
  /\ UNCHANGED <<srv, link, answer, buffer, caps, store, timers, illegal, spent>>

(* Mutant: the buffered patches are forgotten.                             *)
GoLive_Unflushed(st) ==
  /\ store' = st
  /\ cutover' = FALSE
  /\ buffer' = {}
  /\ AddTimers(0)
  /\ sync' = "none"
  /\ life' = "live"
  /\ caps' = TRUE
  /\ down' = Tail(down)
  /\ UNCHANGED <<up, answer, illegal>>

(* The store holds the cut st: the client releases the buffered patches in *)
(* sequence order and the controller goes live, if it still may.           *)
GoLive(st) ==
  /\ store' = AppliedAll(st, buffer)
  /\ AddTimers(TimersFor(st, buffer))
  /\ cutover' = FALSE
  /\ buffer' = {}
  /\ sync' = "none"
  /\ down' = Tail(down)
  /\ UNCHANGED <<up, answer>>
  /\ IF Legal(life, "live")
     THEN life' = "live" /\ caps' = TRUE /\ UNCHANGED illegal
     ELSE life' = "degraded" /\ caps' = FALSE /\ illegal' = TRUE

Ignore ==
  /\ down' = Tail(down)
  /\ UNCHANGED <<up, answer, client, life, sync, caps, store, timers, illegal>>

HandleBootstrapped ==
  /\ Received("bootstrapped")
  /\ IF Head(down).current
     THEN GoLive(Bootstrap(srv.instance, Head(down).sequence))
     ELSE Ignore
  /\ UNCHANGED <<srv, link, spent>>

(* applyReplay: the replay must start where the store is.                  *)
HandleReplayed ==
  LET m == Head(down)
  IN /\ Received("replayed")
     /\ IF ~m.current
        THEN Ignore
        ELSE IF store.instance = srv.instance /\ store.sequence = m.base
        THEN GoLive(AppliedAll(store, {Patch(srv.instance, n) : n \in (m.base + 1)..m.sequence}))
        ELSE /\ life' = "degraded"
             /\ caps' = FALSE
             /\ sync' = "none"
             /\ down' = Tail(down)
             /\ UNCHANGED <<up, answer, client, store, timers, illegal>>
     /\ UNCHANGED <<srv, link, spent>>

(* A request is answered with an error, or times out, in its own epoch.    *)
HandleFailed ==
  /\ Received("failed")
  /\ down' = Tail(down)
  /\ IF Head(down).current
     THEN life' = "degraded" /\ caps' = FALSE /\ sync' = "none"
     ELSE UNCHANGED <<life, caps, sync>>
  /\ UNCHANGED <<srv, link, up, answer, client, store, timers, illegal, spent>>

-----------------------------------------------------------------------------
(* The runtime, as the connector relies on it *)

Send(m) == down' = IF conn /\ srv.subscribed THEN Append(down, m) ELSE down

Emit ==
  /\ srv.head < MaxHead
  /\ srv' = [srv EXCEPT !.head = @ + 1]
  /\ Send(Patch(srv.instance, srv.head + 1))
  /\ UNCHANGED <<link, up, answer, client, controller, store, spent>>

(* A patch is skipped and the one after it is sent.                        *)
EmitGap ==
  /\ srv.head + 1 < MaxHead
  /\ spent.gaps < MaxGaps
  /\ spent' = [spent EXCEPT !.gaps = @ + 1]
  /\ srv' = [srv EXCEPT !.head = @ + 2]
  /\ Send(Patch(srv.instance, srv.head + 2))
  /\ UNCHANGED <<link, up, answer, client, controller, store>>

EmitMalformed ==
  /\ srv.head < MaxHead
  /\ conn /\ srv.subscribed
  /\ Trouble("malformed")
  /\ srv' = [srv EXCEPT !.head = @ + 1]
  /\ Send([type |-> "malformed"])
  /\ UNCHANGED <<link, up, answer, client, controller, store>>

Replace ==
  /\ ~conn
  /\ srv.instance < MaxInstance
  /\ srv' = [instance |-> srv.instance + 1, head |-> 0, subscribed |-> FALSE]
  /\ UNCHANGED <<link, network, client, controller, store, spent>>

Take(type) == conn /\ answer = Silence /\ up # <<>> /\ Head(up).type = type /\ up' = Tail(up)

AnswerNegotiation ==
  /\ Take("negotiate")
  /\ \/ down' = Append(down, Reply("negotiated", Head(up), 0, 0)) /\ UNCHANGED spent
     \/ down' = Append(down, Reply("failed", Head(up), 0, 0)) /\ Trouble("failures")
  /\ UNCHANGED <<srv, link, answer, client, controller, store>>

(* The subscription takes its cut; patches may be sent before its result.  *)
TakeCut ==
  LET request == Head(up)
  IN /\ Take("subscribe")
     /\ srv' = [srv EXCEPT !.subscribed = TRUE]
     /\ \/ /\ request.resume = NoResume
           /\ answer' = Reply("bootstrapped", request, 0, srv.head)
           /\ UNCHANGED spent
        \/ /\ request.resume # NoResume
           /\ request.resume <= srv.head
           /\ answer' = Reply("replayed", request, request.resume, srv.head)
           /\ UNCHANGED spent
        \/ /\ request.resume # NoResume
           /\ answer' = Reply("resync-required", request, 0, 0)
           /\ UNCHANGED spent
        \/ /\ \E type \in {"resync-required", "failed"} : answer' = Reply(type, request, 0, 0)
           /\ Trouble("failures")
     /\ UNCHANGED <<link, down, client, controller, store>>

SendAnswer ==
  /\ answer # Silence
  /\ down' = Append(down, answer)
  /\ answer' = Silence
  /\ UNCHANGED <<srv, link, up, client, controller, store, spent>>

-----------------------------------------------------------------------------
Receive ==
  \/ BufferPatch \/ HandlePatch \/ HandleProtocolError \/ HandleNegotiated
  \/ HandleResyncRequired \/ HandleBootstrapped \/ HandleReplayed \/ HandleFailed

Serve == AnswerNegotiation \/ TakeCut \/ SendAnswer

Disturb == Drop \/ Ask \/ Close \/ Replace \/ Emit \/ EmitGap \/ EmitMalformed

Next == Connect \/ Restore \/ FireTimer \/ Receive \/ Serve \/ Disturb

Spec == Init /\ [][Next]_vars

(* A lost connection is reopened, messages arrive, the runtime answers and *)
(* timers fire; nothing obliges the runtime to make patches.               *)
Fairness ==
  /\ WF_vars(Connect) /\ WF_vars(Restore) /\ WF_vars(FireTimer)
  /\ WF_vars(Receive) /\ WF_vars(Serve)

FairSpec == Spec /\ Fairness

-----------------------------------------------------------------------------
Patches == [type : {"patch"}, instance : 1..MaxInstance, sequence : 1..MaxHead]
Requests == [type : {"negotiate", "subscribe"}, resume : {NoResume} \cup 0..MaxHead, current : BOOLEAN]
Replies == [type : {"negotiated", "bootstrapped", "replayed", "resync-required", "failed"},
            current : BOOLEAN, base : 0..MaxHead, sequence : 0..MaxHead]
Malformed == [type : {"malformed"}]

TypeOK ==
  /\ srv \in [instance : 1..MaxInstance, head : 0..MaxHead, subscribed : BOOLEAN]
  /\ conn \in BOOLEAN /\ bound \in BOOLEAN /\ restoring \in BOOLEAN /\ cutover \in BOOLEAN
  /\ caps \in BOOLEAN /\ illegal \in BOOLEAN
  /\ up \in Seq(Requests) /\ answer \in Replies \cup {Silence}
  /\ down \in Seq(Patches \cup Replies \cup Malformed)
  /\ buffer \subseteq Patches
  /\ life \in LifecycleStates
  /\ sync \in SyncStates
  /\ store \in [instance : 0..MaxInstance, sequence : 0..MaxHead, content : Seq(Nat)]
  /\ timers \in 0..MaxTimers
  /\ spent \in [drops : 0..MaxDrops, gaps : 0..MaxGaps, asked : 0..MaxAsked,
                malformed : 0..MaxTroubles, late : 0..MaxTroubles, failures : 0..MaxTroubles]

(* The store implements ProjectionReplica whatever is lost, malformed,     *)
(* refused or reconnected.                                                 *)
Replica == INSTANCE ProjectionReplica
  WITH source <- [instance |-> srv.instance, head |-> srv.head], replica <- store

RefinesReplica == Replica!Spec

(* Connections are lost, patches skipped, runtimes replaced, views closed, *)
(* but no frame was malformed, no request failed and no timer came late:   *)
(* with those the next properties fail (the README says how).              *)
Untroubled == spent.malformed = 0 /\ spent.failures = 0 /\ spent.late = 0

(* A live view has lost nothing in the cutover: every patch it does not    *)
(* show yet is still on its way, unless the runtime skipped it.            *)
CutoverComplete ==
  life = "live" /\ conn /\ ~restoring /\ spent.gaps = 0 /\ spent.malformed = 0 =>
    \A n \in (store.sequence + 1)..srv.head :
      \E i \in DOMAIN down : down[i] = Patch(srv.instance, n)

(* Optional features are admitted only by the negotiation of the present   *)
(* connection, and only once the view is live.                             *)
CapabilitiesFresh == caps => conn /\ life = "live" /\ store.instance = srv.instance

(* A view that is on its way to live is being taken there: a               *)
(* synchronisation is in progress, or the view is about to ask for one.    *)
Progressing ==
  conn /\ life \in {"connecting", "negotiating", "bootstrapping", "replaying", "resynchronizing"}
    => sync # "none" \/ restoring

(* Whatever is disturbed, an admitted feature belongs to this connection;  *)
(* and untroubled, a view on its way to live is taken there and the        *)
(* lifecycle takes no edge that the protocol forbids.                      *)
Sound == TypeOK /\ CapabilitiesFresh /\ (Untroubled => ~illegal /\ Progressing)

(* Once the connection stays, an untroubled view ends up live and shows    *)
(* everything that the runtime has made.                                   *)
Converges ==
  <>[](conn /\ Untroubled) => <>[](life = "live" /\ store.instance = srv.instance /\ store.sequence = srv.head)
=============================================================================
