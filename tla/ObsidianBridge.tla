--------------------------- MODULE ObsidianBridge ---------------------------
(***************************************************************************)
(* The one bridge to Obsidian: BridgeConnectionCoordinator with the        *)
(* configurations of its owners, ObsidianBridgeClient with its socket and  *)
(* timers, the requests that bridge-router has in flight, and what it      *)
(* pushes: capabilities, and the changes of ObsidianSemanticContextService.*)
(*                                                                         *)
(* A configuration is its sequence number; a copy of Obsidian's state is   *)
(* "fresh" or "old".  The client awaits nothing, so that a reconciliation  *)
(* is one step, and so is reading the context for an answer.               *)
(***************************************************************************)
EXTENDS Naturals, FiniteSetsExt

CONSTANTS
  Owners,      \* the views' transports
  Requests,    \* invocations by the runtime
  MaxConfigs,  \* bound on configurations
  MaxCloses    \* bound on connections that fail or are closed

ASSUME BridgeAssumption == MaxConfigs \in Nat /\ MaxCloses \in Nat

VARIABLES
  owners,    \* sequence of each owner's configuration, 0 for none
  seq,       \* the last sequence
  due,       \* is a reconciliation enqueued?
  disposed,
  client,    \* the client: configuration (0: no client), state, socket, timers
  available, \* what the listeners of the coordinator were told last
  req,       \* each invocation: its state, who asked and who was answered
  closes,    \* failures so far
  agreed,    \* do the fingerprint and what the runtime was told agree with the capabilities?
  ctx        \* context: is a flush due, the snapshot, what the runtime read over this bridge

pushed == <<agreed, ctx>>
bridgeVars == <<owners, seq, due, disposed, client, available, req, closes, pushed>>

NoClient ==
  [config |-> 0, status |-> "idle", sock |-> "none", retry |-> FALSE, watching |-> FALSE,
   grace |-> 0, hello |-> FALSE]

BridgeInit ==
  /\ owners = [o \in Owners |-> 0] /\ seq = 0
  /\ due = FALSE /\ disposed = FALSE
  /\ client = NoClient /\ available = FALSE
  /\ req = [q \in Requests |-> [state |-> "new", from |-> 0, to |-> 0]]
  /\ closes = 0
  /\ agreed = [print |-> FALSE, told |-> FALSE]
  /\ ctx = [flush |-> FALSE, snapshot |-> "none", held |-> "none"]

-----------------------------------------------------------------------------
(* The client.                                                             *)

(* emitState, which the coordinator forwards                               *)
Become(c) == client' = c /\ available' = (c.status = "ready")

(* disconnect; grace timers go on.                                         *)
Disconnected(c) ==
  [c EXCEPT !.status = "idle", !.sock = "none", !.retry = FALSE, !.watching = FALSE, !.hello = FALSE]

(* Mutant: requests outlive their session.                                 *)
Aborted_Kept == req

(* Every request in flight is aborted, and its rejection finds no socket   *)
(* that is open.                                                           *)
Aborted == [q \in Requests |-> IF req[q].state = "running" THEN [req[q] EXCEPT !.state = "done"] ELSE req[q]]

(* connect: there may be no socket to be had, which is tried again.        *)
Connecting(c) == [c EXCEPT !.status = "connecting", !.sock = "connecting", !.hello = FALSE]
Refused(c) == [c EXCEPT !.status = "error", !.sock = "closed", !.retry = TRUE, !.hello = FALSE]

Connect(c) ==
  \/ Become(Connecting(c)) /\ UNCHANGED closes
  \/ closes < MaxCloses /\ closes' = closes + 1 /\ Become(Refused(c))

(* onopen: the hello tells the capabilities; this runtime read nothing yet.*)
Opened ==
  /\ client.sock = "connecting"
  /\ Become([client EXCEPT !.status = "hello_sent", !.sock = "open", !.hello = TRUE, !.grace = @ + 1])
  /\ agreed' = [print |-> TRUE, told |-> TRUE]
  /\ ctx' = [ctx EXCEPT !.held = "none"]
  /\ UNCHANGED <<owners, seq, due, disposed, req, closes>>

(* Mutant: starting the watch takes the fingerprint anew.                  *)
GraceEnds_Rebased ==
  /\ client.grace > 0
  /\ LET c == [client EXCEPT !.grace = @ - 1]
     IN Become(IF c.status = "hello_sent" THEN [c EXCEPT !.status = "ready", !.watching = TRUE] ELSE c)
  /\ agreed' = IF client.status = "hello_sent" THEN [agreed EXCEPT !.print = TRUE] ELSE agreed
  /\ UNCHANGED <<owners, seq, due, disposed, req, closes, ctx>>

(* The grace timer of whichever socket                                     *)
GraceEnds ==
  /\ client.grace > 0
  /\ LET c == [client EXCEPT !.grace = @ - 1]
     IN Become(IF c.status = "hello_sent" THEN [c EXCEPT !.status = "ready", !.watching = TRUE] ELSE c)
  /\ UNCHANGED <<owners, seq, due, disposed, req, closes, pushed>>

(* The runtime or the network closes the socket; onclose comes later.      *)
Drop ==
  /\ client.sock \in {"connecting", "open"}
  /\ closes < MaxCloses /\ closes' = closes + 1
  /\ client' = [client EXCEPT !.sock = "closing"]
  /\ UNCHANGED <<owners, seq, due, disposed, available, req, pushed>>

Closed_Unretried(terminal) ==
  /\ client.sock = "closing"
  /\ Become([client EXCEPT !.sock = "closed", !.watching = FALSE, !.hello = FALSE,
                           !.retry = ~terminal /\ client.status = "ready",
                           !.status = IF terminal THEN "error" ELSE "disconnected"])
  /\ UNCHANGED <<owners, seq, due, disposed, req, closes, pushed>>

(* onclose: a terminal code is not retried.                                *)
Closed(terminal) ==
  /\ client.sock = "closing"
  /\ Become([client EXCEPT !.sock = "closed", !.watching = FALSE, !.retry = ~terminal, !.hello = FALSE,
                           !.status = IF terminal THEN "error" ELSE "disconnected"])
  /\ UNCHANGED <<owners, seq, due, disposed, req, closes, pushed>>

(* The shortest retry delay is longer than the grace period.               *)
RetryFires ==
  /\ client.retry /\ client.grace = 0
  /\ Connect([client EXCEPT !.retry = FALSE])
  /\ UNCHANGED <<owners, seq, due, disposed, req, pushed>>

-----------------------------------------------------------------------------
(* The coordinator.                                                        *)

Configure(o) ==
  /\ ~disposed /\ seq < MaxConfigs
  /\ seq' = seq + 1
  /\ owners' = [owners EXCEPT ![o] = seq + 1]
  /\ due' = TRUE
  /\ UNCHANGED <<disposed, client, available, req, closes, pushed>>

(* removeOwner, clearOwners                                                *)
Remove(gone) ==
  /\ \E o \in gone : owners[o] # 0
  /\ owners' = [o \in Owners |-> IF o \in gone THEN 0 ELSE owners[o]]
  /\ due' = TRUE
  /\ UNCHANGED <<seq, disposed, client, available, req, closes, pushed>>

DisposeBridge ==
  /\ ~disposed
  /\ disposed' = TRUE
  /\ owners' = [o \in Owners |-> 0]
  /\ due' = TRUE
  /\ UNCHANGED <<seq, client, available, req, closes, pushed>>

Newest == Max({0} \cup {owners[o] : o \in Owners})

(* releaseClient, createClient with connect, or reconfigure                *)
Reconcile ==
  /\ due /\ due' = FALSE
  /\ IF Newest = 0 THEN Become(NoClient) /\ req' = Aborted /\ UNCHANGED closes
     ELSE IF client.config = Newest THEN UNCHANGED <<client, available, req, closes>>
     ELSE Connect([Disconnected(client) EXCEPT !.config = Newest]) /\ req' = Aborted
  /\ UNCHANGED <<owners, seq, disposed, pushed>>

-----------------------------------------------------------------------------
(* routeInboundFrame.                                                      *)

Listening == client.watching /\ client.sock = "open"

(* Mutant: the snapshot survives the flush.                                *)
Flushed_Kept ==
  IF ctx.flush
  THEN [ctx EXCEPT !.flush = FALSE, !.held = IF Listening THEN "none" ELSE @]
  ELSE ctx

(* flushPending: the snapshot is given up, and a listening bridge told.    *)
Flushed ==
  IF ctx.flush
  THEN [ctx EXCEPT !.flush = FALSE, !.snapshot = "none", !.held = IF Listening THEN "none" ELSE @]
  ELSE ctx

(* snapshot: nothing is captured while the last capture is good.           *)
Captured == [Flushed EXCEPT !.snapshot = IF @ = "none" THEN "fresh" ELSE @]

Invoke(q) ==
  /\ client.sock = "open" /\ req[q].state # "running"
  /\ req' = [req EXCEPT ![q] = [state |-> "running", from |-> client.config, to |-> 0]]
  /\ UNCHANGED <<owners, seq, due, disposed, client, available, closes, pushed>>

(* The operation ends, is cancelled or meets its deadline: the answer is   *)
(* sent over the socket there is by then, if it is open.                   *)
Settle(q) ==
  /\ req[q].state = "running"
  /\ req' = [req EXCEPT ![q].state = "done", ![q].to = IF client.sock = "open" THEN client.config ELSE 0]
  /\ \/ UNCHANGED ctx
     \/ ctx' = [Captured EXCEPT !.held = IF Listening THEN Captured.snapshot ELSE @]
  /\ UNCHANGED <<owners, seq, due, disposed, client, available, closes, agreed>>

-----------------------------------------------------------------------------
(* What is pushed.                                                         *)

Change ==
  /\ LET age(copy) == IF copy = "fresh" THEN "old" ELSE copy
     IN ctx' = [flush |-> TRUE, snapshot |-> age(ctx.snapshot), held |-> age(ctx.held)]
  /\ UNCHANGED <<owners, seq, due, disposed, client, available, req, closes, agreed>>

Flush ==
  /\ ctx.flush
  /\ ctx' = Flushed
  /\ UNCHANGED <<owners, seq, due, disposed, client, available, req, closes, agreed>>

(* A prompt takes the context along.                                       *)
Capture ==
  /\ ctx' = Captured /\ ctx' # ctx
  /\ UNCHANGED <<owners, seq, due, disposed, client, available, req, closes, agreed>>

(* Plugins are enabled or disabled, perhaps back to what was told.         *)
Toggle ==
  /\ \E back \in BOOLEAN : agreed' = [print |-> ~agreed.print /\ back, told |-> ~agreed.told /\ back]
  /\ UNCHANGED <<owners, seq, due, disposed, client, available, req, closes, ctx>>

(* The capability timer                                                    *)
Watch ==
  /\ Listening /\ ~agreed.print
  /\ agreed' = [print |-> TRUE, told |-> TRUE]
  /\ ctx' = [ctx EXCEPT !.flush = TRUE]
  /\ UNCHANGED <<owners, seq, due, disposed, client, available, req, closes>>

BridgeNext ==
  \/ Opened \/ GraceEnds \/ Drop \/ Closed(TRUE) \/ Closed(FALSE) \/ RetryFires
  \/ \E o \in Owners : Configure(o) \/ Remove({o})
  \/ Remove(Owners) \/ DisposeBridge \/ Reconcile
  \/ \E q \in Requests : Invoke(q) \/ Settle(q)
  \/ Change \/ Flush \/ Capture \/ Toggle \/ Watch

BridgeSpec == BridgeInit /\ [][BridgeNext]_bridgeVars

(* Sockets open or close, timers fire, microtasks run, deadlines pass.     *)
BridgeFairness ==
  /\ WF_bridgeVars(Opened) /\ WF_bridgeVars(Closed(TRUE) \/ Closed(FALSE))
  /\ WF_bridgeVars(GraceEnds) /\ WF_bridgeVars(RetryFires) /\ WF_bridgeVars(Reconcile)
  /\ WF_bridgeVars(Flush) /\ WF_bridgeVars(Watch)
  /\ \A q \in Requests : WF_bridgeVars(Settle(q))

BridgeFairSpec == BridgeSpec /\ BridgeFairness

-----------------------------------------------------------------------------
Clients ==
  [config : 0..MaxConfigs,
   status : {"idle", "connecting", "hello_sent", "ready", "disconnected", "error"},
   sock : {"none", "connecting", "open", "closing", "closed"},
   retry : BOOLEAN, watching : BOOLEAN, grace : Nat, hello : BOOLEAN]
Invocations == [state : {"new", "running", "done"}, from : 0..MaxConfigs, to : 0..MaxConfigs]
Copies == {"none", "fresh", "old"}

BridgeTypeOK ==
  /\ owners \in [Owners -> 0..MaxConfigs] /\ seq \in 0..MaxConfigs
  /\ due \in BOOLEAN /\ disposed \in BOOLEAN /\ available \in BOOLEAN
  /\ client \in Clients
  /\ req \in [Requests -> Invocations]
  /\ closes \in 0..MaxCloses
  /\ agreed \in [print : BOOLEAN, told : BOOLEAN]
  /\ ctx \in [flush : BOOLEAN, snapshot : Copies, held : Copies]

(* The bridge counts as available only over a socket that has said hello   *)
(* and whose end has not been noticed, although the timer that makes it    *)
(* ready may be that of an earlier socket; and only then are Obsidian's    *)
(* changes watched.                                                        *)
AvailableSound ==
  /\ available => client.hello /\ client.sock \in {"open", "closing"}
  /\ available = client.watching
  /\ client.retry => client.sock = "closed"

(* What one view's session asked is never answered to the session of       *)
(* another view, or of the same view after it was given a new token.       *)
AnsweredWhereAsked == \A q \in Requests : req[q].to \in {0, req[q].from}

(* Between reconciliations the client serves the newest owner that is left.*)
NewestServed == ~due => client.config = Newest

(* An owner that stays gets the bridge, unless the runtime refused it for  *)
(* good: lost connections are made again and never wait for an event that  *)
(* was missed.                                                             *)
Comes == <>[](Newest # 0) => <>[](available \/ (client.status = "error" /\ ~client.retry))

(* What the bridge says of itself is so, and it serves the right view.     *)
BridgeSound == BridgeTypeOK /\ AvailableSound /\ NewestServed /\ AnsweredWhereAsked

(* What the runtime read while the bridge was available is still so, or a  *)
(* flush is due that will tell it otherwise.                               *)
HeldFresh == Listening /\ ctx.held = "old" => ctx.flush

(* Over a bridge that stays, the runtime learns again and again which      *)
(* plugins there are, and that what it read has changed.                   *)
Informed == <>[]available => []<>agreed.told /\ []<>(ctx.held # "old")
=============================================================================
