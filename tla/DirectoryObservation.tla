------------------------ MODULE DirectoryObservation ------------------------
(***************************************************************************)
(* ProjectDirectoryObservationService: folder renames of the vault are     *)
(* reported to the runtime over the bridge, one request at a time, in      *)
(* order, with bounded retries; whatever may have been missed is made good *)
(* by one rescan of the vault.                                             *)
(*                                                                         *)
(* A rename is its number.  A request and its answer are current until the *)
(* service stops waiting for that request; what they carry else is the     *)
(* observation or rescan they belong to.                                   *)
(***************************************************************************)
EXTENDS Naturals, Sequences, FiniteSets

CONSTANTS
  QueueLimit,   \* PROJECT_DIRECTORY_OBSERVATION_QUEUE_LIMIT
  MaxAttempts,  \* PROJECT_DIRECTORY_OBSERVATION_MAX_ATTEMPTS
  MaxRenames,   \* bound on folder renames
  MaxDrops,     \* bound on lost bridge connections
  MaxFaults,    \* bound on timeouts, retryable answers and declined requests
  Disposing     \* the plugin may be unloaded

ASSUME ConstantAssumption ==
  /\ {QueueLimit, MaxAttempts} \subseteq Nat \ {0}
  /\ {MaxRenames, MaxDrops, MaxFaults} \subseteq Nat
  /\ Disposing \in BOOLEAN

VARIABLES
  phase,    \* the service is new, started or disposed
  svc,      \* its availability, queue, pending rescan, request and timer
  bridge,   \* the bridge's socket
  up,       \* requests on their way to the runtime
  down,     \* answers on their way to the service
  renames,  \* how many folders were renamed so far
  known,    \* the renames that the runtime knows of
  missed,   \* history: renames since the last scan that the runtime declined to
            \* hear of, or that came too late for a rescan and too early for the queue
  tries,    \* history: requests since the last connection or final answer
  spent     \* drops and faults so far

network == <<up, down>>
vars == <<phase, svc, bridge, up, down, renames, known, missed, tries, spent>>

-----------------------------------------------------------------------------
Rescan == 0

Request(s) == [item |-> IF s.rescan THEN Rescan ELSE Head(s.queue), current |-> TRUE]
Answer(m, retryable) == [current |-> m.current, retryable |-> retryable]

Forget(messages) == [i \in DOMAIN messages |-> [messages[i] EXCEPT !.current = FALSE]]

Idle == [available |-> FALSE, rescan |-> FALSE, queue |-> <<>>, attempts |-> 0,
         inFlight |-> FALSE, retrying |-> FALSE]

Init ==
  /\ phase = "new"
  /\ svc = Idle
  /\ bridge = "down"
  /\ up = <<>> /\ down = <<>>
  /\ renames = 0 /\ known = {} /\ missed = {}
  /\ tries = 0
  /\ spent = [drops |-> 0, faults |-> 0]

Spend(what, limit) == spent[what] < limit /\ spent' = [spent EXCEPT ![what] = @ + 1]

-----------------------------------------------------------------------------
(* What the service's methods make of its state; attempts are those of the *)
(* item that is sent next.                                                 *)

Attempted(s) == [s EXCEPT !.attempts = @ + 1]
Waiting(s) == [s EXCEPT !.inFlight = TRUE]

(* retry of a rescan: once exhausted it waits for the next connection.     *)
RetryRescan(s) ==
  IF s.attempts < MaxAttempts
  THEN [s EXCEPT !.retrying = TRUE]
  ELSE [s EXCEPT !.attempts = 0, !.available = FALSE]

SendRescan(s, open) == IF open THEN Waiting(Attempted(s)) ELSE RetryRescan(Attempted(s))

(* requireRescan: a rescan that is pending already keeps its attempts.     *)
RequireRescan(s, open) ==
  LET t == [s EXCEPT !.inFlight = FALSE, !.retrying = FALSE, !.queue = <<>>,
                     !.rescan = TRUE, !.attempts = IF s.rescan THEN @ ELSE 0]
  IN IF s.available THEN SendRescan(t, open) ELSE t

(* retry                                                                   *)
Retry(s, open) ==
  IF s.rescan THEN RetryRescan(s)
  ELSE IF s.attempts < MaxAttempts THEN [s EXCEPT !.retrying = TRUE]
  ELSE RequireRescan(s, open)

SendObservation(s, open) == IF open THEN Waiting(Attempted(s)) ELSE Retry(Attempted(s), open)

(* pump                                                                    *)
Pump(s, open) ==
  IF ~s.available \/ s.inFlight \/ s.retrying THEN s
  ELSE IF s.rescan THEN SendRescan(s, open)
  ELSE IF s.queue # <<>> THEN SendObservation(s, open)
  ELSE s

(* The service, waiting for nothing, becomes s, which may wait for a       *)
(* request it has just sent.                                               *)
Deliver(s) ==
  /\ svc' = s
  /\ up' = IF s.inFlight THEN Append(Forget(up), Request(s)) ELSE Forget(up)
  /\ tries' = IF s.inFlight THEN tries + 1 ELSE tries

Open == bridge = "ready"

-----------------------------------------------------------------------------
(* start: the first rescan waits for the bridge.                           *)
Start ==
  /\ phase = "new"
  /\ phase' = "started"
  /\ LET s == [RequireRescan(svc, Open) EXCEPT !.available = (bridge # "down")]
     IN Deliver(Pump(s, Open))
  /\ UNCHANGED <<bridge, down, renames, known, missed, spent>>

(* dispose                                                                 *)
Dispose ==
  /\ Disposing
  /\ phase = "started"
  /\ phase' = "disposed"
  /\ svc' = [Idle EXCEPT !.available = svc.available]
  /\ up' = Forget(up) /\ down' = Forget(down)
  /\ UNCHANGED <<bridge, renames, known, missed, tries, spent>>

(* The bridge becomes ready: handleAvailability(true).                     *)
BridgeUp ==
  /\ bridge = "down"
  /\ bridge' = "ready"
  /\ IF phase = "started"
     THEN /\ svc' = Pump([svc EXCEPT !.available = TRUE], TRUE)
          /\ up' = IF svc'.inFlight THEN <<Request(svc')>> ELSE <<>>
          /\ tries' = IF svc'.inFlight THEN 1 ELSE 0
     ELSE UNCHANGED <<svc, up, tries>>
  /\ UNCHANGED <<phase, down, renames, known, missed, spent>>

(* The socket is closing: nothing can be sent, and nobody was told.        *)
BridgeClosing ==
  /\ bridge = "ready"
  /\ Spend("drops", MaxDrops)
  /\ bridge' = "closing"
  /\ UNCHANGED <<phase, svc, network, renames, known, missed, tries>>

(* The connection is lost, at once or after it was closing.                *)
Lost ==
  /\ \/ bridge = "ready" /\ Spend("drops", MaxDrops)
     \/ bridge = "closing" /\ UNCHANGED spent
  /\ bridge' = "down"
  /\ up' = <<>> /\ down' = <<>>

(* handleAvailability(false)                                               *)
BridgeDown ==
  /\ Lost
  /\ svc' = IF phase = "started" /\ svc.available
            THEN RequireRescan([svc EXCEPT !.available = FALSE], FALSE)
            ELSE svc
  /\ UNCHANGED <<phase, renames, known, missed, tries>>

(* The runtime has read the vault, or has declined to, and its answer is   *)
(* still awaited: the rescan is pending, but will not be repeated.         *)
Settling ==
  /\ svc.rescan
  /\ \E i \in DOMAIN down : down[i].current /\ ~down[i].retryable

(* Mutant: what does not fit into the queue is ignored.                    *)
ObserveRename_Overflowed(n) ==
  /\ IF phase = "started" /\ ~svc.rescan /\ Len(svc.queue) < QueueLimit
     THEN LET s == [svc EXCEPT !.queue = Append(@, n)]
          IN IF svc.inFlight
             THEN svc' = s /\ UNCHANGED <<up, tries>>
             ELSE Deliver(Pump(s, Open))
     ELSE UNCHANGED <<svc, up, tries>>
  /\ UNCHANGED down

(* observeRename: a rename is left to the rescan that is pending, or       *)
(* queued, or is the one too many that makes a rescan necessary.           *)
ObserveRename(n) ==
  IF phase # "started" \/ svc.rescan
  THEN UNCHANGED <<svc, network, tries>>
  ELSE IF Len(svc.queue) >= QueueLimit
  THEN Deliver(RequireRescan(svc, Open)) /\ down' = Forget(down)
  ELSE LET s == [svc EXCEPT !.queue = Append(@, n)]
       IN /\ UNCHANGED down
          /\ IF svc.inFlight
             THEN svc' = s /\ UNCHANGED <<up, tries>>
             ELSE Deliver(Pump(s, Open))

Rename ==
  /\ renames < MaxRenames
  /\ renames' = renames + 1
  /\ ObserveRename(renames + 1)
  /\ missed' = IF Settling THEN missed \cup {renames + 1} ELSE missed
  /\ UNCHANGED <<phase, bridge, known, spent>>

(* Mutant: an answer is taken for that of the request in flight.           *)
HandleResult_Unmatched ==
  LET s == [svc EXCEPT !.inFlight = FALSE]
      done == IF s.rescan THEN [s EXCEPT !.rescan = FALSE, !.attempts = 0]
              ELSE [s EXCEPT !.queue = Tail(@), !.attempts = 0]
  IN /\ Open
     /\ down # <<>>
     /\ down' = Forget(Tail(down))
     /\ IF ~svc.inFlight THEN UNCHANGED <<svc, up, tries>>
        ELSE IF Head(down).retryable THEN Deliver(Retry(s, Open))
        ELSE Deliver(Pump(done, Open))
     /\ UNCHANGED <<phase, bridge, renames, known, missed, spent>>

(* handleObservationResult, handleRescanResult: an answer to a request     *)
(* that is not waited for any more is ignored.  What need not be retried   *)
(* is done with, whatever became of it.                                    *)
HandleResult ==
  LET s == [svc EXCEPT !.inFlight = FALSE]
      done == IF s.rescan THEN [s EXCEPT !.rescan = FALSE, !.attempts = 0]
              ELSE [s EXCEPT !.queue = Tail(@), !.attempts = 0]
      next == Pump(done, Open)
  IN /\ Open
     /\ down # <<>>
     /\ IF ~Head(down).current
        THEN down' = Tail(down) /\ UNCHANGED <<svc, up, tries>>
        ELSE /\ down' = Forget(Tail(down))
             /\ IF Head(down).retryable
                THEN Deliver(Retry(s, Open))
                ELSE /\ svc' = next
                     /\ up' = IF next.inFlight THEN Append(Forget(up), Request(next)) ELSE Forget(up)
                     /\ tries' = IF next.inFlight THEN 1 ELSE 0
     /\ UNCHANGED <<phase, bridge, renames, known, missed, spent>>

(* Mutant: a request that is not answered is given up.                     *)
HandleTimeout_Forgotten ==
  /\ svc.inFlight
  /\ Spend("faults", MaxFaults)
  /\ svc' = [svc EXCEPT !.inFlight = FALSE]
  /\ up' = Forget(up)
  /\ down' = Forget(down)
  /\ UNCHANGED <<phase, bridge, renames, known, missed, tries>>

(* handleTimeout: the answer may still arrive.                             *)
HandleTimeout ==
  /\ svc.inFlight
  /\ Spend("faults", MaxFaults)
  /\ Deliver(Retry([svc EXCEPT !.inFlight = FALSE], Open))
  /\ down' = Forget(down)
  /\ UNCHANGED <<phase, bridge, renames, known, missed>>

(* The retry timer fires.                                                  *)
RetryTimer ==
  /\ svc.retrying
  /\ Deliver(Pump([svc EXCEPT !.retrying = FALSE], Open))
  /\ UNCHANGED <<phase, bridge, down, renames, known, missed, spent>>

-----------------------------------------------------------------------------
(* The runtime, as the connector relies on it *)

Take == bridge # "down" /\ up # <<>> /\ up' = Tail(up)

(* A request is carried out: an observation is taken over, or the vault    *)
(* is read.                                                                *)
Apply ==
  /\ Take
  /\ IF Head(up).item = Rescan
     THEN known' = 1..renames /\ missed' = {}
     ELSE known' = known \cup {Head(up).item} /\ UNCHANGED missed
  /\ down' = Append(down, Answer(Head(up), FALSE))
  /\ UNCHANGED <<phase, svc, bridge, renames, tries, spent>>

(* The runtime asks to be asked again.                                     *)
Refuse ==
  /\ Take
  /\ Spend("faults", MaxFaults)
  /\ down' = Append(down, Answer(Head(up), TRUE))
  /\ UNCHANGED <<phase, svc, bridge, renames, known, missed, tries>>

(* The runtime answers that it rejects the request, finds it in conflict   *)
(* or must be recovered first, and that asking again is of no use.         *)
Decline ==
  /\ Take
  /\ Spend("faults", MaxFaults)
  /\ missed' = IF Head(up).item = Rescan THEN 1..renames ELSE missed \cup {Head(up).item}
  /\ down' = Append(down, Answer(Head(up), FALSE))
  /\ UNCHANGED <<phase, svc, bridge, renames, known, tries>>

-----------------------------------------------------------------------------
Next ==
  \/ Start \/ Dispose
  \/ BridgeUp \/ BridgeClosing \/ BridgeDown
  \/ Rename \/ HandleResult \/ HandleTimeout \/ RetryTimer
  \/ Apply \/ Refuse \/ Decline

Spec == Init /\ [][Next]_vars

(* The runtime works off its requests, answers arrive, timers fire and a   *)
(* closing socket closes; the bridge need not come back.                   *)
FairSpec ==
  /\ Spec
  /\ WF_vars(Apply) /\ WF_vars(HandleResult) /\ WF_vars(RetryTimer)
  /\ WF_vars(bridge = "closing" /\ BridgeDown)

-----------------------------------------------------------------------------
Messages == [item : 0..MaxRenames, current : BOOLEAN]
Answers == [current : BOOLEAN, retryable : BOOLEAN]

(* A rescan's attempts can outgrow MaxAttempts by one for every connection *)
(* that is lost.                                                           *)
TypeOK ==
  /\ phase \in {"new", "started", "disposed"}
  /\ svc \in [available : BOOLEAN, rescan : BOOLEAN, queue : Seq(1..MaxRenames),
              attempts : 0..(MaxAttempts + MaxDrops), inFlight : BOOLEAN, retrying : BOOLEAN]
  /\ bridge \in {"down", "ready", "closing"}
  /\ up \in Seq(Messages) /\ down \in Seq(Answers)
  /\ renames \in 0..MaxRenames /\ known \subseteq 1..MaxRenames /\ missed \subseteq 1..MaxRenames
  /\ spent \in [drops : 0..MaxDrops, faults : 0..MaxFaults]

(* No rename is forgotten: the runtime knows of it or did not want to, or  *)
(* it waits in the queue, or a rescan will find it, unless it was made     *)
(* while a rescan was being answered.                                      *)
Accounted ==
  phase = "started" =>
    \A n \in 1..renames :
      n \in known \cup missed \/ svc.rescan \/ \E i \in DOMAIN svc.queue : svc.queue[i] = n

(* The service does not spin on a runtime that never answers: a connection *)
(* sees one exhausted observation and one exhausted rescan at most.        *)
Unspun == tries <= 2 * MaxAttempts

(* The runtime is told of renames in order, or is asked to read the whole  *)
(* vault, however often requests are lost, repeated or answered late.      *)
Mirror == INSTANCE DirectoryMirror WITH settling <- Settling
RefinesMirror == Mirror!Spec

(* While the bridge stays and the rescan is not exhausted, the runtime     *)
(* ends up knowing every rename that it did not decline and that was not   *)
(* made while a rescan was being answered.                                 *)
Converges == <>[](phase = "started" /\ svc.available) => <>[](known \cup missed = 1..renames)

(* No rename is forgotten, and a runtime that never answers costs a        *)
(* bounded number of attempts.                                             *)
Sound == TypeOK /\ Accounted /\ Unspun
=============================================================================
