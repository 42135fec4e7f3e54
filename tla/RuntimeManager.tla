--------------------------- MODULE RuntimeManager ---------------------------
(***************************************************************************)
(* DefaultChatobbyRuntimeManager in managed mode: one start attempt, one   *)
(* recovery and one closing operation (stop, commitMaintenance or detach)  *)
(* interleave at their awaits over the same fields, while the runtime      *)
(* processes serve, hang and exit on their own.                            *)
(*                                                                         *)
(* An instance is the id prepare() gives a launch; an id is used again     *)
(* once nothing refers to it.  The generation counter is the flag `live`   *)
(* of the attempt, which every increment clears.  A start may be asked for *)
(* at any time, also while a closing waits and after a detach; a second    *)
(* closing is not asked for while one waits.                               *)
(*                                                                         *)
(* What the code does not guard against is a mishap, and what is claimed   *)
(* is claimed of the time before one:                                      *)
(*   "forgone"    the restart timer fired while a cancelled start was      *)
(*                still ending, and nobody restarts (756)                  *)
(*   "overrun"    the end of a closing forgot what a start had set, one    *)
(*                asked for since or one still ending (246-248, 305-307)   *)
(*   "misjudged"  a runtime that answers but has no process handle was     *)
(*                given up, and lives on without a descriptor (736-741)    *)
(***************************************************************************)
EXTENDS Naturals

CONSTANTS
  Instances,    \* runtime instance ids
  None,         \* no instance
  CrashLoopAt,  \* failures within the window that open the breaker (5)
  MaxFaults,    \* bound on crashes, hangs, refused connections, bad packages
  Closings      \* which of "stop", "commit" and "detach" may be asked for

ASSUME ConstantAssumption ==
  /\ None \notin Instances
  /\ CrashLoopAt \in Nat \ {0}
  /\ MaxFaults \in Nat
  /\ Closings \subseteq {"stop", "commit", "detach"}

VARIABLES
  m,          \* the manager's fields, see Fields
  attempt,    \* ensurePromise: the start in flight and its locals
  recovery,   \* recoveryPromise and its locals
  closing,    \* the stop, commit or detach in flight and its locals
  watched,    \* instances whose exit watchProcess still waits for
  proc,       \* what each process is doing
  descriptor, \* the instance of the ready descriptor on disk
  tokens,     \* the instance whose credentials are on disk
  ours,       \* history: the processes this load launched or attached to
  mishap,     \* history: the last mishap, see above
  faults      \* faults so far

world == <<proc, descriptor, tokens, ours, mishap, faults>>
vars == <<m, attempt, recovery, closing, watched, world>>

Ids == Instances \cup {None}
States == {"idle", "resolving", "spawning", "authenticating", "ready", "stopping",
           "detached", "error", "failed", "crash_loop"}

(* The status listeners last saw ("failed" is an error without retryAt),   *)
(* desiredRunning, processHandle, candidate, readyRuntime, the failures    *)
(* the restart policy counts, whether its two timers are pending, and      *)
(* whether frontend sessions are bound (connectRuntime was called and      *)
(* disconnectRuntime not yet).                                             *)
Fields == [state : States, desired : BOOLEAN, handle : Ids, candidate : Ids, ready : Ids,
           failures : 0..CrashLoopAt, restart : BOOLEAN, stable : BOOLEAN, bound : BOOLEAN]

NoAttempt == [pc |-> "none", live |-> FALSE, inst |-> None, own |-> None, fatal |-> FALSE]
NoRecovery == [pc |-> "none", inst |-> None, own |-> None]
NoClosing == [pc |-> "none", kind |-> "none", cand |-> None, own |-> None]

Alive(i) == i # None /\ proc[i] # "gone"
Serving(i) == i # None /\ proc[i] = "serving"

(* readCandidate: the descriptor counts only with the credentials it was   *)
(* written for.                                                            *)
Found == IF descriptor = tokens THEN descriptor ELSE None

Fresh ==
  {i \in Instances : proc[i] = "gone"}
    \ ({m.handle, m.candidate, m.ready, recovery.inst, recovery.own, closing.cand, closing.own,
        descriptor} \cup watched)

-----------------------------------------------------------------------------
(* The plugin has just been loaded; a runtime of an earlier load may be    *)
(* there, answering or not, or only its descriptor.                        *)
Init ==
  /\ m = [state |-> "idle", desired |-> FALSE, handle |-> None, candidate |-> None,
          ready |-> None, failures |-> 0, restart |-> FALSE, stable |-> FALSE,
          bound |-> FALSE]
  /\ attempt = NoAttempt /\ recovery = NoRecovery /\ closing = NoClosing
  /\ watched = {}
  /\ descriptor \in Ids
  /\ tokens = descriptor
  /\ proc \in [Instances -> {"gone", "serving", "hung"}]
  /\ \A i \in Instances : proc[i] # "gone" => i = descriptor
  /\ ours = {}
  /\ mishap = "none"
  /\ faults = 0

Goto(point) == attempt' = [attempt EXCEPT !.pc = point]

(* assertCurrent                                                           *)
Current == attempt.live /\ m.desired

(* this.generation += 1                                                    *)
Cancel == attempt' = [attempt EXCEPT !.live = FALSE]

(* terminate(): the process is told to go, and its exit is expected.       *)
Kill(i) ==
  /\ proc' = IF Alive(i) THEN [proc EXCEPT ![i] = "killed"] ELSE proc
  /\ watched' = watched \ {i}

Fault == faults < MaxFaults /\ faults' = faults + 1

(* recordFailure and what its decision starts; failures older than the     *)
(* window are forgotten.  A restart that is already due is kept.           *)
FailAndRetry(fields) ==
  \E n \in 1..(fields.failures + 1) \cap 1..CrashLoopAt :
    m' = IF n = CrashLoopAt
         THEN [fields EXCEPT !.failures = n, !.state = "crash_loop"]
         ELSE [fields EXCEPT !.failures = n, !.state = "error", !.restart = TRUE]

(* The rest of ensureReadyInternal's catch, once the process it owned is   *)
(* gone: a cancelled attempt reports nothing.                              *)
Conclude(fatal, fields) ==
  /\ attempt' = NoAttempt
  /\ IF ~Current THEN m' = fields
     ELSE IF fatal THEN m' = [fields EXCEPT !.state = "failed"]
     ELSE FailAndRetry(fields)

(* Mutant: a failed start leaves the process it launched behind.           *)
Catch_Abandoning(owned, fatal, fields) ==
  Conclude(fatal, [fields EXCEPT !.handle = None]) /\ UNCHANGED <<watched, proc>>

(* The catch: processHandle, whoever set it, is taken and terminated.      *)
Catch(owned, fatal, fields) ==
  IF owned = None
  THEN Conclude(fatal, fields) /\ UNCHANGED <<watched, proc>>
  ELSE /\ attempt' = [attempt EXCEPT !.pc = "failing", !.own = owned, !.fatal = fatal]
       /\ m' = [fields EXCEPT !.handle = None]
       /\ Kill(owned)

Fails == Catch(m.handle, FALSE, m) /\ UNCHANGED <<recovery, closing, descriptor, tokens, ours, mishap, faults>>

-----------------------------------------------------------------------------
(* ensureReady, whenever somebody asks: a ready runtime is returned, a     *)
(* start in flight is joined, also one that has been cancelled.            *)
Wanted == attempt.pc = "none" /\ ~(m.ready # None /\ m.state = "ready")

Begin(fields) ==
  /\ m' = [fields EXCEPT !.desired = TRUE, !.state = "resolving"]
  /\ attempt' = [NoAttempt EXCEPT !.pc = "resolving", !.live = TRUE]

Ensure ==
  /\ Wanted
  /\ Begin(m)
  /\ UNCHANGED <<recovery, closing, watched, world>>

(* scheduleRestart's timer, which leaves a start in flight alone, also one *)
(* that has been cancelled.                                                *)
RestartFires ==
  /\ m.restart
  /\ LET fields == [m EXCEPT !.restart = FALSE]
     IN IF m.desired /\ Wanted THEN Begin(fields) ELSE m' = fields /\ UNCHANGED attempt
  /\ mishap' = IF mishap = "none" /\ m.desired /\ attempt.pc # "none" /\ ~attempt.live
               THEN "forgone" ELSE mishap
  /\ UNCHANGED <<recovery, closing, watched, proc, descriptor, tokens, ours, faults>>

StabilityFires ==
  /\ m.stable
  /\ m' = [m EXCEPT !.stable = FALSE, !.failures = 0]
  /\ UNCHANGED <<attempt, recovery, closing, watched, world>>

(* An await of the attempt returns and assertCurrent throws.               *)
Cancelled ==
  /\ attempt.pc \in {"resolving", "reading", "preparing", "prepared", "waiting"}
  /\ ~Current
  /\ Fails

(* resolveManagedCommand; no package, or a damaged one, is not retried.    *)
Resolve ==
  /\ attempt.pc = "resolving"
  /\ Current
  /\ \/ Goto("reading") /\ UNCHANGED <<m, watched, proc, faults>>
     \/ Fault /\ Catch(m.handle, TRUE, m)
  /\ UNCHANGED <<recovery, closing, descriptor, tokens, ours, mishap>>

(* The runtime on disk, if any, is probed.                                 *)
ReadExisting ==
  /\ attempt.pc = "reading"
  /\ Current
  /\ attempt' = [attempt EXCEPT !.pc = IF Found = None THEN "preparing" ELSE "probing",
                                !.inst = Found]
  /\ UNCHANGED <<m, recovery, closing, watched, world>>

(* authenticateCandidate: connectRuntime is called.                        *)
Authenticate ==
  IF Current
  THEN /\ Goto("authenticating")
       /\ m' = [m EXCEPT !.state = "authenticating", !.bound = TRUE]
       /\ UNCHANGED <<watched, proc>>
  ELSE Catch(m.handle, FALSE, m)

(* A runtime that answers, or is only alive, is authenticated; the         *)
(* descriptor of a dead one is discarded.                                  *)
ProbeExisting ==
  /\ attempt.pc = "probing"
  /\ IF Alive(attempt.inst) THEN Authenticate ELSE Goto("discarding") /\ UNCHANGED <<m, watched, proc>>
  /\ UNCHANGED <<recovery, closing, descriptor, tokens, ours, mishap, faults>>

DiscardStale ==
  /\ attempt.pc = "discarding"
  /\ descriptor' = None
  /\ attempt' = [attempt EXCEPT !.pc = "preparing", !.inst = None]
  /\ UNCHANGED <<m, recovery, closing, watched, proc, tokens, ours, mishap, faults>>

(* prepare: a new instance id, and its credentials over the earlier ones   *)
Prepare ==
  /\ attempt.pc = "preparing"
  /\ Current
  /\ \E i \in Fresh : tokens' = i /\ attempt' = [attempt EXCEPT !.pc = "prepared", !.inst = i]
  /\ UNCHANGED <<m, recovery, closing, watched, proc, descriptor, ours, mishap, faults>>

(* The system closes the sockets of a process that is gone; only those of  *)
(* one that hangs keep disconnectRuntime waiting (5 s).                    *)
SocketsClosing == recovery.pc = "discarding" /\ ~Alive(recovery.inst)

Launch ==
  /\ attempt.pc = "prepared"
  /\ Current
  /\ ~SocketsClosing
  /\ Goto("spawning")
  /\ m' = [m EXCEPT !.state = "spawning"]
  /\ UNCHANGED <<recovery, closing, watched, world>>

(* The child exists before the manager looks whether it is still wanted.   *)
Spawned ==
  /\ attempt.pc = "spawning"
  /\ IF Current
     THEN /\ attempt' = [attempt EXCEPT !.pc = "waiting", !.own = attempt.inst]
          /\ m' = [m EXCEPT !.handle = attempt.inst]
          /\ proc' = [proc EXCEPT ![attempt.inst] = "starting"]
     ELSE /\ attempt' = [attempt EXCEPT !.pc = "failing", !.own = attempt.inst]
          /\ m' = [m EXCEPT !.handle = None]
          /\ proc' = [proc EXCEPT ![attempt.inst] = "killed"]
  /\ ours' = ours \cup {attempt.inst}
  /\ UNCHANGED <<recovery, closing, watched, descriptor, tokens, mishap, faults>>

(* No room for the credentials, or no process; the latter may be final.    *)
LaunchFails ==
  /\ attempt.pc \in {"preparing", "spawning"}
  /\ Fault
  /\ \E fatal \in BOOLEAN : Catch(m.handle, fatal /\ attempt.pc = "spawning", m)
  /\ UNCHANGED <<recovery, closing, descriptor, tokens, ours, mishap>>

(* waitForCandidate: the descriptor of this instance, or the end of the    *)
(* process, or of the time there is; a process that is slow is a fault.    *)
CandidateAppears ==
  /\ attempt.pc = "waiting"
  /\ Current
  /\ Found = attempt.inst
  /\ Goto("verifying")
  /\ UNCHANGED <<m, recovery, closing, watched, world>>

WaitEnds ==
  /\ attempt.pc = "waiting"
  /\ Current
  /\ Found # attempt.inst
  /\ IF proc[attempt.inst] = "starting" THEN Fault ELSE UNCHANGED faults
  /\ Catch(m.handle, FALSE, m)
  /\ UNCHANGED <<recovery, closing, descriptor, tokens, ours, mishap>>

(* The control probe of the launched runtime; it may fail though the       *)
(* runtime answers others.                                                 *)
Verify ==
  /\ attempt.pc = "verifying"
  /\ \/ Serving(attempt.inst) /\ Authenticate /\ UNCHANGED faults
     \/ ~Serving(attempt.inst) /\ Catch(m.handle, FALSE, m) /\ UNCHANGED faults
     \/ Fault /\ Catch(m.handle, FALSE, m)
  /\ UNCHANGED <<recovery, closing, descriptor, tokens, ours, mishap>>

(* connectRuntime succeeded and the attempt is still wanted: acceptReady   *)
Accept ==
  /\ attempt.pc = "authenticating"
  /\ Serving(attempt.inst)
  /\ Current
  /\ m' = [m EXCEPT !.state = "ready", !.ready = attempt.inst, !.candidate = attempt.inst,
                    !.handle = attempt.own, !.stable = TRUE]
  /\ watched' = watched \cup ({attempt.own} \ {None})
  /\ attempt' = NoAttempt
  /\ ours' = ours \cup {attempt.inst}
  /\ UNCHANGED <<recovery, closing, proc, descriptor, tokens, mishap, faults>>

(* connectRuntime rejected, timed out or came too late; a late success is  *)
(* undone by another disconnectRuntime.                                    *)
AuthenticationFails ==
  /\ attempt.pc = "authenticating"
  /\ \/ ~(Serving(attempt.inst) /\ Current) /\ UNCHANGED faults
     \/ Serving(attempt.inst) /\ Current /\ Fault
  /\ Catch(m.handle, FALSE, [m EXCEPT !.bound = @ /\ Current])
  /\ UNCHANGED <<recovery, closing, descriptor, tokens, ours, mishap>>

(* The process the attempt had to terminate is gone.                       *)
Cleaned ==
  /\ attempt.pc = "failing"
  /\ ~Alive(attempt.own)
  /\ Conclude(attempt.fatal, m)
  /\ UNCHANGED <<recovery, closing, watched, world>>

Attempt ==
  \/ Cancelled \/ Resolve \/ ReadExisting \/ ProbeExisting \/ DiscardStale \/ Prepare
  \/ Launch \/ Spawned \/ LaunchFails \/ CandidateAppears \/ WaitEnds \/ Verify \/ Accept
  \/ AuthenticationFails \/ Cleaned

-----------------------------------------------------------------------------
(* watchProcess: a ready runtime exited and nobody had terminated it.      *)
ExitSeen(i) ==
  /\ i \in watched
  /\ ~Alive(i)
  /\ watched' = watched \ {i}
  /\ LET fields == [m EXCEPT !.handle = None, !.ready = None, !.candidate = None]
     IN IF m.handle # i THEN UNCHANGED m
        ELSE IF m.desired THEN FailAndRetry(fields) ELSE m' = fields
  /\ UNCHANGED <<attempt, recovery, closing, world>>

(* reportConnectionFailure: a transport has given up on the runtime.       *)
Report ==
  /\ recovery.pc = "none"
  /\ m.bound /\ m.desired /\ m.ready # None /\ m.candidate # None
  /\ recovery' = [NoRecovery EXCEPT !.pc = "probing", !.inst = m.ready]
  /\ UNCHANGED <<m, attempt, closing, watched, world>>

(* The control probe answers, or somebody has moved on.                    *)
Answers ==
  /\ recovery.pc = "probing"
  /\ \/ Serving(recovery.inst) \/ m.ready # recovery.inst \/ m.candidate # recovery.inst
     \/ ~m.desired
  /\ recovery' = NoRecovery
  /\ UNCHANGED <<m, attempt, closing, watched, world>>

(* The probe fails, and the runtime is given up: one that answers is a     *)
(* mishap when there is no process to terminate.                           *)
GiveUp ==
  /\ recovery.pc = "probing"
  /\ m.ready = recovery.inst /\ m.candidate = recovery.inst /\ m.desired
  /\ IF Serving(recovery.inst) THEN Fault ELSE UNCHANGED faults
  /\ mishap' = IF Serving(recovery.inst) /\ m.handle = None THEN "misjudged" ELSE mishap
  /\ recovery' = [recovery EXCEPT !.pc = "discarding", !.own = m.handle]
  /\ m' = [m EXCEPT !.handle = None, !.ready = None, !.candidate = None,
                    !.restart = FALSE, !.stable = FALSE, !.bound = FALSE]
  /\ Cancel
  /\ UNCHANGED <<closing, watched, proc, descriptor, tokens, ours>>

(* Mutant: the recovery reports the loss and leaves the restart to others. *)
RetryNow_Silent == m' = IF m.desired THEN [m EXCEPT !.state = "error"] ELSE m

RetryNow == m' = IF m.desired THEN [m EXCEPT !.state = "error", !.restart = TRUE] ELSE m

(* Mutant: a runtime that does not answer is forgotten, not terminated.    *)
DiscardLost_Lenient ==
  /\ recovery.pc = "discarding"
  /\ descriptor' = None
  /\ recovery' = NoRecovery
  /\ RetryNow
  /\ UNCHANGED <<attempt, closing, watched, proc, tokens, ours, mishap, faults>>

DiscardLost ==
  /\ recovery.pc = "discarding"
  /\ descriptor' = None
  /\ Kill(recovery.own)
  /\ IF Alive(recovery.own)
     THEN recovery' = [recovery EXCEPT !.pc = "terminating"] /\ UNCHANGED m
     ELSE recovery' = NoRecovery /\ RetryNow
  /\ UNCHANGED <<attempt, closing, tokens, ours, mishap, faults>>

Recovered ==
  /\ recovery.pc = "terminating"
  /\ ~Alive(recovery.own)
  /\ recovery' = NoRecovery
  /\ RetryNow
  /\ UNCHANGED <<attempt, closing, watched, world>>

Recovery == Report \/ Answers \/ GiveUp \/ DiscardLost \/ Recovered

-----------------------------------------------------------------------------
(* What stop, disconnectCommittedRuntime and detach begin with.            *)
Withdrawn == [m EXCEPT !.desired = FALSE, !.restart = FALSE, !.stable = FALSE, !.bound = FALSE]

Forgotten == [m EXCEPT !.ready = None, !.candidate = None, !.handle = None]

AskedToLeave(i) == IF Serving(i) THEN [proc EXCEPT ![i] = "leaving"] ELSE proc

(* A stop, or the first half of a restart, which forgets the failures; its *)
(* second half is Ensure.                                                  *)
BeginStop ==
  /\ "stop" \in Closings
  /\ closing.pc = "none"
  /\ \E n \in {0, m.failures} : m' = [Withdrawn EXCEPT !.state = "stopping", !.failures = n]
  /\ Cancel
  /\ closing' = [NoClosing EXCEPT !.pc = "draining", !.kind = "stop"]
  /\ UNCHANGED <<recovery, watched, world>>

(* The start that was in flight has cleaned up after itself (one that is   *)
(* wanted is a later one); now the runtime is asked to shut down.  One     *)
(* that has no handle and does not answer makes stop throw.                *)
Drain ==
  /\ closing.pc = "draining"
  /\ attempt.pc = "none" \/ m.desired
  /\ \E obeys \in {Serving(m.candidate), FALSE} :
       /\ proc' = IF obeys THEN AskedToLeave(m.candidate) ELSE proc
       /\ IF obeys # Serving(m.candidate) THEN Fault ELSE UNCHANGED faults
       /\ closing' = IF m.handle = None /\ Alive(m.candidate) /\ ~obeys
                     THEN NoClosing
                     ELSE [closing EXCEPT !.pc = "exiting", !.cand = m.candidate, !.own = m.handle]
  /\ UNCHANGED <<m, attempt, recovery, watched, descriptor, tokens, ours, mishap>>

(* commitMaintenance: the runtime has agreed to make room for an update.   *)
Commit ==
  /\ "commit" \in Closings
  /\ closing.pc = "none"
  /\ Serving(m.candidate)
  /\ proc' = AskedToLeave(m.candidate)
  /\ m' = [Withdrawn EXCEPT !.state = "stopping"]
  /\ Cancel
  /\ closing' = [pc |-> "exiting", kind |-> "commit", cand |-> m.candidate, own |-> m.handle]
  /\ UNCHANGED <<recovery, watched, descriptor, tokens, ours, mishap, faults>>

(* The shutdown time is over: an owned process is terminated, an adopted   *)
(* one that is still there makes the operation throw.  A control probe is  *)
(* given up sooner than that.                                              *)
ExitOverdue ==
  /\ closing.pc = "exiting"
  /\ recovery.pc # "probing"
  /\ \/ Alive(closing.own) /\ Kill(closing.own) /\ UNCHANGED closing
     \/ closing.own = None /\ Alive(closing.cand) /\ closing' = NoClosing /\ UNCHANGED <<proc, watched>>
  /\ UNCHANGED <<m, attempt, recovery, descriptor, tokens, ours, mishap, faults>>

Closed ==
  /\ closing.pc = "exiting"
  /\ ~Alive(IF closing.own # None THEN closing.own ELSE closing.cand)
  /\ m' = [Forgotten EXCEPT !.state = "idle"]
  /\ mishap' = IF m.desired THEN "overrun" ELSE mishap
  /\ descriptor' = IF closing.kind = "commit" THEN None ELSE descriptor
  /\ closing' = NoClosing
  /\ UNCHANGED <<attempt, recovery, watched, proc, tokens, ours, faults>>

(* detach, on unloading or when the mode changes: the runtime is told to   *)
(* wait for another attachment; the start in flight, if any, is left to    *)
(* find out.                                                               *)
BeginDetach ==
  /\ "detach" \in Closings
  /\ closing.pc = "none"
  /\ m' = Withdrawn
  /\ Cancel
  /\ closing' = [NoClosing EXCEPT !.pc = "detaching", !.kind = "detach"]
  /\ UNCHANGED <<recovery, watched, world>>

(* A start holds the process it launched.                                  *)
Holding == attempt.pc \in {"waiting", "verifying", "authenticating"} /\ attempt.own # None

Detached ==
  /\ closing.pc = "detaching"
  /\ m' = [Forgotten EXCEPT !.state = "detached", !.bound = FALSE]
  /\ mishap' = IF m.desired \/ Holding THEN "overrun" ELSE mishap
  /\ closing' = NoClosing
  /\ ours' = {}
  /\ UNCHANGED <<attempt, recovery, watched, proc, descriptor, tokens, faults>>

Close == Drain \/ ExitOverdue \/ Closed \/ Detached

-----------------------------------------------------------------------------
(* The runtime processes.                                                  *)
Serve(i) ==
  /\ proc[i] = "starting"
  /\ proc' = [proc EXCEPT ![i] = "serving"]
  /\ descriptor' = i
  /\ UNCHANGED <<m, attempt, recovery, closing, watched, tokens, ours, mishap, faults>>

(* A process that was terminated or asked to leave goes, and may take its  *)
(* descriptor along.                                                       *)
Exit(i) ==
  /\ proc[i] \in {"killed", "leaving"}
  /\ proc' = [proc EXCEPT ![i] = "gone"]
  /\ descriptor' \in {descriptor, IF descriptor = i THEN None ELSE descriptor}
  /\ UNCHANGED <<m, attempt, recovery, closing, watched, tokens, ours, mishap, faults>>

Crash(i) ==
  /\ Fault
  /\ proc[i] \in {"starting", "serving", "leaving"}
  /\ proc' \in {[proc EXCEPT ![i] = "gone"], [proc EXCEPT ![i] = "hung"]}
  /\ UNCHANGED <<m, attempt, recovery, closing, watched, descriptor, tokens, ours, mishap>>

World(i) == ExitSeen(i) \/ Serve(i) \/ Exit(i)

Next ==
  \/ Ensure \/ RestartFires \/ StabilityFires
  \/ Attempt \/ Recovery
  \/ BeginStop \/ Commit \/ BeginDetach \/ Close
  \/ \E i \in Instances : World(i) \/ Crash(i)

Spec == Init /\ [][Next]_vars

(* Awaits return, timers fire, processes start and end, and a transport    *)
(* notices a runtime that does not answer.                                 *)
Fairness ==
  /\ WF_vars(RestartFires)
  /\ WF_vars(Attempt)
  /\ WF_vars(Recovery)
  /\ WF_vars(Close)
  /\ \A i \in Instances : WF_vars(World(i))

FairSpec == Spec /\ Fairness

-----------------------------------------------------------------------------
Attempts ==
  [pc : {"none", "resolving", "reading", "probing", "discarding", "preparing", "prepared",
         "spawning", "waiting", "verifying", "authenticating", "failing"},
   live : BOOLEAN, inst : Ids, own : Ids, fatal : BOOLEAN]
Recoveries == [pc : {"none", "probing", "discarding", "terminating"}, inst : Ids, own : Ids]
Withdrawals ==
  [pc : {"none", "draining", "exiting", "detaching"}, kind : {"none", "stop", "commit", "detach"},
   cand : Ids, own : Ids]
Processes == [Instances -> {"gone", "starting", "serving", "hung", "leaving", "killed"}]

TypeOK ==
  /\ m \in Fields
  /\ attempt \in Attempts /\ recovery \in Recoveries /\ closing \in Withdrawals
  /\ watched \subseteq Instances /\ proc \in Processes
  /\ descriptor \in Ids /\ tokens \in Ids
  /\ ours \subseteq Instances
  /\ mishap \in {"none", "forgone", "overrun", "misjudged"}
  /\ faults \in 0..MaxFaults

(* The states whose safety is claimed: a restart that was forgone harms    *)
(* nothing but progress.                                                   *)
Orderly == mishap \in {"none", "forgone"}

(* The bound on what a run explores                                        *)
Untroubled == mishap = "none"

(* Before a mishap two runtimes never answer for one vault: a second one   *)
(* is launched only when the first is gone or was given up, whatever       *)
(* starts are asked for while a closing waits.                             *)
OneServing == Orderly => \A i, j \in Instances : proc[i] = "serving" /\ proc[j] = "serving" => i = j

(* Once the manager has stopped and nobody has asked again, no runtime it  *)
(* started is coming up or answering, unless the end of a closing forgot   *)
(* one.                                                                    *)
StopMeansStopped ==
  Orderly /\ m.state = "idle" /\ ~m.desired /\ closing.pc = "none" /\ attempt.pc = "none" =>
    \A i \in ours \ {recovery.own} : proc[i] \notin {"starting", "serving"}

(* A runtime that comes up or answers can be found: some part of the       *)
(* manager, or the next start by its descriptor and credentials, leads to  *)
(* it.                                                                     *)
Reachable ==
  Orderly => \A i \in Instances :
    proc[i] \in {"starting", "serving"} =>
      i \in {m.handle, m.candidate, tokens, attempt.inst, recovery.own, closing.own}

(* A ready runtime is one the manager can shut down, unless it is being    *)
(* given up or left to the next load.                                      *)
ReadyOwned ==
  Orderly /\ m.state = "ready" /\ recovery.pc \in {"none", "probing"} /\ closing.pc # "detaching" =>
    m.desired /\ m.ready # None /\ m.candidate = m.ready /\ m.handle \in {None, m.ready}

(* Who asks for the runtime gets it, or a final answer, or takes it back,  *)
(* unless a process hangs for ever or a mishap happens: between the timer, *)
(* the recovery and a start in flight a retry is lost only when the timer  *)
(* fires during the end of a cancelled start.                              *)
Answered ==
  []Untroubled /\ <>[](\A i \in Instances : proc[i] # "hung") =>
    (m.desired ~> (m.state \in {"ready", "failed", "crash_loop"} \/ ~m.desired))

(* Never two runtimes that answer; every runtime that lives has an owner,  *)
(* and a ready one the manager.                                            *)
Sound == TypeOK /\ OneServing /\ ReadyOwned /\ Reachable
=============================================================================
