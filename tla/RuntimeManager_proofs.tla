------------------------ MODULE RuntimeManager_proofs ------------------------
(* Proofs about RuntimeManager, for every set of instances and all bounds. *)
EXTENDS RuntimeManager, TLAPS

-----------------------------------------------------------------------------
(* The inductive invariant.                                                *)

(* A process that answers or may come to answer                            *)
Live(i) == proc[i] \in {"starting", "serving"}

(* The recovery has taken a runtime from the manager and has yet to        *)
(* discard it.                                                             *)
Discarding == recovery.pc = "discarding"

(* Where the attempt is agrees with what it refers to.                     *)
AttemptShape ==
  /\ attempt.pc = "none" => ~attempt.live /\ attempt.inst = None /\ attempt.own = None
  /\ attempt.pc \in {"resolving", "reading", "probing", "discarding", "preparing", "prepared", "spawning"} =>
       attempt.own = None
  /\ attempt.pc \in {"waiting", "verifying"} => attempt.own = attempt.inst
  /\ attempt.pc = "authenticating" => attempt.own \in {None, attempt.inst}
  /\ attempt.pc \in {"probing", "discarding", "prepared", "spawning", "waiting", "verifying", "authenticating"} =>
       attempt.inst = tokens /\ attempt.inst # None

(* What is wanted, shown and closed agree.  While a closing waits, what is *)
(* wanted was asked for after it began.                                    *)
ControlShape ==
  /\ attempt.live => m.desired
  /\ closing.pc = "none" => closing.kind = "none"
  /\ closing.pc = "draining" => closing.kind = "stop"
  /\ closing.pc = "detaching" => closing.kind = "detach"
  /\ closing.pc = "exiting" => closing.kind \in {"stop", "commit"}
  /\ closing.kind = "commit" => closing.own \in {None, closing.cand}
  /\ closing.pc = "exiting" /\ closing.kind = "stop" /\ ~m.desired => attempt.pc = "none"
  /\ m.state \in {"idle", "detached"} => ~m.desired
  /\ m.state = "ready" => attempt.pc = "none"
  /\ m.state = "ready" /\ closing.pc # "detaching" => m.desired
  /\ recovery.pc # "none" => recovery.inst # None

(* At most one process is live, and the credentials or the recovery lead   *)
(* to it.                                                                  *)
OneLive ==
  /\ \A i, j \in Instances : Live(i) /\ Live(j) => i = j
  /\ \A i \in Instances : Live(i) => i = tokens \/ Discarding
  /\ \A i \in Instances : Live(i) /\ Found # None => i = Found

(* While a runtime is given up, nothing else is live.  As long as its      *)
(* process is there the next start finds it; once it is gone the next      *)
(* start waits at its launch.                                              *)
GivenUp ==
  Discarding =>
    /\ \A i \in Instances : Live(i) => i = recovery.own
    /\ proc[recovery.inst] # "starting"
    /\ m.ready \in {None, recovery.own}
    /\ Alive(recovery.inst) => Found = recovery.inst
    /\ attempt.live => attempt.pc \notin {"spawning", "waiting", "verifying"}
    /\ attempt.live /\ attempt.pc = "authenticating" => attempt.own = None
    /\ attempt.live /\ Alive(recovery.inst) => attempt.pc \notin {"discarding", "preparing", "prepared"}
    /\ closing.kind = "commit" /\ ~m.desired /\ Alive(recovery.inst) => recovery.inst = closing.cand

(* A start on its way to a launch has nothing live beside it.              *)
Cleared ==
  /\ attempt.pc = "probing" => \A i \in Instances : Live(i) => i = attempt.inst
  /\ attempt.pc = "discarding" => ~Alive(attempt.inst) /\ \A i \in Instances : ~Live(i)
  /\ attempt.pc \in {"preparing", "prepared"} => \A i \in Instances : Live(i) => Discarding
  /\ attempt.pc = "spawning" => \A i \in Instances : ~Live(i)
  /\ attempt.pc = "preparing" =>
       ~Alive(m.ready) \/ (recovery.pc = "terminating" /\ recovery.own = m.ready)
  /\ attempt.pc \in {"prepared", "spawning"} =>
       /\ proc[attempt.inst] = "gone"
       /\ attempt.inst \notin {m.ready, m.candidate, recovery.inst}

(* The next start can find what is live.                                   *)
Findable ==
  /\ Alive(m.ready) => Found = m.ready \/ (recovery.pc = "terminating" /\ recovery.own = m.ready)
  /\ attempt.pc \in {"probing", "verifying", "authenticating"} /\ Live(attempt.inst) => Found = attempt.inst
  /\ \A i \in Instances : Live(i) => Found = i \/ Discarding \/ (Holding /\ attempt.own = i)

(* The manager holds what is live.                                         *)
Held ==
  /\ m.ready # None => proc[m.ready] # "starting"
  /\ m.candidate # None => proc[m.candidate] # "starting"
  /\ \A i \in Instances : m.ready # None /\ Live(i) => i \in {m.ready, m.handle} \/ Discarding
  /\ Holding /\ Live(attempt.own) => m.handle = attempt.own \/ Discarding
  /\ m.candidate # None /\ Live(m.candidate) => m.handle \in {None, m.candidate}
  /\ \A i \in ours : Live(i) => i = m.candidate \/ Discarding \/ (Holding /\ attempt.own = i)

(* What stop and commitMaintenance leave behind when nobody asks again.    *)
Silenced ==
  /\ closing.kind = "commit" /\ ~m.desired => \A i \in Instances : ~Live(i)
  /\ closing.pc = "exiting" /\ ~m.desired =>
       \A i \in ours : Live(i) => (Discarding /\ i = recovery.own) \/ i = closing.own
  /\ m.state \in {"idle", "detached"} => \A i \in ours : Live(i) => Discarding /\ i = recovery.own

(* What holds as long as the manager is orderly.                           *)
Kept ==
  /\ ControlShape /\ ReadyOwned /\ OneLive /\ GivenUp /\ Cleared /\ Findable /\ Held /\ Silenced

Inv == TypeOK /\ AttemptShape /\ (Orderly => Kept)

Full == TypeOK /\ AttemptShape /\ Kept

-----------------------------------------------------------------------------
(* Types.                                                                  *)

LEMMA KillType ==
  ASSUME TypeOK, NEW i \in Ids, Kill(i)
  PROVE  watched' \subseteq Instances /\ proc' \in Processes
BY DEF TypeOK, Kill, Alive, Ids, Processes

LEMMA FailAndRetryType ==
  ASSUME NEW f \in Fields, FailAndRetry(f)
  PROVE  m' \in Fields
<1>1. PICK n \in 1..(f.failures + 1) \cap 1..CrashLoopAt :
        m' = IF n = CrashLoopAt
             THEN [f EXCEPT !.failures = n, !.state = "crash_loop"]
             ELSE [f EXCEPT !.failures = n, !.state = "error", !.restart = TRUE]
  BY DEF FailAndRetry
<1>2. n \in 0..CrashLoopAt
  BY ConstantAssumption
<1>3. [f EXCEPT !.failures = n, !.state = "crash_loop"] \in Fields
  BY <1>2, Zenon DEF Fields, States
<1>4. [f EXCEPT !.failures = n, !.state = "error", !.restart = TRUE] \in Fields
  BY <1>2, Zenon DEF Fields, States
<1> QED BY <1>1, <1>3, <1>4

LEMMA ConcludeType ==
  ASSUME NEW f \in Fields, NEW fatal, Conclude(fatal, f)
  PROVE  m' \in Fields /\ attempt' = NoAttempt
<1>1. [f EXCEPT !.state = "failed"] \in Fields
  BY Zenon DEF Fields, States
<1> QED BY <1>1, FailAndRetryType DEF Conclude

LEMMA EmptyTypes ==
  NoAttempt \in Attempts /\ NoRecovery \in Recoveries /\ NoClosing \in Withdrawals
BY Zenon DEF NoAttempt, NoRecovery, NoClosing, Attempts, Recoveries, Withdrawals, Ids

LEMMA CatchType ==
  ASSUME TypeOK, NEW f \in Fields, NEW owned \in Ids, NEW fatal \in BOOLEAN, Catch(owned, fatal, f)
  PROVE  m' \in Fields /\ attempt' \in Attempts /\ watched' \subseteq Instances /\ proc' \in Processes
<1>1. CASE owned = None
  BY <1>1, ConcludeType, EmptyTypes DEF Catch, TypeOK
<1>2. CASE owned # None
  <2>1. [f EXCEPT !.handle = None] \in Fields
    BY Zenon DEF Fields, Ids
  <2>2. [attempt EXCEPT !.pc = "failing", !.own = owned, !.fatal = fatal] \in Attempts
    BY Zenon DEF TypeOK, Attempts
  <2> QED BY <1>2, <2>1, <2>2, KillType DEF Catch
<1> QED BY <1>1, <1>2

(* What Cancelled, WaitEnds and the other failing steps of an attempt do   *)
LEMMA FailsType ==
  ASSUME TypeOK, NEW f \in Fields, NEW fatal \in BOOLEAN, Catch(m.handle, fatal, f),
         UNCHANGED <<recovery, closing, descriptor, tokens, ours, mishap>>, faults' \in 0..MaxFaults
  PROVE  TypeOK'
<1>1. m.handle \in Ids
  BY Zenon DEF TypeOK, Fields
<1> QED BY <1>1, CatchType DEF TypeOK

LEMMA FaultType == ASSUME TypeOK, Fault PROVE faults' \in 0..MaxFaults
BY ConstantAssumption DEF TypeOK, Fault

LEMMA GotoType ==
  ASSUME TypeOK, NEW pc, Goto(pc),
         pc \in {"reading", "discarding", "spawning", "verifying", "authenticating"}
  PROVE  attempt' \in Attempts
BY Zenon DEF TypeOK, Goto, Attempts

LEMMA CancelType == ASSUME TypeOK, Cancel PROVE attempt' \in Attempts
BY Zenon DEF TypeOK, Cancel, Attempts

LEMMA BeginType ==
  ASSUME TypeOK, NEW f \in Fields, Begin(f)
  PROVE  m' \in Fields /\ attempt' \in Attempts
<1>1. [f EXCEPT !.desired = TRUE, !.state = "resolving"] \in Fields
  BY Zenon DEF Fields, States
<1>2. [NoAttempt EXCEPT !.pc = "resolving", !.live = TRUE] \in Attempts
  BY EmptyTypes, Zenon DEF Attempts
<1> QED BY <1>1, <1>2 DEF Begin

LEMMA AuthenticateType ==
  ASSUME TypeOK, Authenticate, UNCHANGED <<recovery, closing, descriptor, tokens, ours, mishap, faults>>
  PROVE  TypeOK'
<1>1. CASE Current
  <2>1. [m EXCEPT !.state = "authenticating", !.bound = TRUE] \in Fields
    BY Zenon DEF TypeOK, Fields, States
  <2>2. attempt' \in Attempts
    BY <1>1, GotoType DEF Authenticate
  <2> QED BY <1>1, <2>1, <2>2 DEF Authenticate, TypeOK
<1>2. CASE ~Current
  BY <1>2, FailsType DEF Authenticate, TypeOK
<1> QED BY <1>1, <1>2

LEMMA RetryNowType == ASSUME TypeOK, RetryNow PROVE m' \in Fields
<1>1. [m EXCEPT !.state = "error", !.restart = TRUE] \in Fields
  BY Zenon DEF TypeOK, Fields, States
<1> QED BY <1>1 DEF RetryNow, TypeOK

LEMMA WithdrawnType == ASSUME m \in Fields PROVE Withdrawn \in Fields
BY Zenon DEF Withdrawn, Fields

LEMMA ForgottenType == ASSUME m \in Fields PROVE Forgotten \in Fields
BY Zenon DEF Forgotten, Fields, Ids

LEMMA LeaveType ==
  ASSUME TypeOK, NEW i \in Ids, proc' = AskedToLeave(i)
  PROVE  proc' \in Processes
BY DEF TypeOK, AskedToLeave, Serving, Ids, Processes

LEMMA AttemptType == ASSUME TypeOK, AttemptShape, Attempt PROVE TypeOK'
<1> USE DEF TypeOK
<1>1. CASE Cancelled
  BY <1>1, FailsType DEF Cancelled, Fails
<1>2. CASE Resolve
  <2>1. CASE Goto("reading") /\ UNCHANGED <<m, watched, proc, faults>>
    BY <1>2, <2>1, GotoType DEF Resolve
  <2>2. CASE Fault /\ Catch(m.handle, TRUE, m)
    BY <1>2, <2>2, FaultType, FailsType DEF Resolve
  <2> QED BY <1>2, <2>1, <2>2 DEF Resolve
<1>3. CASE ReadExisting
  <2>1. Found \in Ids
    BY DEF Found, Ids
  <2>2. [attempt EXCEPT !.pc = IF Found = None THEN "preparing" ELSE "probing", !.inst = Found] \in Attempts
    BY <2>1, Zenon DEF Attempts
  <2> QED BY <1>3, <2>2 DEF ReadExisting, world
<1>4. CASE ProbeExisting
  <2>1. CASE Alive(attempt.inst)
    BY <1>4, <2>1, AuthenticateType DEF ProbeExisting
  <2>2. CASE ~Alive(attempt.inst)
    BY <1>4, <2>2, GotoType DEF ProbeExisting
  <2> QED BY <2>1, <2>2
<1>5. CASE DiscardStale
  <2>1. [attempt EXCEPT !.pc = "preparing", !.inst = None] \in Attempts
    BY Zenon DEF Attempts, Ids
  <2> QED BY <1>5, <2>1 DEF DiscardStale, Ids
<1>6. CASE Prepare
  <2>1. PICK i \in Fresh : tokens' = i /\ attempt' = [attempt EXCEPT !.pc = "prepared", !.inst = i]
    BY <1>6 DEF Prepare
  <2>2. i \in Ids
    BY DEF Fresh, Ids
  <2>3. [attempt EXCEPT !.pc = "prepared", !.inst = i] \in Attempts
    BY <2>2, Zenon DEF Attempts
  <2> QED BY <1>6, <2>1, <2>2, <2>3 DEF Prepare
<1>7. CASE Launch
  <2>1. [m EXCEPT !.state = "spawning"] \in Fields
    BY Zenon DEF Fields, States
  <2> QED BY <1>7, <2>1, GotoType DEF Launch, world
<1>8. CASE Spawned
  <2>1. attempt.inst \in Instances
    BY <1>8 DEF Spawned, Attempts, AttemptShape, Ids
  <2>2. /\ [m EXCEPT !.handle = attempt.inst] \in Fields
        /\ [m EXCEPT !.handle = None] \in Fields
    BY <2>1, Zenon DEF Fields, Ids
  <2>3. /\ [attempt EXCEPT !.pc = "waiting", !.own = attempt.inst] \in Attempts
        /\ [attempt EXCEPT !.pc = "failing", !.own = attempt.inst] \in Attempts
    BY <2>1, Zenon DEF Attempts, Ids
  <2>4. proc' \in Processes
    BY <1>8, <2>1 DEF Spawned, Processes
  <2> QED BY <1>8, <2>1, <2>2, <2>3, <2>4 DEF Spawned
<1>9. CASE LaunchFails
  <2>1. PICK fatal \in BOOLEAN : Catch(m.handle, fatal /\ attempt.pc = "spawning", m)
    BY <1>9 DEF LaunchFails
  <2>2. (fatal /\ attempt.pc = "spawning") \in BOOLEAN
    OBVIOUS
  <2> QED BY <1>9, <2>1, <2>2, FaultType, FailsType DEF LaunchFails
<1>10. CASE CandidateAppears
  BY <1>10, GotoType DEF CandidateAppears, world
<1>11. CASE WaitEnds
  BY <1>11, FaultType, FailsType DEF WaitEnds
<1>12. CASE Verify
  <2>1. CASE Serving(attempt.inst) /\ Authenticate /\ UNCHANGED faults
    BY <1>12, <2>1, AuthenticateType DEF Verify
  <2>2. CASE ~Serving(attempt.inst) /\ Catch(m.handle, FALSE, m) /\ UNCHANGED faults
    BY <1>12, <2>2, FailsType DEF Verify
  <2>3. CASE Fault /\ Catch(m.handle, FALSE, m)
    BY <1>12, <2>3, FaultType, FailsType DEF Verify
  <2> QED BY <1>12, <2>1, <2>2, <2>3 DEF Verify
<1>13. CASE Accept
  <2>1. attempt.inst \in Ids /\ attempt.own \in Ids
    BY DEF Attempts
  <2>2. [m EXCEPT !.state = "ready", !.ready = attempt.inst, !.candidate = attempt.inst,
                  !.handle = attempt.own, !.stable = TRUE] \in Fields
    BY <2>1, Zenon DEF Fields, States
  <2>3. attempt.inst \in Instances
    BY <1>13, <2>1 DEF Accept, Serving, Ids
  <2> QED BY <1>13, <2>1, <2>2, <2>3, EmptyTypes DEF Accept, Ids
<1>14. CASE AuthenticationFails
  <2>1. [m EXCEPT !.bound = @ /\ Current] \in Fields
    BY Zenon DEF Fields
  <2>2. faults' \in 0..MaxFaults
    BY <1>14, FaultType DEF AuthenticationFails
  <2> QED BY <1>14, <2>1, <2>2, FailsType DEF AuthenticationFails
<1>15. CASE Cleaned
  BY <1>15, ConcludeType, EmptyTypes DEF Cleaned, world
<1> QED
  BY <1>1, <1>2, <1>3, <1>4, <1>5, <1>6, <1>7, <1>8, <1>9, <1>10, <1>11, <1>12, <1>13, <1>14, <1>15
  DEF Attempt

LEMMA RecoveryType == ASSUME TypeOK, Recovery PROVE TypeOK'
<1> USE DEF TypeOK
<1>1. CASE Report
  <2>1. m.ready \in Ids
    BY DEF Fields
  <2>2. [NoRecovery EXCEPT !.pc = "probing", !.inst = m.ready] \in Recoveries
    BY <2>1, EmptyTypes, Zenon DEF Recoveries
  <2> QED BY <1>1, <2>2 DEF Report, world
<1>2. CASE GiveUp
  <2>1. m.handle \in Ids
    BY DEF Fields
  <2>2. [recovery EXCEPT !.pc = "discarding", !.own = m.handle] \in Recoveries
    BY <2>1, Zenon DEF Recoveries
  <2>3. [m EXCEPT !.handle = None, !.ready = None, !.candidate = None, !.restart = FALSE,
                  !.stable = FALSE, !.bound = FALSE] \in Fields
    BY Zenon DEF Fields, Ids
  <2>4. faults' \in 0..MaxFaults /\ mishap' \in {"none", "forgone", "overrun", "misjudged"}
    BY <1>2, FaultType DEF GiveUp
  <2> QED BY <1>2, <2>2, <2>3, <2>4, CancelType DEF GiveUp
<1>3. CASE DiscardLost
  <2>1. recovery.own \in Ids
    BY DEF Recoveries
  <2>2. [recovery EXCEPT !.pc = "terminating"] \in Recoveries
    BY Zenon DEF Recoveries
  <2>3. watched' \subseteq Instances /\ proc' \in Processes
    BY <1>3, <2>1, KillType DEF DiscardLost
  <2> QED BY <1>3, <2>2, <2>3, RetryNowType, EmptyTypes DEF DiscardLost, Ids
<1>4. CASE Recovered
  BY <1>4, RetryNowType, EmptyTypes DEF Recovered, world
<1>5. CASE Answers
  BY <1>5, EmptyTypes DEF Answers, world
<1> QED BY <1>1, <1>2, <1>3, <1>4, <1>5 DEF Recovery

LEMMA WithdrawalType == ASSUME TypeOK, BeginStop \/ Commit \/ BeginDetach \/ Close PROVE TypeOK'
<1> USE DEF TypeOK
<1>1. m.handle \in Ids /\ m.candidate \in Ids
  BY DEF Fields
<1>2. Withdrawn \in Fields /\ Forgotten \in Fields
  BY WithdrawnType, ForgottenType
<1>3. CASE BeginStop
  <2>1. PICK n \in {0, m.failures} : m' = [Withdrawn EXCEPT !.state = "stopping", !.failures = n]
    BY <1>3 DEF BeginStop
  <2>2. n \in 0..CrashLoopAt
    BY ConstantAssumption DEF Fields
  <2>3. m' \in Fields
    BY <1>2, <2>1, <2>2, Zenon DEF Fields, States
  <2>4. [NoClosing EXCEPT !.pc = "draining", !.kind = "stop"] \in Withdrawals
    BY EmptyTypes, Zenon DEF Withdrawals
  <2> QED BY <1>3, <2>3, <2>4, CancelType DEF BeginStop, world
<1>4. CASE Commit
  <2>1. [Withdrawn EXCEPT !.state = "stopping"] \in Fields
    BY <1>2, Zenon DEF Fields, States
  <2>2. [pc |-> "exiting", kind |-> "commit", cand |-> m.candidate, own |-> m.handle] \in Withdrawals
    BY <1>1, Zenon DEF Withdrawals
  <2> QED BY <1>1, <1>4, <2>1, <2>2, CancelType, LeaveType DEF Commit
<1>5. CASE BeginDetach
  <2>1. [NoClosing EXCEPT !.pc = "detaching", !.kind = "detach"] \in Withdrawals
    BY EmptyTypes, Zenon DEF Withdrawals
  <2> QED BY <1>2, <1>5, <2>1, CancelType DEF BeginDetach, world
<1>6. CASE Drain
  <2>1. [closing EXCEPT !.pc = "exiting", !.cand = m.candidate, !.own = m.handle] \in Withdrawals
    BY <1>1, Zenon DEF Withdrawals
  <2>2. proc' \in Processes
    BY <1>1, <1>6, LeaveType DEF Drain
  <2>3. faults' \in 0..MaxFaults
    BY <1>6, FaultType DEF Drain
  <2>4. closing' \in Withdrawals
    BY <1>6, <2>1, EmptyTypes DEF Drain
  <2> QED BY <1>6, <2>2, <2>3, <2>4 DEF Drain
<1>7. CASE ExitOverdue
  <2>1. closing.own \in Ids
    BY DEF Withdrawals
  <2> QED BY <1>7, <2>1, EmptyTypes, KillType DEF ExitOverdue
<1>8. CASE Closed
  <2>1. [Forgotten EXCEPT !.state = "idle"] \in Fields
    BY <1>2, Zenon DEF Fields, States
  <2> QED BY <1>8, <2>1, EmptyTypes DEF Closed, Ids
<1>9. CASE Detached
  <2>1. [Forgotten EXCEPT !.state = "detached", !.bound = FALSE] \in Fields
    BY <1>2, Zenon DEF Fields, States
  <2> QED BY <1>9, <2>1, EmptyTypes DEF Detached
<1> QED BY <1>3, <1>4, <1>5, <1>6, <1>7, <1>8, <1>9 DEF Close

LEMMA WorldType ==
  ASSUME TypeOK, NEW i \in Instances, World(i) \/ Crash(i)
  PROVE  TypeOK'
<1> USE DEF TypeOK
<1>1. CASE ExitSeen(i)
  <2>1. [m EXCEPT !.handle = None, !.ready = None, !.candidate = None] \in Fields
    BY Zenon DEF Fields, Ids
  <2> QED BY <1>1, <2>1, FailAndRetryType DEF ExitSeen, world
<1>2. CASE Serve(i)
  BY <1>2 DEF Serve, Processes, Ids
<1>3. CASE Exit(i)
  BY <1>3 DEF Exit, Processes, Ids
<1>4. CASE Crash(i)
  BY <1>4, FaultType DEF Crash, Processes
<1> QED BY <1>1, <1>2, <1>3, <1>4 DEF World

LEMMA TypeStep == ASSUME TypeOK, AttemptShape, [Next]_vars PROVE TypeOK'
<1>1. CASE Ensure
  BY <1>1, BeginType DEF Ensure, TypeOK, world
<1>2. CASE RestartFires
  <2>1. [m EXCEPT !.restart = FALSE] \in Fields
    BY Zenon DEF TypeOK, Fields
  <2>2. mishap' \in {"none", "forgone", "overrun", "misjudged"}
    BY <1>2 DEF RestartFires, TypeOK
  <2> QED BY <1>2, <2>1, <2>2, BeginType DEF RestartFires, TypeOK
<1>3. CASE StabilityFires
  <2>1. 0 \in 0..CrashLoopAt
    BY ConstantAssumption
  <2>2. [m EXCEPT !.stable = FALSE, !.failures = 0] \in Fields
    BY <2>1, Zenon DEF TypeOK, Fields
  <2> QED BY <1>3, <2>2 DEF StabilityFires, TypeOK, world
<1>4. CASE UNCHANGED vars
  BY <1>4 DEF vars, world, TypeOK
<1> QED
  BY <1>1, <1>2, <1>3, <1>4, AttemptType, RecoveryType, WithdrawalType, WorldType DEF Next

-----------------------------------------------------------------------------
(* The shape of the attempt, with or without a mishap.                     *)

LEMMA CatchShape ==
  ASSUME TypeOK, AttemptShape, NEW f \in Fields, NEW fatal \in BOOLEAN, Catch(m.handle, fatal, f), UNCHANGED tokens
  PROVE  AttemptShape'
<1>1. CASE m.handle = None
  BY <1>1, ConcludeType DEF Catch, AttemptShape, NoAttempt
<1>2. CASE m.handle # None
  BY <1>2 DEF Catch, AttemptShape, TypeOK, Attempts
<1> QED BY <1>1, <1>2

LEMMA AuthenticateShape ==
  ASSUME TypeOK, AttemptShape, attempt.pc \in {"probing", "verifying"}, Authenticate, UNCHANGED tokens
  PROVE  AttemptShape'
<1>1. CASE Current
  BY <1>1 DEF Authenticate, Goto, AttemptShape, TypeOK, Attempts
<1>2. CASE ~Current
  BY <1>2, CatchShape DEF Authenticate, TypeOK
<1> QED BY <1>1, <1>2

LEMMA AttemptShapeStep == ASSUME TypeOK, AttemptShape, Attempt PROVE AttemptShape'
<1> USE DEF TypeOK
<1>1. CASE Cancelled
  BY <1>1, CatchShape DEF Cancelled, Fails
<1>2. CASE Resolve
  <2>1. CASE Goto("reading")
    BY <1>2, <2>1 DEF Resolve, Goto, AttemptShape, Attempts
  <2>2. CASE Catch(m.handle, TRUE, m)
    BY <1>2, <2>2, CatchShape DEF Resolve
  <2> QED BY <1>2, <2>1, <2>2 DEF Resolve
<1>3. CASE ReadExisting
  BY <1>3 DEF ReadExisting, Found, AttemptShape, Attempts, world
<1>4. CASE ProbeExisting
  <2>1. CASE Alive(attempt.inst)
    BY <1>4, <2>1, AuthenticateShape DEF ProbeExisting
  <2>2. CASE ~Alive(attempt.inst)
    BY <1>4, <2>2 DEF ProbeExisting, Goto, AttemptShape, Attempts
  <2> QED BY <2>1, <2>2
<1>5. CASE DiscardStale
  BY <1>5 DEF DiscardStale, AttemptShape, Attempts
<1>6. CASE Prepare
  BY <1>6, ConstantAssumption DEF Prepare, Fresh, AttemptShape, Attempts
<1>7. CASE Launch
  BY <1>7 DEF Launch, Goto, AttemptShape, Attempts, world
<1>8. CASE Spawned
  BY <1>8 DEF Spawned, AttemptShape, Attempts
<1>9. CASE LaunchFails
  <2>1. PICK fatal \in BOOLEAN : Catch(m.handle, fatal /\ attempt.pc = "spawning", m)
    BY <1>9 DEF LaunchFails
  <2>2. (fatal /\ attempt.pc = "spawning") \in BOOLEAN
    OBVIOUS
  <2> QED BY <1>9, <2>1, <2>2, CatchShape DEF LaunchFails
<1>10. CASE CandidateAppears
  BY <1>10 DEF CandidateAppears, Goto, AttemptShape, Attempts, world
<1>11. CASE WaitEnds
  BY <1>11, CatchShape DEF WaitEnds
<1>12. CASE Verify
  BY <1>12, AuthenticateShape, CatchShape DEF Verify
<1>13. CASE Accept
  BY <1>13 DEF Accept, AttemptShape, NoAttempt
<1>14. CASE AuthenticationFails
  <2>1. [m EXCEPT !.bound = @ /\ Current] \in Fields
    BY Zenon DEF Fields
  <2> QED BY <1>14, <2>1, CatchShape DEF AuthenticationFails
<1>15. CASE Cleaned
  BY <1>15, ConcludeType DEF Cleaned, AttemptShape, NoAttempt, world
<1> QED
  BY <1>1, <1>2, <1>3, <1>4, <1>5, <1>6, <1>7, <1>8, <1>9, <1>10, <1>11, <1>12, <1>13, <1>14, <1>15
  DEF Attempt

LEMMA ShapeStep == ASSUME TypeOK, AttemptShape, [Next]_vars PROVE AttemptShape'
<1>1. CASE UNCHANGED <<attempt, tokens>>
  BY <1>1 DEF AttemptShape
<1>2. ASSUME Cancel, UNCHANGED tokens PROVE AttemptShape'
  BY <1>2 DEF Cancel, AttemptShape, TypeOK, Attempts
<1>3. ASSUME NEW f, Begin(f), UNCHANGED tokens PROVE AttemptShape'
  BY <1>3 DEF Begin, NoAttempt, AttemptShape
<1>4. CASE Ensure
  BY <1>3, <1>4 DEF Ensure, world
<1>5. CASE RestartFires
  BY <1>1, <1>3, <1>5 DEF RestartFires
<1>6. CASE Recovery
  BY <1>1, <1>2, <1>6 DEF Recovery, Report, Answers, GiveUp, DiscardLost, Recovered, world
<1>7. CASE BeginStop \/ Commit \/ BeginDetach
  BY <1>2, <1>7 DEF BeginStop, Commit, BeginDetach, world
<1>8. CASE Close
  BY <1>1, <1>8 DEF Close, Drain, ExitOverdue, Closed, Detached
<1>9. CASE \E i \in Instances : World(i) \/ Crash(i)
  BY <1>1, <1>9 DEF World, ExitSeen, Serve, Exit, Crash, world
<1>10. CASE StabilityFires \/ UNCHANGED vars
  BY <1>1, <1>10 DEF StabilityFires, vars, world
<1> QED
  BY <1>4, <1>5, <1>6, <1>7, <1>8, <1>9, <1>10, AttemptShapeStep DEF Next

-----------------------------------------------------------------------------
(* The invariant is preserved: the attempt that fails.                     *)

(* A start that ends changes what is shown and may have a retry due.        *)
LEMMA ConcludeEffect ==
  ASSUME NEW f \in Fields, NEW fatal, Conclude(fatal, f)
  PROVE  /\ attempt' = NoAttempt
         /\ m'.ready = f.ready /\ m'.candidate = f.candidate /\ m'.desired = f.desired /\ m'.handle = f.handle
         /\ m'.state \in {f.state, "failed", "error", "crash_loop"} /\ (~Current => m'.state = f.state)
<1>1. CASE ~Current
  BY <1>1 DEF Conclude
<1>2. CASE Current /\ fatal
  BY <1>2 DEF Conclude, Fields
<1>3. CASE Current /\ ~fatal
  <2>1. FailAndRetry(f)
    BY <1>3 DEF Conclude
  <2>2. PICK n \in 1..(f.failures + 1) \cap 1..CrashLoopAt :
          m' = IF n = CrashLoopAt
               THEN [f EXCEPT !.failures = n, !.state = "crash_loop"]
               ELSE [f EXCEPT !.failures = n, !.state = "error", !.restart = TRUE]
    BY <2>1 DEF FailAndRetry
  <2> QED BY <1>3, <2>2 DEF Conclude, Fields
<1> QED BY <1>1, <1>2, <1>3

(* The process of processHandle is terminated, and no other changes.       *)
LEMMA CatchEffect ==
  ASSUME Full, Orderly, Orderly', NEW f \in Fields, NEW fatal \in BOOLEAN, Catch(m.handle, fatal, f),
         f.handle = m.handle, f.ready = m.ready, f.candidate = m.candidate,
         f.desired = m.desired, f.state = m.state
  PROVE  /\ attempt'.pc \in {"none", "failing"} /\ (attempt'.live => attempt.live)
         /\ attempt'.pc = "none" => attempt' = NoAttempt
         /\ m'.ready = m.ready /\ m'.candidate = m.candidate /\ m'.desired = m.desired
         /\ m'.handle = None
         /\ m'.state \in {m.state, "failed", "error", "crash_loop"} /\ (~Current => m'.state = m.state)
         /\ \A i \in Instances : proc'[i] = proc[i] \/ (i = m.handle /\ Alive(i) /\ proc'[i] = "killed")
         /\ m.handle # None => proc'[m.handle] \notin {"starting", "serving"}
<1> USE DEF Full, Kept, TypeOK, NoAttempt
<1>1. CASE m.handle = None
  <2>1. Conclude(fatal, f) /\ proc' = proc
    BY <1>1 DEF Catch
  <2> QED BY <1>1, <2>1, ConcludeEffect
<1>2. CASE m.handle # None
  <2>1. attempt' = [attempt EXCEPT !.pc = "failing", !.own = m.handle, !.fatal = fatal]
    BY <1>2 DEF Catch
  <2>2. attempt'.pc = "failing" /\ attempt'.live = attempt.live
    BY <2>1 DEF Attempts
  <2>3. m' = [f EXCEPT !.handle = None] /\ Kill(m.handle)
    BY <1>2 DEF Catch
  <2>4. m.handle \in Instances
    BY <1>2 DEF Fields, Ids
  <2>5. /\ \A i \in Instances : proc'[i] = proc[i] \/ (i = m.handle /\ Alive(i) /\ proc'[i] = "killed")
        /\ proc'[m.handle] \notin {"starting", "serving"}
    BY <1>2, <2>3, <2>4 DEF Kill, Alive, Processes
  <2> QED BY <2>2, <2>3, <2>5 DEF Fields
<1> QED BY <1>1, <1>2

LEMMA CatchStep ==
  ASSUME Full, Orderly, Orderly', NEW f \in Fields, NEW fatal \in BOOLEAN, Catch(m.handle, fatal, f), attempt.pc # "none",
         f.handle = m.handle, f.ready = m.ready, f.candidate = m.candidate,
         f.desired = m.desired, f.state = m.state,
         UNCHANGED <<recovery, closing, descriptor, tokens, ours>>, TypeOK'
  PROVE  Full'
<1>1. ASSUME NEW i \in Instances, Live(i)'
      PROVE  Live(i) /\ i # m.handle /\ proc'[i] = proc[i]
  <2>1. i # m.handle
    BY <1>1, CatchEffect, ConstantAssumption DEF Live
  <2>2. proc'[i] = proc[i]
    BY <2>1, CatchEffect
  <2> QED BY <1>1, <2>1, <2>2 DEF Live
<1>2. \A i \in Ids : Alive(i)' => Alive(i)
  BY CatchEffect DEF Alive, Ids
<1>3. \A i \in Ids : Alive(i) => Alive(i)'
  BY CatchEffect DEF Alive, Ids
<1> USE CatchEffect
<1> USE ConstantAssumption
    DEF Full, Kept, Orderly, TypeOK, AttemptShape, ControlShape, ReadyOwned, OneLive, GivenUp, Cleared, Findable,
        Held, Silenced, Live, Holding, Discarding, Fields, Ids, NoAttempt, NoRecovery, NoClosing,
        Alive, Found, Current, Processes, Attempts, Recoveries, Withdrawals
<1>4. AttemptShape'
  BY <1>1, <1>2, <1>3
<1>5. ControlShape'
  BY <1>1, <1>2, <1>3
<1>6. ReadyOwned'
  BY <1>1, <1>2, <1>3
<1>7. OneLive'
  BY <1>1, <1>2, <1>3
<1>8. GivenUp'
  BY <1>1, <1>2, <1>3
<1>9. Cleared'
  BY <1>1, <1>2, <1>3
<1>10. Findable'
  BY <1>1, <1>2, <1>3
<1>11. Held'
  <2>1. (m.ready # None => proc[m.ready] # "starting")' /\ (m.candidate # None => proc[m.candidate] # "starting")'
    BY <1>1, <1>2, <1>3
  <2>2. (\A i \in Instances : m.ready # None /\ Live(i) => i \in {m.ready, m.handle} \/ Discarding)'
    BY <1>1, <1>2, <1>3
  <2>3. (Holding /\ Live(attempt.own) => m.handle = attempt.own \/ Discarding)'
    BY <1>1, <1>2, <1>3
  <2>4. (m.candidate # None /\ Live(m.candidate) => m.handle \in {None, m.candidate})'
    BY <1>1, <1>2, <1>3
  <2>5. (\A i \in ours : Live(i) => i = m.candidate \/ Discarding \/ (Holding /\ attempt.own = i))'
    BY <1>1, <1>2, <1>3
  <2> QED BY <2>1, <2>2, <2>3, <2>4, <2>5
<1>12. Silenced'
  BY <1>1, <1>2, <1>3
<1> QED BY <1>4, <1>5, <1>6, <1>7, <1>8, <1>9, <1>10, <1>11, <1>12

-----------------------------------------------------------------------------
(* The invariant is preserved: the attempt that goes on.                   *)

LEMMA AuthenticateStep ==
  ASSUME Full, Orderly, Orderly', attempt.pc \in {"probing", "verifying"}, Authenticate,
         UNCHANGED <<recovery, closing, descriptor, tokens, ours, faults>>, TypeOK'
  PROVE  Full'
<1>1. CASE ~Current
  BY <1>1, CatchStep DEF Authenticate, Full, Kept, TypeOK
<1>2. CASE Current
  <2>0. /\ attempt' = [attempt EXCEPT !.pc = "authenticating"]
        /\ m' = [m EXCEPT !.state = "authenticating", !.bound = TRUE]
        /\ UNCHANGED proc
    BY <1>2 DEF Authenticate, Goto
  <2> USE ConstantAssumption, <1>2, <2>0
      DEF Full, Kept, Orderly, TypeOK, AttemptShape, ControlShape, ReadyOwned, OneLive, GivenUp,
        Cleared, Findable, Held, Silenced, Live, Holding, Discarding, Fields, Ids, Alive, Found,
        Current, Processes, Attempts, Recoveries, Withdrawals
  <2>1. AttemptShape' /\ ControlShape' /\ ReadyOwned'
    OBVIOUS
  <2>2. OneLive' /\ GivenUp' /\ Cleared'
    OBVIOUS
  <2>3. Findable' /\ Held' /\ Silenced'
    OBVIOUS
  <2> QED BY <2>1, <2>2, <2>3
<1> QED BY <1>1, <1>2

LEMMA SearchStep == ASSUME Full, Orderly, Orderly', Resolve \/ ReadExisting \/ ProbeExisting \/ DiscardStale, TypeOK' PROVE Full'
<1> USE ConstantAssumption
    DEF Full, Kept, Orderly, TypeOK, AttemptShape, ControlShape, ReadyOwned, OneLive, GivenUp, Cleared, Findable,
        Held, Silenced, Live, Holding, Discarding, Fields, Ids, NoAttempt, NoRecovery, NoClosing,
        Alive, Found, Current, Processes, Attempts, Recoveries, Withdrawals
<1>1. CASE Resolve
  <2>1. CASE Fault /\ Catch(m.handle, TRUE, m)
    BY <1>1, <2>1, CatchStep DEF Resolve
  <2>2. CASE Goto("reading") /\ UNCHANGED <<m, watched, proc, faults>>
    <3> USE <1>1, <2>2 DEF Resolve, Goto
    <3>1. AttemptShape' /\ ControlShape' /\ ReadyOwned'
      OBVIOUS
    <3>2. OneLive' /\ GivenUp' /\ Cleared'
      OBVIOUS
    <3>3. Findable' /\ Held' /\ Silenced'
      OBVIOUS
    <3> QED BY <3>1, <3>2, <3>3
  <2> QED BY <1>1, <2>1, <2>2 DEF Resolve
<1>2. CASE ReadExisting
  <2> USE <1>2 DEF ReadExisting, world
  <2>1. AttemptShape' /\ ControlShape' /\ ReadyOwned'
    OBVIOUS
  <2>2. OneLive' /\ GivenUp' /\ Cleared'
    OBVIOUS
  <2>3. Findable' /\ Held' /\ Silenced'
    OBVIOUS
  <2> QED BY <2>1, <2>2, <2>3
<1>3. CASE ProbeExisting
  <2>1. CASE Alive(attempt.inst)
    BY <1>3, <2>1, AuthenticateStep DEF ProbeExisting
  <2>2. CASE ~Alive(attempt.inst)
    <3> USE <1>3, <2>2 DEF ProbeExisting, Goto
    <3>1. AttemptShape' /\ ControlShape' /\ ReadyOwned'
      OBVIOUS
    <3>2. OneLive' /\ GivenUp' /\ Cleared'
      OBVIOUS
    <3>3. Findable' /\ Held' /\ Silenced'
      OBVIOUS
    <3> QED BY <3>1, <3>2, <3>3
  <2> QED BY <2>1, <2>2
<1>4. CASE DiscardStale
  <2> USE <1>4 DEF DiscardStale
  <2>1. AttemptShape' /\ ControlShape' /\ ReadyOwned'
    OBVIOUS
  <2>2. OneLive' /\ GivenUp' /\ Cleared'
    OBVIOUS
  <2>3. Findable' /\ Held' /\ Silenced'
    OBVIOUS
  <2> QED BY <2>1, <2>2, <2>3
<1> QED BY <1>1, <1>2, <1>3, <1>4

LEMMA PrepareStep == ASSUME Full, Orderly, Orderly', Prepare, TypeOK' PROVE Full'
<1>1. /\ attempt.pc = "preparing" /\ attempt.live
      /\ attempt'.pc = "prepared" /\ attempt'.inst = tokens' /\ attempt'.own = attempt.own /\ attempt'.live
      /\ tokens' \in Instances /\ proc[tokens'] = "gone"
      /\ tokens' \notin {m.ready, m.candidate, recovery.inst, descriptor}
      /\ UNCHANGED <<m, recovery, closing, proc, descriptor, ours>>
  BY DEF Prepare, Fresh, Current, Full, Kept, TypeOK, Attempts
<1> USE ConstantAssumption
    DEF Full, Kept, Orderly, TypeOK, AttemptShape, ControlShape, ReadyOwned, OneLive, GivenUp, Cleared, Findable,
        Held, Silenced, Live, Holding, Discarding, Fields, Ids, NoAttempt, NoRecovery, NoClosing,
        Alive, Found, Current, Processes, Attempts, Recoveries, Withdrawals
<1>2. AttemptShape' /\ ControlShape' /\ ReadyOwned'
  BY <1>1
<1>3. OneLive' /\ GivenUp' /\ Cleared'
  BY <1>1
<1>4. Findable' /\ Held' /\ Silenced'
  BY <1>1
<1> QED BY <1>2, <1>3, <1>4

LEMMA SpawnedStep == ASSUME Full, Orderly, Orderly', Spawned, TypeOK' PROVE Full'
<1>1. attempt.pc = "spawning" /\ UNCHANGED <<recovery, closing, descriptor, tokens>>
  BY DEF Spawned
<1>2. /\ attempt.inst \in Instances /\ attempt.inst # None /\ attempt.inst = tokens
      /\ proc[attempt.inst] = "gone" /\ attempt.inst \notin {m.ready, m.candidate, recovery.inst}
      /\ \A i \in Instances : ~Live(i)
  BY <1>1 DEF Full, Kept, TypeOK, AttemptShape, Cleared, Attempts, Ids
<1>3. CASE Current
  <2>1. ~Discarding
    BY <1>1, <1>3 DEF Full, Kept, GivenUp, Discarding, Current
  <2>2. /\ attempt'.pc = "waiting" /\ attempt'.own = attempt.inst /\ attempt'.inst = attempt.inst
        /\ attempt.live /\ attempt'.live /\ m.desired
        /\ m'.handle = attempt.inst /\ m'.ready = m.ready /\ m'.candidate = m.candidate
        /\ m'.desired = m.desired /\ m'.state = m.state
    BY <1>3 DEF Spawned, Current, Full, Kept, TypeOK, Attempts, Fields
  <2>3. ours' = ours \cup {attempt.inst} /\ \A i \in Instances : proc'[i] = IF i = attempt.inst THEN "starting" ELSE proc[i]
    BY <1>2, <1>3 DEF Spawned, Full, Kept, TypeOK, Processes
  <2>4. \A i \in Instances : Live(i)' <=> i = attempt.inst
    BY <1>2, <2>3 DEF Live
  <2> USE ConstantAssumption
      DEF Full, Kept, Orderly, TypeOK, AttemptShape, ControlShape, ReadyOwned, OneLive, GivenUp, Cleared, Findable,
          Held, Silenced, Live, Holding, Discarding, Fields, Ids, NoAttempt, NoRecovery, NoClosing,
          Alive, Found, Current, Processes, Attempts, Recoveries, Withdrawals
  <2>5. AttemptShape' /\ ControlShape' /\ ReadyOwned'
    BY <1>1, <1>2, <1>3, <2>1, <2>2, <2>3, <2>4
  <2>6. OneLive' /\ GivenUp' /\ Cleared'
    BY <1>1, <1>2, <1>3, <2>1, <2>2, <2>3, <2>4
  <2>7. Findable' /\ Held' /\ Silenced'
    BY <1>1, <1>2, <1>3, <2>1, <2>2, <2>3, <2>4
  <2> QED BY <2>5, <2>6, <2>7
<1>4. CASE ~Current
  <2>1. /\ attempt'.pc = "failing" /\ attempt'.own = attempt.inst /\ attempt'.inst = attempt.inst
        /\ attempt'.live = attempt.live
        /\ m'.handle = None /\ m'.ready = m.ready /\ m'.candidate = m.candidate
        /\ m'.desired = m.desired /\ m'.state = m.state
    BY <1>4 DEF Spawned, Full, Kept, TypeOK, Attempts, Fields
  <2>2. ours' = ours \cup {attempt.inst} /\ \A i \in Instances : proc'[i] = IF i = attempt.inst THEN "killed" ELSE proc[i]
    BY <1>2, <1>4 DEF Spawned, Full, Kept, TypeOK, Processes
  <2>3. \A i \in Instances : ~Live(i)'
    BY <1>2, <2>2 DEF Live
  <2> USE ConstantAssumption
      DEF Full, Kept, Orderly, TypeOK, AttemptShape, ControlShape, ReadyOwned, OneLive, GivenUp, Cleared, Findable,
          Held, Silenced, Live, Holding, Discarding, Fields, Ids, NoAttempt, NoRecovery, NoClosing,
          Alive, Found, Current, Processes, Attempts, Recoveries, Withdrawals
  <2>4. AttemptShape' /\ ControlShape' /\ ReadyOwned'
    BY <1>1, <1>2, <1>4, <2>1, <2>2, <2>3
  <2>5. OneLive' /\ GivenUp' /\ Cleared'
    BY <1>1, <1>2, <1>4, <2>1, <2>2, <2>3
  <2>6. Findable' /\ Held' /\ Silenced'
    BY <1>1, <1>2, <1>4, <2>1, <2>2, <2>3
  <2> QED BY <2>4, <2>5, <2>6
<1> QED BY <1>3, <1>4

LEMMA LaunchStep == ASSUME Full, Orderly, Orderly', Prepare \/ Launch \/ Spawned \/ LaunchFails, TypeOK' PROVE Full'
<1> USE ConstantAssumption
    DEF Full, Kept, Orderly, TypeOK, AttemptShape, ControlShape, ReadyOwned, OneLive, GivenUp, Cleared, Findable,
        Held, Silenced, Live, Holding, Discarding, Fields, Ids, NoAttempt, NoRecovery, NoClosing,
        Alive, Found, Current, Processes, Attempts, Recoveries, Withdrawals
<1>1. CASE Prepare
  BY <1>1, PrepareStep
<1>2. CASE Launch
  <2> USE <1>2 DEF Launch, Goto, SocketsClosing, world
  <2>1. AttemptShape' /\ ControlShape' /\ ReadyOwned'
    OBVIOUS
  <2>2. OneLive' /\ GivenUp' /\ Cleared'
    OBVIOUS
  <2>3. Findable' /\ Held' /\ Silenced'
    OBVIOUS
  <2> QED BY <2>1, <2>2, <2>3
<1>3. CASE Spawned
  BY <1>3, SpawnedStep
<1>4. CASE LaunchFails
  <2>1. PICK fatal \in BOOLEAN : Catch(m.handle, fatal /\ attempt.pc = "spawning", m)
    BY <1>4 DEF LaunchFails
  <2>2. (fatal /\ attempt.pc = "spawning") \in BOOLEAN
    OBVIOUS
  <2> QED BY <1>4, <2>1, <2>2, CatchStep DEF LaunchFails
<1> QED BY <1>1, <1>2, <1>3, <1>4

LEMMA BoundStep == ASSUME Full, Orderly, Orderly', AuthenticationFails, TypeOK' PROVE Full'
<1> DEFINE f == [m EXCEPT !.bound = @ /\ Current]
<1>1. m \in Fields
  BY DEF Full, Kept, TypeOK
<1>2. f \in Fields
  BY <1>1, Zenon DEF Fields
<1>3. f.handle = m.handle /\ f.ready = m.ready /\ f.candidate = m.candidate /\ f.desired = m.desired /\ f.state = m.state
  BY <1>1, Zenon DEF Fields
<1>4. /\ attempt.pc = "authenticating" /\ Catch(m.handle, FALSE, f)
      /\ UNCHANGED <<recovery, closing, descriptor, tokens, ours>>
  BY DEF AuthenticationFails
<1> HIDE DEF f
<1> QED BY <1>2, <1>3, <1>4, CatchStep

LEMMA AdmitStep ==
  ASSUME Full, Orderly, Orderly', Cancelled \/ CandidateAppears \/ WaitEnds \/ Verify \/ Accept \/ AuthenticationFails \/ Cleaned, TypeOK'
  PROVE  Full'
<1> USE ConstantAssumption
    DEF Full, Kept, Orderly, TypeOK, AttemptShape, ControlShape, ReadyOwned, OneLive, GivenUp, Cleared, Findable,
        Held, Silenced, Live, Holding, Discarding, Fields, Ids, NoAttempt, NoRecovery, NoClosing,
        Alive, Found, Current, Processes, Attempts, Recoveries, Withdrawals
<1>1. CASE Cancelled
  BY <1>1, CatchStep DEF Cancelled, Fails
<1>2. CASE CandidateAppears
  <2> USE <1>2 DEF CandidateAppears, Goto, world
  <2>1. AttemptShape' /\ ControlShape' /\ ReadyOwned'
    OBVIOUS
  <2>2. OneLive' /\ GivenUp' /\ Cleared'
    OBVIOUS
  <2>3. Findable' /\ Held' /\ Silenced'
    OBVIOUS
  <2> QED BY <2>1, <2>2, <2>3
<1>3. CASE WaitEnds
  BY <1>3, CatchStep DEF WaitEnds
<1>4. CASE Verify
  BY <1>4, AuthenticateStep, CatchStep DEF Verify
<1>5. CASE Accept
  <2> USE <1>5 DEF Accept, Serving
  <2>1. AttemptShape' /\ ControlShape' /\ ReadyOwned'
    OBVIOUS
  <2>2. OneLive' /\ GivenUp' /\ Cleared'
    OBVIOUS
  <2>3. Findable' /\ Held' /\ Silenced'
    OBVIOUS
  <2> QED BY <2>1, <2>2, <2>3
<1>6. CASE AuthenticationFails
  BY <1>6, BoundStep
<1>7. CASE Cleaned
  <2>1. /\ attempt.pc = "failing" /\ attempt' = NoAttempt /\ UNCHANGED <<recovery, closing, watched, world>>
        /\ m'.ready = m.ready /\ m'.candidate = m.candidate /\ m'.desired = m.desired /\ m'.handle = m.handle
        /\ m'.state \in {m.state, "failed", "error", "crash_loop"} /\ (~Current => m'.state = m.state)
    BY <1>7, ConcludeEffect DEF Cleaned
  <2> USE <2>1 DEF world
  <2>2. AttemptShape' /\ ControlShape' /\ ReadyOwned'
    OBVIOUS
  <2>3. OneLive' /\ GivenUp' /\ Cleared'
    OBVIOUS
  <2>4. Findable' /\ Held' /\ Silenced'
    OBVIOUS
  <2> QED BY <2>2, <2>3, <2>4
<1> QED BY <1>1, <1>2, <1>3, <1>4, <1>5, <1>6, <1>7

-----------------------------------------------------------------------------
(* The invariant is preserved: what is asked, and the timers.              *)

LEMMA BeginStep ==
  ASSUME Full, Orderly, Orderly', NEW f \in Fields, f.handle = m.handle, f.ready = m.ready, f.candidate = m.candidate,
         attempt.pc = "none", Begin(f),
         UNCHANGED <<recovery, closing, watched, proc, descriptor, tokens, ours>>, TypeOK'
  PROVE  Full'
<1>1. /\ attempt'.pc = "resolving" /\ attempt'.own = None /\ attempt'.inst = None /\ attempt'.live
      /\ m'.state = "resolving" /\ m'.desired
      /\ m'.handle = m.handle /\ m'.ready = m.ready /\ m'.candidate = m.candidate
  BY DEF Begin, NoAttempt, Fields
<1> USE ConstantAssumption
    DEF Full, Kept, Orderly, TypeOK, AttemptShape, ControlShape, ReadyOwned, OneLive, GivenUp, Cleared, Findable,
        Held, Silenced, Live, Holding, Discarding, Fields, Ids, NoAttempt, NoRecovery, NoClosing,
        Alive, Found, Current, Processes, Attempts, Recoveries, Withdrawals
<1> USE DEF world
<1>2. AttemptShape' /\ ControlShape' /\ ReadyOwned'
  BY <1>1
<1>3. OneLive' /\ GivenUp' /\ Cleared'
  BY <1>1
<1>4. Findable' /\ Held' /\ Silenced'
  BY <1>1
<1> QED BY <1>2, <1>3, <1>4

LEMMA AskStep == ASSUME Full, Orderly, Orderly', Ensure \/ RestartFires \/ StabilityFires, TypeOK' PROVE Full'
<1>1. m \in Fields
  BY DEF Full, Kept, TypeOK
<1>2. CASE Ensure
  BY <1>1, <1>2, BeginStep DEF Ensure, Wanted, world
<1>3. CASE RestartFires
  <2> DEFINE f == [m EXCEPT !.restart = FALSE]
  <2>1. f \in Fields
    BY <1>1, Zenon DEF Fields
  <2>2. /\ f.handle = m.handle /\ f.ready = m.ready /\ f.candidate = m.candidate
        /\ f.desired = m.desired /\ f.state = m.state
    BY <1>1, Zenon DEF Fields
  <2>3. \/ m.desired /\ attempt.pc = "none" /\ Begin(f)
        \/ m' = f /\ UNCHANGED attempt
    BY <1>3 DEF RestartFires, Wanted
  <2>4. UNCHANGED <<recovery, closing, watched, proc, descriptor, tokens, ours>>
    BY <1>3 DEF RestartFires
  <2> HIDE DEF f
  <2>5. CASE m.desired /\ attempt.pc = "none" /\ Begin(f)
    BY <2>1, <2>2, <2>4, <2>5, BeginStep
  <2>6. CASE m' = f /\ UNCHANGED attempt
    <3> USE ConstantAssumption
        DEF Full, Kept, Orderly, TypeOK, AttemptShape, ControlShape, ReadyOwned, OneLive, GivenUp, Cleared, Findable,
            Held, Silenced, Live, Holding, Discarding, Fields, Ids, NoAttempt, NoRecovery, NoClosing,
            Alive, Found, Current, Processes, Attempts, Recoveries, Withdrawals
    <3> USE DEF world
    <3>1. AttemptShape' /\ ControlShape' /\ ReadyOwned'
      BY <2>2, <2>4, <2>6
    <3>2. OneLive' /\ GivenUp' /\ Cleared'
      BY <2>2, <2>4, <2>6
    <3>3. Findable' /\ Held' /\ Silenced'
      BY <2>2, <2>4, <2>6
    <3> QED BY <3>1, <3>2, <3>3
  <2> QED BY <2>3, <2>5, <2>6
<1>4. CASE StabilityFires
  <2>1. /\ m'.handle = m.handle /\ m'.ready = m.ready /\ m'.candidate = m.candidate
        /\ m'.desired = m.desired /\ m'.state = m.state
        /\ UNCHANGED <<attempt, recovery, closing, watched, world>>
    BY <1>1, <1>4 DEF StabilityFires, Fields
  <2> USE ConstantAssumption
      DEF Full, Kept, Orderly, TypeOK, AttemptShape, ControlShape, ReadyOwned, OneLive, GivenUp, Cleared, Findable,
          Held, Silenced, Live, Holding, Discarding, Fields, Ids, NoAttempt, NoRecovery, NoClosing,
          Alive, Found, Current, Processes, Attempts, Recoveries, Withdrawals
  <2> USE DEF world
  <2>2. AttemptShape' /\ ControlShape' /\ ReadyOwned'
    BY <2>1
  <2>3. OneLive' /\ GivenUp' /\ Cleared'
    BY <2>1
  <2>4. Findable' /\ Held' /\ Silenced'
    BY <2>1
  <2> QED BY <2>2, <2>3, <2>4
<1> QED BY <1>2, <1>3, <1>4

-----------------------------------------------------------------------------
(* The invariant is preserved: a runtime is given up.                      *)

LEMMA ReportStep == ASSUME Full, Orderly, Orderly', Report, TypeOK' PROVE Full'
<1>1. /\ recovery'.pc = "probing" /\ recovery'.inst = m.ready /\ recovery'.own = None
      /\ recovery.pc = "none" /\ m.ready # None
      /\ UNCHANGED <<m, attempt, closing, watched, world>>
  BY DEF Report, NoRecovery
<1> USE ConstantAssumption
    DEF Full, Kept, Orderly, TypeOK, AttemptShape, ControlShape, ReadyOwned, OneLive, GivenUp, Cleared, Findable,
        Held, Silenced, Live, Holding, Discarding, Fields, Ids, NoAttempt, NoRecovery, NoClosing,
        Alive, Found, Current, Processes, Attempts, Recoveries, Withdrawals
<1> USE DEF world
<1>2. AttemptShape' /\ ControlShape' /\ ReadyOwned'
  BY <1>1
<1>3. OneLive' /\ GivenUp' /\ Cleared'
  BY <1>1
<1>4. Findable' /\ Held' /\ Silenced'
  BY <1>1
<1> QED BY <1>2, <1>3, <1>4

LEMMA AnswersStep == ASSUME Full, Orderly, Orderly', Answers, TypeOK' PROVE Full'
<1>1. recovery.pc = "probing" /\ recovery' = NoRecovery /\ UNCHANGED <<m, attempt, closing, watched, world>>
  BY DEF Answers
<1> USE ConstantAssumption
    DEF Full, Kept, Orderly, TypeOK, AttemptShape, ControlShape, ReadyOwned, OneLive, GivenUp, Cleared, Findable,
        Held, Silenced, Live, Holding, Discarding, Fields, Ids, NoAttempt, NoRecovery, NoClosing,
        Alive, Found, Current, Processes, Attempts, Recoveries, Withdrawals
<1> USE DEF world
<1>2. AttemptShape' /\ ControlShape' /\ ReadyOwned'
  BY <1>1
<1>3. OneLive' /\ GivenUp' /\ Cleared'
  BY <1>1
<1>4. Findable' /\ Held' /\ Silenced'
  BY <1>1
<1> QED BY <1>2, <1>3, <1>4

LEMMA GiveUpStep == ASSUME Full, Orderly, Orderly', GiveUp, TypeOK' PROVE Full'
<1>1. recovery.pc = "probing" /\ UNCHANGED <<closing, watched, proc, descriptor, tokens, ours>>
  BY DEF GiveUp
<1>2. /\ m.ready = recovery.inst /\ m.candidate = recovery.inst /\ m.desired
      /\ recovery'.pc = "discarding" /\ recovery'.inst = recovery.inst /\ recovery'.own = m.handle
      /\ m'.handle = None /\ m'.ready = None /\ m'.candidate = None /\ m'.desired = m.desired
      /\ m'.state = m.state
      /\ attempt'.pc = attempt.pc /\ attempt'.inst = attempt.inst /\ attempt'.own = attempt.own
      /\ attempt'.live = FALSE
  <2>1. /\ m.ready = recovery.inst /\ m.candidate = recovery.inst /\ m.desired
        /\ recovery' = [recovery EXCEPT !.pc = "discarding", !.own = m.handle]
        /\ m' = [m EXCEPT !.handle = None, !.ready = None, !.candidate = None,
                          !.restart = FALSE, !.stable = FALSE, !.bound = FALSE]
        /\ Cancel
    BY DEF GiveUp
  <2>2. attempt'.live = FALSE
    BY <2>1, Zenon DEF Cancel, Full, TypeOK, Attempts
  <2>3. attempt'.pc = attempt.pc /\ attempt'.inst = attempt.inst /\ attempt'.own = attempt.own
    BY <2>1 DEF Cancel, Full, TypeOK, Attempts
  <2> QED BY <2>1, <2>2, <2>3 DEF Full, TypeOK, Fields, Recoveries
<1>3. recovery.inst # None /\ proc[recovery.inst] # "starting"
  BY <1>1, <1>2 DEF Full, Kept, ControlShape, Held
<1>4. Live(recovery.inst) => m.handle = recovery.inst
  <2>1. ~(Serving(recovery.inst) /\ m.handle = None)
    BY DEF GiveUp, Orderly
  <2> QED BY <1>2, <1>3, <2>1 DEF Full, Kept, Held, Live, Serving
<1> USE ConstantAssumption
    DEF Full, Kept, Orderly, TypeOK, AttemptShape, ControlShape, ReadyOwned, OneLive, GivenUp, Cleared, Findable,
        Held, Silenced, Live, Holding, Discarding, Fields, Ids, NoAttempt, NoRecovery, NoClosing,
        Alive, Found, Current, Processes, Attempts, Recoveries, Withdrawals
<1>5. AttemptShape' /\ ControlShape' /\ ReadyOwned'
  BY <1>1, <1>2, <1>3, <1>4
<1>6. OneLive' /\ GivenUp' /\ Cleared'
  BY <1>1, <1>2, <1>3, <1>4
<1>7. Findable' /\ Held' /\ Silenced'
  BY <1>1, <1>2, <1>3, <1>4
<1> QED BY <1>5, <1>6, <1>7

LEMMA RetryNowEffect ==
  ASSUME m \in Fields, RetryNow
  PROVE  /\ m'.handle = m.handle /\ m'.ready = m.ready /\ m'.candidate = m.candidate /\ m'.desired = m.desired
         /\ m'.state = IF m.desired THEN "error" ELSE m.state
BY DEF RetryNow, Fields

LEMMA DiscardLostStep == ASSUME Full, Orderly, Orderly', DiscardLost, TypeOK' PROVE Full'
<1>1. /\ recovery.pc = "discarding" /\ descriptor' = None
      /\ UNCHANGED <<attempt, closing, tokens, ours, faults>>
  BY DEF DiscardLost
<1>2. recovery.own \in Ids /\ m \in Fields
  BY DEF Full, Kept, TypeOK, Recoveries
<1>3. \A i \in Instances : proc'[i] = IF i = recovery.own /\ Alive(i) THEN "killed" ELSE proc[i]
  BY <1>2 DEF DiscardLost, Kill, Alive, Ids, Full, Kept, TypeOK, Processes
<1>4. \A i \in Instances : ~Live(i)'
  <2> SUFFICES ASSUME NEW i \in Instances, Live(i)' PROVE FALSE
    OBVIOUS
  <2>1. proc'[i] = proc[i] /\ Live(i)
    BY <1>3 DEF Live
  <2>2. i = recovery.own
    BY <1>1, <2>1 DEF Full, Kept, GivenUp, Discarding
  <2>3. Alive(i)
    BY <2>1, ConstantAssumption DEF Live, Alive
  <2> QED BY <1>3, <2>2, <2>3 DEF Live
<1>5. CASE Alive(recovery.own)
  <2>1. recovery'.pc = "terminating" /\ recovery'.inst = recovery.inst /\ recovery'.own = recovery.own /\ m' = m
    BY <1>5 DEF DiscardLost, Full, Kept, TypeOK, Recoveries
  <2> USE ConstantAssumption
      DEF Full, Kept, Orderly, TypeOK, AttemptShape, ControlShape, ReadyOwned, OneLive, GivenUp, Cleared, Findable,
          Held, Silenced, Live, Holding, Discarding, Fields, Ids, NoAttempt, NoRecovery, NoClosing,
          Alive, Found, Current, Processes, Attempts, Recoveries, Withdrawals
  <2>2. AttemptShape' /\ ControlShape' /\ ReadyOwned'
    BY <1>1, <1>3, <1>4, <1>5, <2>1
  <2>3. OneLive' /\ GivenUp' /\ Cleared'
    BY <1>1, <1>3, <1>4, <1>5, <2>1
  <2>4. Findable' /\ Held' /\ Silenced'
    BY <1>1, <1>3, <1>4, <1>5, <2>1
  <2> QED BY <2>2, <2>3, <2>4
<1>6. CASE ~Alive(recovery.own)
  <2>1. recovery' = NoRecovery /\ RetryNow
    BY <1>6 DEF DiscardLost
  <2> USE ConstantAssumption
      DEF Full, Kept, Orderly, TypeOK, AttemptShape, ControlShape, ReadyOwned, OneLive, GivenUp, Cleared, Findable,
          Held, Silenced, Live, Holding, Discarding, Fields, Ids, NoAttempt, NoRecovery, NoClosing,
          Alive, Found, Current, Processes, Attempts, Recoveries, Withdrawals
  <2>2. AttemptShape' /\ ControlShape' /\ ReadyOwned'
    BY <1>1, <1>2, <1>3, <1>4, <1>6, <2>1, RetryNowEffect
  <2>3. OneLive' /\ GivenUp' /\ Cleared'
    BY <1>1, <1>2, <1>3, <1>4, <1>6, <2>1, RetryNowEffect
  <2>4. Findable' /\ Held' /\ Silenced'
    BY <1>1, <1>2, <1>3, <1>4, <1>6, <2>1, RetryNowEffect
  <2> QED BY <2>2, <2>3, <2>4
<1> QED BY <1>5, <1>6

LEMMA RecoveredStep == ASSUME Full, Orderly, Orderly', Recovered, TypeOK' PROVE Full'
<1>1. /\ recovery.pc = "terminating" /\ ~Alive(recovery.own) /\ recovery' = NoRecovery
      /\ RetryNow /\ m \in Fields /\ UNCHANGED <<attempt, closing, watched, world>>
  BY DEF Recovered, Full, Kept, TypeOK
<1> USE ConstantAssumption
    DEF Full, Kept, Orderly, TypeOK, AttemptShape, ControlShape, ReadyOwned, OneLive, GivenUp, Cleared, Findable,
        Held, Silenced, Live, Holding, Discarding, Fields, Ids, NoAttempt, NoRecovery, NoClosing,
        Alive, Found, Current, Processes, Attempts, Recoveries, Withdrawals
<1> USE DEF world
<1>2. AttemptShape' /\ ControlShape' /\ ReadyOwned'
  BY <1>1, RetryNowEffect
<1>3. OneLive' /\ GivenUp' /\ Cleared'
  BY <1>1, RetryNowEffect
<1>4. Findable' /\ Held' /\ Silenced'
  BY <1>1, RetryNowEffect
<1> QED BY <1>2, <1>3, <1>4

-----------------------------------------------------------------------------
(* The invariant is preserved: a closing begins.                           *)

LEMMA WithdrawnEffect ==
  ASSUME m \in Fields
  PROVE  /\ Withdrawn \in Fields
         /\ Withdrawn.desired = FALSE /\ Withdrawn.state = m.state /\ Withdrawn.handle = m.handle
         /\ Withdrawn.ready = m.ready /\ Withdrawn.candidate = m.candidate
BY WithdrawnType, Zenon DEF Withdrawn, Fields

LEMMA CancelEffect ==
  ASSUME attempt \in Attempts, Cancel
  PROVE  /\ attempt'.live = FALSE /\ attempt'.pc = attempt.pc
         /\ attempt'.inst = attempt.inst /\ attempt'.own = attempt.own
BY Zenon DEF Cancel, Attempts

LEMMA BeginStopStep == ASSUME Full, Orderly, Orderly', BeginStop, TypeOK' PROVE Full'
<1>1. m \in Fields /\ attempt \in Attempts
  BY DEF Full, Kept, TypeOK
<1>2. /\ m'.desired = FALSE /\ m'.state = "stopping" /\ m'.handle = m.handle
      /\ m'.ready = m.ready /\ m'.candidate = m.candidate
  BY <1>1, WithdrawnEffect DEF BeginStop, Fields
<1>3. /\ attempt'.live = FALSE /\ attempt'.pc = attempt.pc
      /\ attempt'.inst = attempt.inst /\ attempt'.own = attempt.own
  BY <1>1, CancelEffect DEF BeginStop
<1>4. /\ closing.pc = "none"
      /\ closing'.pc = "draining" /\ closing'.kind = "stop"
      /\ UNCHANGED <<recovery, watched, world>>
  BY DEF BeginStop, NoClosing
<1> USE ConstantAssumption
    DEF Full, Kept, Orderly, TypeOK, AttemptShape, ControlShape, ReadyOwned, OneLive, GivenUp, Cleared, Findable,
        Held, Silenced, Live, Holding, Discarding, Fields, Ids, NoAttempt, NoRecovery, NoClosing,
        Alive, Found, Current, Processes, Attempts, Recoveries, Withdrawals
<1> USE DEF world
<1>5. AttemptShape' /\ ControlShape' /\ ReadyOwned'
  BY <1>1, <1>2, <1>3, <1>4
<1>6. OneLive' /\ GivenUp' /\ Cleared'
  BY <1>1, <1>2, <1>3, <1>4
<1>7. Findable' /\ Held' /\ Silenced'
  BY <1>1, <1>2, <1>3, <1>4
<1> QED BY <1>5, <1>6, <1>7

LEMMA BeginDetachStep == ASSUME Full, Orderly, Orderly', BeginDetach, TypeOK' PROVE Full'
<1>1. m \in Fields /\ attempt \in Attempts
  BY DEF Full, Kept, TypeOK
<1>2. /\ m'.desired = FALSE /\ m'.state = m.state /\ m'.handle = m.handle
      /\ m'.ready = m.ready /\ m'.candidate = m.candidate
  BY <1>1, WithdrawnEffect DEF BeginDetach
<1>3. /\ attempt'.live = FALSE /\ attempt'.pc = attempt.pc
      /\ attempt'.inst = attempt.inst /\ attempt'.own = attempt.own
  BY <1>1, CancelEffect DEF BeginDetach
<1>4. /\ closing.pc = "none"
      /\ closing'.pc = "detaching" /\ closing'.kind = "detach"
      /\ UNCHANGED <<recovery, watched, world>>
  BY DEF BeginDetach, NoClosing
<1> USE ConstantAssumption
    DEF Full, Kept, Orderly, TypeOK, AttemptShape, ControlShape, ReadyOwned, OneLive, GivenUp, Cleared, Findable,
        Held, Silenced, Live, Holding, Discarding, Fields, Ids, NoAttempt, NoRecovery, NoClosing,
        Alive, Found, Current, Processes, Attempts, Recoveries, Withdrawals
<1> USE DEF world
<1>5. AttemptShape' /\ ControlShape' /\ ReadyOwned'
  BY <1>1, <1>2, <1>3, <1>4
<1>6. OneLive' /\ GivenUp' /\ Cleared'
  BY <1>1, <1>2, <1>3, <1>4
<1>7. Findable' /\ Held' /\ Silenced'
  BY <1>1, <1>2, <1>3, <1>4
<1> QED BY <1>5, <1>6, <1>7

LEMMA CommitStep == ASSUME Full, Orderly, Orderly', Commit, TypeOK' PROVE Full'
<1>1. m \in Fields /\ attempt \in Attempts
  BY DEF Full, Kept, TypeOK
<1>2. /\ m'.desired = FALSE /\ m'.state = "stopping" /\ m'.handle = m.handle
      /\ m'.ready = m.ready /\ m'.candidate = m.candidate
  BY <1>1, WithdrawnEffect DEF Commit, Fields
<1>3. /\ attempt'.live = FALSE /\ attempt'.pc = attempt.pc
      /\ attempt'.inst = attempt.inst /\ attempt'.own = attempt.own
  BY <1>1, CancelEffect DEF Commit
<1>4. /\ closing.pc = "none"
      /\ closing'.pc = "exiting" /\ closing'.kind = "commit"
      /\ closing'.cand = m.candidate /\ closing'.own = m.handle
      /\ UNCHANGED <<recovery, watched, descriptor, tokens, ours, faults>>
  BY DEF Commit
<1>5. m.candidate \in Instances /\ proc[m.candidate] = "serving" /\ proc' = [proc EXCEPT ![m.candidate] = "leaving"]
  BY <1>1, Zenon DEF Commit, Serving, AskedToLeave, Fields, Ids
<1>6. \A i \in Instances : ~Live(i)'
  <2> SUFFICES ASSUME NEW i \in Instances, Live(i)' PROVE FALSE
    OBVIOUS
  <2>1. i # m.candidate /\ proc'[i] = proc[i]
    BY <1>5 DEF Live, Full, Kept, TypeOK, Processes
  <2>2. Live(i) /\ Live(m.candidate)
    BY <1>5, <2>1 DEF Live
  <2> QED BY <1>5, <2>1, <2>2 DEF Full, Kept, OneLive
<1> USE ConstantAssumption
    DEF Full, Kept, Orderly, TypeOK, AttemptShape, ControlShape, ReadyOwned, OneLive, GivenUp, Cleared, Findable,
        Held, Silenced, Live, Holding, Discarding, Fields, Ids, NoAttempt, NoRecovery, NoClosing,
        Alive, Found, Current, Processes, Attempts, Recoveries, Withdrawals
<1> USE DEF world
<1>7. AttemptShape' /\ ControlShape' /\ ReadyOwned'
  BY <1>1, <1>2, <1>3, <1>4, <1>5, <1>6
<1>8. OneLive' /\ GivenUp' /\ Cleared'
  BY <1>1, <1>2, <1>3, <1>4, <1>5, <1>6
<1>9. Findable' /\ Held' /\ Silenced'
  BY <1>1, <1>2, <1>3, <1>4, <1>5, <1>6
<1> QED BY <1>7, <1>8, <1>9

-----------------------------------------------------------------------------
(* The invariant is preserved: a closing goes on and ends.                 *)

(* Asking a runtime to leave starts none.                                  *)
LEMMA LeaveEffect ==
  ASSUME TypeOK, NEW i \in Ids, proc' = AskedToLeave(i)
  PROVE  \A j \in Instances : proc'[j] = proc[j] \/ (j = i /\ proc[j] = "serving" /\ proc'[j] = "leaving")
BY DEF AskedToLeave, Serving, TypeOK, Processes, Ids

LEMMA DrainStep == ASSUME Full, Orderly, Orderly', Drain, TypeOK' PROVE Full'
<1>1. m.candidate \in Ids /\ m.handle \in Ids /\ closing \in Withdrawals
  BY DEF Full, Kept, TypeOK, Fields
<1>2. /\ closing.pc = "draining" /\ (attempt.pc = "none" \/ m.desired)
      /\ UNCHANGED <<m, attempt, recovery, watched, descriptor, tokens, ours>>
  BY DEF Drain
<1>3. \A j \in Instances :
        proc'[j] = proc[j] \/ (j = m.candidate /\ proc[j] = "serving" /\ proc'[j] = "leaving")
  BY <1>1, LeaveEffect DEF Drain, Full
<1>4. \/ closing' = NoClosing
      \/ /\ closing'.pc = "exiting" /\ closing'.kind = closing.kind /\ closing'.own = m.handle
         /\ Live(m.candidate)' /\ m.candidate # None => m.handle # None
  <2>1. PICK obeys \in {Serving(m.candidate), FALSE} :
          /\ proc' = IF obeys THEN AskedToLeave(m.candidate) ELSE proc
          /\ closing' = IF m.handle = None /\ Alive(m.candidate) /\ ~obeys
                        THEN NoClosing
                        ELSE [closing EXCEPT !.pc = "exiting", !.cand = m.candidate, !.own = m.handle]
    BY DEF Drain
  <2>2. CASE m.handle = None /\ Alive(m.candidate) /\ ~obeys
    BY <2>1, <2>2
  <2>3. CASE ~(m.handle = None /\ Alive(m.candidate) /\ ~obeys)
    <3>1. closing'.pc = "exiting" /\ closing'.kind = closing.kind /\ closing'.own = m.handle
      BY <1>1, <2>1, <2>3 DEF Withdrawals
    <3>2. ASSUME Live(m.candidate)', m.candidate # None, m.handle = None PROVE FALSE
      <4>1. m.candidate \in Instances /\ proc'[m.candidate] \in {"starting", "serving"} /\ proc \in Processes
        BY <1>1, <1>2, <3>2 DEF Live, Full, TypeOK, Ids
      <4>2. CASE obeys
        <5>1. Serving(m.candidate)
          BY <4>2
        <5>2. proc' = [proc EXCEPT ![m.candidate] = "leaving"]
          BY <2>1, <4>2, <5>1 DEF AskedToLeave
        <5> QED BY <4>1, <5>2 DEF Processes
      <4>3. CASE ~obeys
        <5>1. proc' = proc
          BY <2>1, <4>3
        <5>2. Alive(m.candidate)
          BY <3>2, <4>1, <5>1 DEF Alive
        <5> QED BY <2>3, <3>2, <4>3, <5>2
      <4> QED BY <4>2, <4>3
    <3> QED BY <3>1, <3>2
  <2> QED BY <2>2, <2>3
<1> USE ConstantAssumption
    DEF Full, Kept, Orderly, TypeOK, AttemptShape, ControlShape, ReadyOwned, OneLive, GivenUp, Cleared, Findable,
        Held, Silenced, Live, Holding, Discarding, Fields, Ids, NoAttempt, NoRecovery, NoClosing,
        Alive, Found, Current, Processes, Attempts, Recoveries, Withdrawals
<1> USE DEF world
<1> USE DEF Serving
<1>5. AttemptShape' /\ ControlShape' /\ ReadyOwned'
  BY <1>1, <1>2, <1>3, <1>4
<1>6. OneLive' /\ GivenUp' /\ Cleared'
  BY <1>1, <1>2, <1>3, <1>4
<1>7. Findable' /\ Held' /\ Silenced'
  BY <1>1, <1>2, <1>3, <1>4
<1> QED BY <1>5, <1>6, <1>7

(* Terminating a process starts none.                                      *)
LEMMA KillEffect ==
  ASSUME TypeOK, NEW i \in Ids, Kill(i)
  PROVE  \A j \in Instances : proc'[j] = IF j = i /\ Alive(j) THEN "killed" ELSE proc[j]
BY ConstantAssumption DEF Kill, Alive, TypeOK, Processes, Ids

LEMMA ExitOverdueStep == ASSUME Full, Orderly, Orderly', ExitOverdue, TypeOK' PROVE Full'
<1>1. closing.own \in Ids /\ closing.cand \in Ids
  BY DEF Full, Kept, TypeOK, Withdrawals
<1>2. /\ closing.pc = "exiting" /\ recovery.pc # "probing"
      /\ UNCHANGED <<m, attempt, recovery, descriptor, tokens, ours, faults>>
  BY DEF ExitOverdue
<1>3. CASE closing' = NoClosing /\ UNCHANGED <<proc, watched>>
  <2> USE ConstantAssumption
      DEF Full, Kept, Orderly, TypeOK, AttemptShape, ControlShape, ReadyOwned, OneLive, GivenUp, Cleared, Findable,
          Held, Silenced, Live, Holding, Discarding, Fields, Ids, NoAttempt, NoRecovery, NoClosing,
          Alive, Found, Current, Processes, Attempts, Recoveries, Withdrawals
  <2> USE DEF world
  <2>1. AttemptShape' /\ ControlShape' /\ ReadyOwned'
    BY <1>2, <1>3
  <2>2. OneLive' /\ GivenUp' /\ Cleared'
    BY <1>2, <1>3
  <2>3. Findable' /\ Held' /\ Silenced'
    BY <1>2, <1>3
  <2> QED BY <2>1, <2>2, <2>3
<1>4. CASE Alive(closing.own) /\ Kill(closing.own) /\ UNCHANGED closing
  <2>1. \A j \in Instances : proc'[j] = IF j = closing.own /\ Alive(j) THEN "killed" ELSE proc[j]
    BY <1>1, <1>4, KillEffect DEF Full, Kept
  <2> USE ConstantAssumption
      DEF Full, Kept, Orderly, TypeOK, AttemptShape, ControlShape, ReadyOwned, OneLive, GivenUp, Cleared, Findable,
          Held, Silenced, Live, Holding, Discarding, Fields, Ids, NoAttempt, NoRecovery, NoClosing,
          Alive, Found, Current, Processes, Attempts, Recoveries, Withdrawals
  <2> USE DEF world
  <2>2. AttemptShape' /\ ControlShape' /\ ReadyOwned'
    BY <1>1, <1>2, <1>4, <2>1
  <2>3. OneLive' /\ GivenUp' /\ Cleared'
    BY <1>1, <1>2, <1>4, <2>1
  <2>4. Findable' /\ Held' /\ Silenced'
    BY <1>1, <1>2, <1>4, <2>1
  <2> QED BY <2>2, <2>3, <2>4
<1> QED BY <1>2, <1>3, <1>4 DEF ExitOverdue

LEMMA ForgottenEffect ==
  ASSUME m \in Fields
  PROVE  /\ Forgotten \in Fields
         /\ Forgotten.desired = m.desired /\ Forgotten.handle = None
         /\ Forgotten.ready = None /\ Forgotten.candidate = None
BY ForgottenType, Zenon DEF Forgotten, Fields

LEMMA ClosedStep == ASSUME Full, Orderly, Orderly', Closed, TypeOK' PROVE Full'
<1>1. m \in Fields /\ closing \in Withdrawals
  BY DEF Full, Kept, TypeOK
<1>2. /\ m'.desired = m.desired /\ m'.state = "idle" /\ m'.handle = None
      /\ m'.ready = None /\ m'.candidate = None
  BY <1>1, ForgottenEffect DEF Closed, Fields
<1>3. /\ closing.pc = "exiting" /\ closing'.pc = "none" /\ closing'.kind = "none"
      /\ descriptor' = IF closing.kind = "commit" THEN None ELSE descriptor
      /\ UNCHANGED <<attempt, recovery, watched, proc, tokens, ours, faults>>
      /\ ~m.desired /\ ~Alive(IF closing.own # None THEN closing.own ELSE closing.cand)
  BY DEF Closed, NoClosing, Orderly
<1> USE ConstantAssumption
    DEF Full, Kept, Orderly, TypeOK, AttemptShape, ControlShape, ReadyOwned, OneLive, GivenUp, Cleared, Findable,
        Held, Silenced, Live, Holding, Discarding, Fields, Ids, NoAttempt, NoRecovery, NoClosing,
        Alive, Found, Current, Processes, Attempts, Recoveries, Withdrawals
<1> USE DEF world
<1>4. AttemptShape' /\ ControlShape' /\ ReadyOwned'
  BY <1>1, <1>2, <1>3
<1>5. OneLive' /\ GivenUp' /\ Cleared'
  BY <1>1, <1>2, <1>3
<1>6. Findable' /\ Held' /\ Silenced'
  BY <1>1, <1>2, <1>3
<1> QED BY <1>4, <1>5, <1>6

LEMMA DetachedStep == ASSUME Full, Orderly, Orderly', Detached, TypeOK' PROVE Full'
<1>1. m \in Fields /\ closing \in Withdrawals
  BY DEF Full, Kept, TypeOK
<1>2. /\ m'.desired = m.desired /\ m'.state = "detached" /\ m'.handle = None
      /\ m'.ready = None /\ m'.candidate = None
  BY <1>1, ForgottenEffect DEF Detached, Fields
<1>3. /\ closing.pc = "detaching" /\ closing'.pc = "none" /\ closing'.kind = "none" /\ ours' = {}
      /\ UNCHANGED <<attempt, recovery, watched, proc, descriptor, tokens, faults>>
      /\ ~m.desired /\ ~Holding
  BY DEF Detached, NoClosing, Orderly
<1> USE ConstantAssumption
    DEF Full, Kept, Orderly, TypeOK, AttemptShape, ControlShape, ReadyOwned, OneLive, GivenUp, Cleared, Findable,
        Held, Silenced, Live, Holding, Discarding, Fields, Ids, NoAttempt, NoRecovery, NoClosing,
        Alive, Found, Current, Processes, Attempts, Recoveries, Withdrawals
<1> USE DEF world
<1>4. AttemptShape' /\ ControlShape' /\ ReadyOwned'
  BY <1>1, <1>2, <1>3
<1>5. OneLive' /\ GivenUp' /\ Cleared'
  BY <1>1, <1>2, <1>3
<1>6. Findable' /\ Held' /\ Silenced'
  BY <1>1, <1>2, <1>3
<1> QED BY <1>4, <1>5, <1>6

-----------------------------------------------------------------------------
(* The invariant is preserved: the processes.                              *)

LEMMA ExitSeenStep == ASSUME Full, Orderly, Orderly', NEW e \in Instances, ExitSeen(e), TypeOK' PROVE Full'
<1> DEFINE f == [m EXCEPT !.handle = None, !.ready = None, !.candidate = None]
<1>1. m \in Fields
  BY DEF Full, Kept, TypeOK
<1>2. f \in Fields
  BY <1>1, Zenon DEF Fields, Ids
<1>3. f.handle = None /\ f.ready = None /\ f.candidate = None /\ f.desired = m.desired /\ f.state = m.state
  BY <1>1, Zenon DEF Fields
<1>4. /\ ~Alive(e) /\ UNCHANGED <<attempt, recovery, closing, world>>
      /\ \/ UNCHANGED m
         \/ m.handle = e /\ ((m.desired /\ FailAndRetry(f)) \/ (~m.desired /\ m' = f))
  <2>1. ~Alive(e) /\ UNCHANGED <<attempt, recovery, closing, world>>
    BY DEF ExitSeen
  <2>2. IF m.handle # e THEN UNCHANGED m ELSE IF m.desired THEN FailAndRetry(f) ELSE m' = f
    BY Zenon DEF ExitSeen
  <2> HIDE DEF f
  <2> QED BY <2>1, <2>2
<1> HIDE DEF f
<1>5. CASE UNCHANGED m
  <2> USE ConstantAssumption
      DEF Full, Kept, Orderly, TypeOK, AttemptShape, ControlShape, ReadyOwned, OneLive, GivenUp, Cleared, Findable,
          Held, Silenced, Live, Holding, Discarding, Fields, Ids, NoAttempt, NoRecovery, NoClosing,
          Alive, Found, Current, Processes, Attempts, Recoveries, Withdrawals
  <2> USE DEF world
  <2>1. AttemptShape' /\ ControlShape' /\ ReadyOwned'
    BY <1>4, <1>5
  <2>2. OneLive' /\ GivenUp' /\ Cleared'
    BY <1>4, <1>5
  <2>3. Findable' /\ Held' /\ Silenced'
    BY <1>4, <1>5
  <2> QED BY <2>1, <2>2, <2>3
<1>6. CASE m.handle = e /\ ((m.desired /\ FailAndRetry(f)) \/ (~m.desired /\ m' = f))
  <2>1. /\ m'.handle = None /\ m'.ready = None /\ m'.candidate = None /\ m'.desired = m.desired
        /\ IF m.desired THEN m'.state \in {"error", "crash_loop"} ELSE m'.state = m.state
    <3>1. CASE m.desired /\ FailAndRetry(f)
      <4>1. PICK n \in 1..(f.failures + 1) \cap 1..CrashLoopAt :
              m' = IF n = CrashLoopAt
                   THEN [f EXCEPT !.failures = n, !.state = "crash_loop"]
                   ELSE [f EXCEPT !.failures = n, !.state = "error", !.restart = TRUE]
        BY <3>1 DEF FailAndRetry
      <4> QED BY <3>1, <4>1, <1>2, <1>3 DEF Fields
    <3> QED BY <1>3, <1>6, <3>1
  <2>2. m.candidate # None => ~Live(m.candidate)
    BY <1>4, <1>6, ConstantAssumption DEF Full, Kept, Held, Live, Alive
  <2> USE ConstantAssumption
      DEF Full, Kept, Orderly, TypeOK, AttemptShape, ControlShape, ReadyOwned, OneLive, GivenUp, Cleared, Findable,
          Held, Silenced, Live, Holding, Discarding, Fields, Ids, NoAttempt, NoRecovery, NoClosing,
          Alive, Found, Current, Processes, Attempts, Recoveries, Withdrawals
  <2> USE DEF world
  <2>3. AttemptShape' /\ ControlShape' /\ ReadyOwned'
    BY <1>4, <1>6, <2>1
  <2>4. OneLive' /\ GivenUp'
    BY <1>4, <1>6, <2>1
  <2>5. Cleared' /\ Silenced'
    BY <1>4, <1>6, <2>1
  <2>6. UNCHANGED <<proc, descriptor, tokens, attempt, recovery, ours>> /\ m'.ready = None /\ m'.candidate = None
    BY <1>4, <2>1
  <2>7. m.state = "detached" => m'.state = "detached"
    BY <2>1
  <2>8. Findable'
    BY <2>1, <2>6, <2>7
  <2>9. Held'
    BY <1>4, <1>6, <2>2, <2>6, <2>7
  <2> QED BY <2>3, <2>4, <2>5, <2>8, <2>9
<1> QED BY <1>4, <1>5, <1>6

LEMMA ServeStep == ASSUME Full, Orderly, Orderly', NEW s \in Instances, Serve(s), TypeOK' PROVE Full'
<1>1. /\ proc[s] = "starting" /\ descriptor' = s
      /\ \A j \in Instances : proc'[j] = IF j = s THEN "serving" ELSE proc[j]
      /\ UNCHANGED <<m, attempt, recovery, closing, watched, tokens, ours, faults>>
  BY DEF Serve, Full, Kept, TypeOK, Processes
<1> USE ConstantAssumption
    DEF Full, Kept, Orderly, TypeOK, AttemptShape, ControlShape, ReadyOwned, OneLive, GivenUp, Cleared, Findable,
        Held, Silenced, Live, Holding, Discarding, Fields, Ids, NoAttempt, NoRecovery, NoClosing,
        Alive, Found, Current, Processes, Attempts, Recoveries, Withdrawals
<1> USE DEF world
<1>2. AttemptShape' /\ ControlShape' /\ ReadyOwned'
  BY <1>1
<1>3. OneLive' /\ GivenUp' /\ Cleared'
  BY <1>1
<1>4. Findable' /\ Held' /\ Silenced'
  BY <1>1
<1> QED BY <1>2, <1>3, <1>4

(* A process that ends takes only its own descriptor along.                *)
LEMMA EndStep ==
  ASSUME Full, Orderly, Orderly', NEW e \in Instances, Exit(e) \/ Crash(e), TypeOK'
  PROVE  Full'
<1>1. UNCHANGED <<m, attempt, recovery, closing, watched, tokens, ours>>
  BY DEF Exit, Crash
<1>2. /\ proc[e] # "gone" /\ proc'[e] \in {"gone", "hung"}
      /\ \A j \in Instances : j # e => proc'[j] = proc[j]
  <2>1. CASE Exit(e)
    BY <2>1 DEF Exit, Full, Kept, TypeOK, Processes
  <2>2. CASE Crash(e)
    BY <2>2 DEF Crash, Full, Kept, TypeOK, Processes
  <2> QED BY <2>1, <2>2
<1>3. \/ UNCHANGED descriptor
      \/ descriptor = e /\ descriptor' = None /\ proc'[e] = "gone"
  <2>1. CASE Exit(e)
    BY <2>1 DEF Exit, Full, Kept, TypeOK, Processes
  <2>2. CASE Crash(e)
    BY <2>2 DEF Crash
  <2> QED BY <2>1, <2>2
<1> USE ConstantAssumption
    DEF Full, Kept, Orderly, TypeOK, AttemptShape, ControlShape, ReadyOwned, OneLive, GivenUp, Cleared, Findable,
        Held, Silenced, Live, Holding, Discarding, Fields, Ids, NoAttempt, NoRecovery, NoClosing,
        Alive, Found, Current, Processes, Attempts, Recoveries, Withdrawals
<1>4. AttemptShape' /\ ControlShape' /\ ReadyOwned'
  BY <1>1, <1>2, <1>3
<1>5. OneLive' /\ GivenUp' /\ Cleared'
  BY <1>1, <1>2, <1>3
<1>6. Findable' /\ Held' /\ Silenced'
  BY <1>1, <1>2, <1>3
<1> QED BY <1>4, <1>5, <1>6

-----------------------------------------------------------------------------
(* The results.                                                            *)

LEMMA InitInv == Init => Inv
<1> SUFFICES ASSUME Init PROVE Inv
  OBVIOUS
<1>1. TypeOK
  <2>1. m \in Fields
    <3>1. 0 \in 0..CrashLoopAt
      BY ConstantAssumption
    <3> QED BY <3>1, Zenon DEF Init, Fields, States, Ids
  <2> QED BY <2>1, EmptyTypes, ConstantAssumption DEF Init, TypeOK, Processes
<1>2. /\ attempt.pc = "none" /\ ~attempt.live /\ attempt.inst = None /\ attempt.own = None
      /\ recovery.pc = "none" /\ closing.pc = "none" /\ closing.kind = "none"
      /\ m.state = "idle" /\ m.ready = None /\ m.candidate = None /\ m.handle = None /\ ~m.desired
      /\ tokens = descriptor /\ ours = {}
      /\ \A i \in Instances : Live(i) => i = descriptor
  BY DEF Init, NoAttempt, NoRecovery, NoClosing, Live
<1>3. AttemptShape /\ ControlShape /\ ReadyOwned
  BY <1>2 DEF AttemptShape, ControlShape, ReadyOwned
<1>4. OneLive /\ GivenUp /\ Cleared
  BY <1>2 DEF OneLive, GivenUp, Cleared, Discarding, Found
<1>5. Findable /\ Held /\ Silenced
  BY <1>2 DEF Findable, Held, Silenced, Discarding, Found, Holding, Alive
<1> QED BY <1>1, <1>3, <1>4, <1>5 DEF Inv, Kept

(* A mishap is never taken back.                                           *)
LEMMA OrderlyBefore == ASSUME [Next]_vars, Orderly' PROVE Orderly
<1>1. CASE RestartFires
  BY <1>1 DEF RestartFires, Orderly
<1>2. CASE GiveUp
  BY <1>2 DEF GiveUp, Orderly
<1>3. CASE Closed
  BY <1>3 DEF Closed, Orderly
<1>4. CASE Detached
  BY <1>4 DEF Detached, Orderly
<1>5. CASE UNCHANGED mishap
  BY <1>5 DEF Orderly
<1>6. CASE Attempt
  BY <1>5, <1>6 DEF Attempt, Cancelled, Fails, Resolve, ReadExisting, ProbeExisting, DiscardStale, Prepare,
    Launch, Spawned, LaunchFails, CandidateAppears, WaitEnds, Verify, Accept, AuthenticationFails, Cleaned, world
<1> QED
  BY <1>1, <1>2, <1>3, <1>4, <1>5, <1>6
  DEF Next, vars, world, Ensure, StabilityFires, Recovery, Report, Answers, DiscardLost, Recovered,
    BeginStop, Commit, BeginDetach, Close, Drain, ExitOverdue, World, ExitSeen, Serve, Exit, Crash

LEMMA FullNext == ASSUME Full, Orderly, Orderly', [Next]_vars, TypeOK' PROVE Full'
<1>2. CASE Attempt
  BY <1>2, SearchStep, LaunchStep, AdmitStep DEF Attempt
<1>3. CASE Recovery
  BY <1>3, ReportStep, AnswersStep, GiveUpStep, DiscardLostStep, RecoveredStep DEF Recovery
<1>4. CASE Close
  BY <1>4, DrainStep, ExitOverdueStep, ClosedStep, DetachedStep DEF Close
<1>5. CASE \E i \in Instances : World(i) \/ Crash(i)
  BY <1>5, ExitSeenStep, ServeStep, EndStep DEF World
<1>6. CASE UNCHANGED vars
  BY <1>6 DEF vars, world, Full, Kept, Orderly, TypeOK, AttemptShape, ControlShape, ReadyOwned, OneLive,
    GivenUp, Cleared, Findable, Held, Silenced, Live, Holding, Discarding, Alive, Found
<1> QED
  BY <1>2, <1>3, <1>4, <1>5, <1>6, AskStep, BeginStopStep, CommitStep, BeginDetachStep DEF Next

LEMMA NextInv == Inv /\ [Next]_vars => Inv'
<1> SUFFICES ASSUME Inv, [Next]_vars PROVE Inv'
  OBVIOUS
<1>1. TypeOK'
  BY TypeStep DEF Inv
<1>2. AttemptShape'
  BY ShapeStep DEF Inv
<1>3. Orderly' => Kept'
  BY <1>1, OrderlyBefore, FullNext DEF Inv, Full
<1> QED BY <1>1, <1>2, <1>3 DEF Inv

(* What holds of every state of the manager: the inductive invariant.      *)
THEOREM InvAlways == Spec => []Inv
BY InitInv, NextInv, PTL DEF Spec

(* Whatever starts, recoveries, closings, crashes and hangs interleave,    *)
(* also a start with a closing or after a detach: as long as no closing    *)
(* has forgotten what a start holds and no runtime without a handle was    *)
(* given up while it answers, two runtimes never answer for one vault, a   *)
(* runtime that comes up or answers can be found by the manager or by the  *)
(* next start, and a ready runtime is one the manager can shut down.       *)
THEOREM SoundAlways == Spec => []Sound
<1>1. Inv => Sound
  <2> SUFFICES ASSUME Inv PROVE Sound
    OBVIOUS
  <2>1. OneServing
    BY DEF Inv, Kept, OneLive, OneServing, Live
  <2>2. Reachable
    BY DEF Inv, Kept, OneLive, GivenUp, Reachable, Live
  <2>3. ReadyOwned
    BY DEF Inv, Kept, ReadyOwned
  <2> QED BY <2>1, <2>2, <2>3 DEF Inv, Sound
<1> QED BY <1>1, InvAlways, PTL

(* Once the manager has stopped and nobody has asked again, no runtime it  *)
(* started is coming up or answering, except one that a recovery is about  *)
(* to terminate; this too as long as no closing has forgotten what a start *)
(* holds.                                                                  *)
THEOREM StopMeansStoppedAlways == Spec => []StopMeansStopped
<1>1. Inv => StopMeansStopped
  BY DEF Inv, Kept, Silenced, StopMeansStopped, Live
<1> QED BY <1>1, InvAlways, PTL

=============================================================================
