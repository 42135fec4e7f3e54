--------------------- MODULE DirectoryObservation_proofs ---------------------
(* Proofs about DirectoryObservation, for all limits and bounds, and about *)
(* the bridge that it reports over: ObsidianBridge, for all owners,        *)
(* requests and bounds.                                                    *)
EXTENDS DirectoryObservation, ObsidianBridge, SequenceTheorems, WellFoundedInduction, TLAPS

-----------------------------------------------------------------------------
(* The inductive invariant of DirectoryObservation.                        *)

Started == phase = "started"

(* A started service works on what it has, until it gives up: then it has  *)
(* a rescan to make.  Only what is sent next has been attempted.           *)
Steady(s) ==
  /\ s.available \/ s.rescan
  /\ s.inFlight \/ s.retrying => s.available /\ (s.rescan \/ s.queue # <<>>)
  /\ s.inFlight => ~s.retrying
  /\ s.rescan => s.queue = <<>>
  /\ s.queue # <<>> => s.inFlight \/ s.retrying
  /\ s.retrying => s.attempts < MaxAttempts
  /\ ~s.rescan => s.attempts <= MaxAttempts /\ (s.queue = <<>> => s.attempts = 0)

(* Without a connection nothing is under way, and a service that was not   *)
(* started or is disposed has nothing to do.                               *)
Connected ==
  /\ bridge = "down" => up = <<>> /\ down = <<>> /\ ~svc.inFlight /\ (Started => ~svc.available)
  /\ bridge = "closing" => spent.drops > 0
  /\ IF Started THEN Steady(svc) ELSE svc = [Idle EXCEPT !.available = svc.available]
  /\ phase = "new" => tries = 0 /\ ~svc.available

(* Requests sent for s when it has made its attempts                       *)
Budget(s) == (IF s.rescan THEN MaxAttempts ELSE 0) + s.attempts

(* A rescan that outlives connections has one attempt more for each.       *)
Bounded ==
  /\ svc.attempts <= MaxAttempts + spent.drops
  /\ bridge # "ready" => svc.attempts < MaxAttempts + spent.drops
  /\ tries \in 0..(2 * MaxAttempts)
  /\ Started /\ svc.available => tries <= Budget(svc)

(* The renames that the runtime was told of, or misses.                    *)
Dealt == known \cup missed

(* The answer that is waited for is that of the item that was sent.        *)
Attended ==
  /\ \A i \in 1..Len(up) : up[i].current => svc.inFlight /\ up[i].item = Request(svc).item
  /\ \A i \in 1..Len(down) : down[i].current =>
       /\ svc.inFlight
       /\ ~down[i].retryable => IF svc.rescan THEN 1..renames \subseteq Dealt ELSE Head(svc.queue) \in Dealt

(* The queue holds the latest renames in order, all others are dealt with, *)
(* and so is all that comes before what is reported.                       *)
Lined(q, n) == Len(q) <= n /\ q = [i \in 1..Len(q) |-> n - Len(q) + i]

InOrder ==
  /\ Lined(svc.queue, renames)
  /\ Dealt \subseteq 1..renames
  /\ Started /\ ~svc.rescan => 1..(renames - Len(svc.queue)) \subseteq Dealt
  /\ \A i \in 1..Len(up) : up[i].item # Rescan =>
       up[i].item \in 1..renames /\ 1..(up[i].item - 1) \subseteq Dealt

Inv == TypeOK /\ Connected /\ Bounded /\ Attended /\ InOrder

-----------------------------------------------------------------------------
(* What the methods make of a service.                                     *)

LEMMA Bounds ==
  /\ QueueLimit \in Nat /\ MaxAttempts \in Nat /\ MaxAttempts > 0
  /\ MaxRenames \in Nat /\ MaxDrops \in Nat /\ MaxFaults \in Nat
BY ConstantAssumption

Service == [available : BOOLEAN, rescan : BOOLEAN, queue : Seq(1..MaxRenames),
            attempts : Nat, inFlight : BOOLEAN, retrying : BOOLEAN]

(* s waits for nothing and has something to send, t requests having been   *)
(* sent.                                                                   *)
Resting(s, t) ==
  /\ s \in Service /\ s.available /\ ~s.inFlight /\ ~s.retrying
  /\ s.rescan => s.queue = <<>>
  /\ ~s.rescan => s.queue # <<>> /\ s.attempts <= MaxAttempts
  /\ t \in 0..(2 * MaxAttempts) /\ t <= Budget(s)

(* r is what becomes of s: it waits, has a timer, or has given up, and     *)
(* only a rescan makes it forget its queue.                                *)
Spending(r, t) == IF r.inFlight THEN t + 1 ELSE t

Sent(r, s, t, open) ==
  /\ r \in Service /\ Steady(r) /\ r.attempts <= MaxAttempts
  /\ r.inFlight => open
  /\ s.rescan => r.rescan
  /\ ~r.rescan => r.queue = s.queue
  /\ Spending(r, t) \in 0..(2 * MaxAttempts)
  /\ r.available => Spending(r, t) <= Budget(r)

LEMMA RetryRescanIs ==
  ASSUME NEW s, NEW t, NEW open \in BOOLEAN, Resting(s, t), s.rescan
  PROVE  Sent(RetryRescan(s), s, t, open)
<1> USE Bounds DEF Service
<1>1. s \in Service /\ s.available /\ ~s.inFlight /\ ~s.retrying /\ s.queue = <<>> /\ s.attempts \in Nat
      /\ t \in 0..(2 * MaxAttempts) /\ t <= MaxAttempts + s.attempts /\ MaxAttempts \in Nat
  BY DEF Resting, Budget
<1>2. CASE s.attempts < MaxAttempts
  <2> DEFINE r == [s EXCEPT !.retrying = TRUE]
  <2>1. /\ r \in Service /\ r.available /\ r.rescan /\ r.queue = <<>> /\ r.attempts = s.attempts
        /\ ~r.inFlight /\ r.retrying
    BY <1>1
  <2>2. RetryRescan(s) = r
    BY <1>2 DEF RetryRescan
  <2> HIDE DEF r
  <2>3. Sent(r, s, t, open)
    BY <1>1, <1>2, <2>1 DEF Sent, Steady, Spending, Budget
  <2> QED BY <2>2, <2>3
<1>3. CASE ~(s.attempts < MaxAttempts)
  <2> DEFINE r == [s EXCEPT !.attempts = 0, !.available = FALSE]
  <2>1. /\ r \in Service /\ ~r.available /\ r.rescan /\ r.queue = <<>> /\ r.attempts = 0
        /\ ~r.inFlight /\ ~r.retrying
    BY <1>1
  <2>2. RetryRescan(s) = r
    BY <1>3 DEF RetryRescan
  <2> HIDE DEF r
  <2>3. Sent(r, s, t, open)
    BY <1>1, <2>1 DEF Sent, Steady, Spending, Budget
  <2> QED BY <2>2, <2>3
<1> QED BY <1>2, <1>3

LEMMA AttemptedIs ==
  ASSUME NEW s \in Service
  PROVE  /\ Attempted(s) \in Service /\ Attempted(s).attempts = s.attempts + 1
         /\ Attempted(s).available = s.available /\ Attempted(s).rescan = s.rescan /\ Attempted(s).queue = s.queue
         /\ Attempted(s).inFlight = s.inFlight /\ Attempted(s).retrying = s.retrying
BY DEF Attempted, Service

LEMMA WaitingIs ==
  ASSUME NEW s \in Service
  PROVE  /\ Waiting(s) \in Service /\ Waiting(s).inFlight
         /\ Waiting(s).available = s.available /\ Waiting(s).rescan = s.rescan /\ Waiting(s).queue = s.queue
         /\ Waiting(s).attempts = s.attempts /\ Waiting(s).retrying = s.retrying
BY DEF Waiting, Service

(* One attempt, where there was one left, keeps the budget.                *)
LEMMA AttemptRests ==
  ASSUME NEW s, NEW t, Resting(s, t), s.attempts < MaxAttempts
  PROVE  /\ Resting(Attempted(s), t)
         /\ Sent(Waiting(Attempted(s)), s, t, TRUE)
<1> DEFINE a == Attempted(s)
           w == Waiting(a)
<1>1. s \in Service /\ s.attempts \in Nat /\ MaxAttempts \in Nat
  BY Bounds DEF Resting, Service
<1>2. /\ a \in Service /\ a.attempts = s.attempts + 1
      /\ a.available = s.available /\ a.rescan = s.rescan /\ a.queue = s.queue
      /\ a.inFlight = s.inFlight /\ a.retrying = s.retrying
  BY <1>1, AttemptedIs
<1>3. /\ w \in Service /\ w.inFlight
      /\ w.available = a.available /\ w.rescan = a.rescan /\ w.queue = a.queue
      /\ w.attempts = a.attempts /\ w.retrying = a.retrying
  BY <1>2, WaitingIs
<1> HIDE DEF a, w
<1>4. Resting(a, t)
  BY <1>1, <1>2 DEF Resting, Budget
<1>5. Sent(w, s, t, TRUE)
  BY <1>1, <1>2, <1>3 DEF Resting, Sent, Steady, Spending, Budget
<1> QED BY <1>4, <1>5 DEF a, w

LEMMA SendRescanIs ==
  ASSUME NEW s, NEW t, NEW open \in BOOLEAN, Resting(s, t), s.rescan, s.attempts < MaxAttempts
  PROVE  Sent(SendRescan(s, open), s, t, open)
<1>1. Resting(Attempted(s), t) /\ Sent(Waiting(Attempted(s)), s, t, TRUE) /\ Attempted(s).rescan
  BY AttemptRests, AttemptedIs DEF Resting
<1>2. CASE open
  BY <1>1, <1>2 DEF SendRescan, Sent
<1>3. CASE ~open
  <2>1. Sent(RetryRescan(Attempted(s)), Attempted(s), t, open)
    BY <1>1, RetryRescanIs
  <2> QED BY <1>1, <1>3, <2>1 DEF SendRescan, Sent
<1> QED BY <1>2, <1>3

(* requireRescan, with and without a connection                            *)
LEMMA RescanIs ==
  ASSUME NEW s \in Service, NEW open \in BOOLEAN
  PROVE  \E r \in Service :
           /\ (s.available => r.available) /\ (~s.available => ~r.available)
           /\ r.rescan /\ r.queue = <<>> /\ ~r.inFlight /\ ~r.retrying
           /\ r.attempts = IF s.rescan THEN s.attempts ELSE 0
           /\ s.available => RequireRescan(s, open) = SendRescan(r, open)
           /\ ~s.available => RequireRescan(s, open) = r
<1> DEFINE n == IF s.rescan THEN s.attempts ELSE 0
           r == [s EXCEPT !.inFlight = FALSE, !.retrying = FALSE, !.queue = <<>>, !.rescan = TRUE, !.attempts = n]
<1>1. n \in Nat /\ <<>> \in Seq(1..MaxRenames)
  BY DEF Service
<1>2. RequireRescan(s, open) = IF s.available THEN SendRescan(r, open) ELSE r
  BY DEF RequireRescan
<1> HIDE DEF n
<1>3. /\ r \in Service /\ r.available = s.available /\ r.rescan /\ r.queue = <<>> /\ r.attempts = n
      /\ ~r.inFlight /\ ~r.retrying
  BY <1>1 DEF Service
<1> HIDE DEF r
<1>4. (s.available => r.available) /\ (~s.available => ~r.available)
  BY <1>3, Zenon
<1> QED BY <1>2, <1>3, <1>4 DEF n

LEMMA RequireRescanIs ==
  ASSUME NEW s \in Service, NEW t, NEW open \in BOOLEAN, s.available, ~s.rescan,
         t \in 0..(2 * MaxAttempts), t <= MaxAttempts
  PROVE  Sent(RequireRescan(s, open), s, t, open) /\ RequireRescan(s, open).rescan
<1>1. PICK r \in Service :
        /\ r.available /\ r.rescan /\ r.queue = <<>> /\ r.attempts = 0 /\ ~r.inFlight /\ ~r.retrying
        /\ RequireRescan(s, open) = SendRescan(r, open)
  BY RescanIs
<1>2. Resting(r, t) /\ r.attempts < MaxAttempts
  BY <1>1, Bounds DEF Resting, Budget
<1>3. Sent(SendRescan(r, open), r, t, open)
  BY <1>1, <1>2, SendRescanIs
<1> QED BY <1>1, <1>3 DEF Sent

LEMMA RetryIs ==
  ASSUME NEW s, NEW t, NEW open \in BOOLEAN, Resting(s, t)
  PROVE  Sent(Retry(s, open), s, t, open)
<1> USE DEF Service
<1>1. s \in Service /\ s.available /\ ~s.inFlight /\ ~s.retrying /\ s.attempts \in Nat /\ MaxAttempts \in Nat
      /\ t \in 0..(2 * MaxAttempts)
  BY Bounds DEF Resting
<1>2. CASE s.rescan
  BY <1>2, RetryRescanIs DEF Retry
<1>3. CASE ~s.rescan /\ s.attempts < MaxAttempts
  <2> DEFINE r == [s EXCEPT !.retrying = TRUE]
  <2>1. /\ r \in Service /\ r.available /\ ~r.rescan /\ r.queue = s.queue /\ r.attempts = s.attempts
        /\ ~r.inFlight /\ r.retrying
    BY <1>1, <1>3
  <2>2. Retry(s, open) = r
    BY <1>3 DEF Retry
  <2> HIDE DEF r
  <2>3. Sent(r, s, t, open)
    BY <1>1, <1>3, <2>1 DEF Resting, Sent, Steady, Spending, Budget
  <2> QED BY <2>2, <2>3
<1>4. CASE ~s.rescan /\ ~(s.attempts < MaxAttempts)
  <2>1. t <= MaxAttempts
    BY <1>1, <1>4 DEF Resting, Budget
  <2>2. Sent(RequireRescan(s, open), s, t, open)
    BY <1>1, <1>4, <2>1, RequireRescanIs
  <2> QED BY <1>4, <2>2 DEF Retry
<1> QED BY <1>2, <1>3, <1>4

LEMMA PumpIs ==
  ASSUME NEW s, NEW t, NEW open \in BOOLEAN, Resting(s, t), s.attempts < MaxAttempts
  PROVE  Sent(Pump(s, open), s, t, open)
<1>1. s.available /\ ~s.inFlight /\ ~s.retrying /\ (s.rescan \/ s.queue # <<>>)
  BY DEF Resting
<1>2. CASE s.rescan
  BY <1>1, <1>2, SendRescanIs DEF Pump
<1>3. CASE ~s.rescan
  <2>1. Resting(Attempted(s), t) /\ Sent(Waiting(Attempted(s)), s, t, TRUE)
    BY AttemptRests
  <2>2. Attempted(s).rescan = s.rescan /\ Attempted(s).queue = s.queue
    BY AttemptedIs DEF Resting
  <2>3. Pump(s, open) = SendObservation(s, open)
    BY <1>1, <1>3 DEF Pump
  <2>4. CASE open
    BY <2>1, <2>3, <2>4 DEF SendObservation, Sent
  <2>5. CASE ~open
    <3>1. Sent(Retry(Attempted(s), open), Attempted(s), t, open)
      BY <2>1, RetryIs
    <3> QED BY <2>2, <2>3, <2>5, <3>1 DEF SendObservation, Sent
  <2> QED BY <2>4, <2>5
<1> QED BY <1>2, <1>3

LEMMA PumpRests ==
  ASSUME NEW s, NEW open, ~s.available \/ s.inFlight \/ s.retrying \/ (~s.rescan /\ s.queue = <<>>)
  PROVE  Pump(s, open) = s
BY DEF Pump

-----------------------------------------------------------------------------
(* Messages, renames and what is known of them.                            *)

LEMMA ForgetIs ==
  ASSUME NEW S, NEW ms \in Seq(S), \A x \in S : [x EXCEPT !.current = FALSE] \in S
  PROVE  /\ Forget(ms) \in Seq(S) /\ Len(Forget(ms)) = Len(ms) /\ Len(ms) \in Nat
         /\ \A i \in 1..Len(ms) : ms[i] \in S /\ Forget(ms)[i] = [ms[i] EXCEPT !.current = FALSE]
<1>1. DOMAIN ms = 1..Len(ms) /\ Len(ms) \in Nat /\ \A i \in 1..Len(ms) : ms[i] \in S
  OBVIOUS
<1>2. Forget(ms) = [i \in 1..Len(ms) |-> [ms[i] EXCEPT !.current = FALSE]]
  BY <1>1 DEF Forget
<1> QED BY <1>1, <1>2

LEMMA ForgetUp ==
  ASSUME NEW ms \in Seq(Messages)
  PROVE  /\ Forget(ms) \in Seq(Messages) /\ Len(Forget(ms)) = Len(ms) /\ Len(ms) \in Nat
         /\ \A i \in 1..Len(ms) : ~Forget(ms)[i].current /\ Forget(ms)[i].item = ms[i].item
<1>1. \A x \in Messages : [x EXCEPT !.current = FALSE] \in Messages
  BY DEF Messages
<1>2. /\ Forget(ms) \in Seq(Messages) /\ Len(Forget(ms)) = Len(ms) /\ Len(ms) \in Nat
      /\ \A i \in 1..Len(ms) : ms[i] \in Messages /\ Forget(ms)[i] = [ms[i] EXCEPT !.current = FALSE]
  BY <1>1, ForgetIs
<1>3. \A x \in Messages : ~[x EXCEPT !.current = FALSE].current /\ [x EXCEPT !.current = FALSE].item = x.item
  BY DEF Messages
<1> QED BY <1>2, <1>3

LEMMA ForgetDown ==
  ASSUME NEW ms \in Seq(Answers)
  PROVE  /\ Forget(ms) \in Seq(Answers) /\ Len(Forget(ms)) = Len(ms) /\ Len(ms) \in Nat
         /\ \A i \in 1..Len(ms) : ~Forget(ms)[i].current
<1>1. \A x \in Answers : [x EXCEPT !.current = FALSE] \in Answers
  BY DEF Answers
<1>2. /\ Forget(ms) \in Seq(Answers) /\ Len(Forget(ms)) = Len(ms) /\ Len(ms) \in Nat
      /\ \A i \in 1..Len(ms) : ms[i] \in Answers /\ Forget(ms)[i] = [ms[i] EXCEPT !.current = FALSE]
  BY <1>1, ForgetIs
<1>3. \A x \in Answers : ~[x EXCEPT !.current = FALSE].current
  BY DEF Answers
<1> QED BY <1>2, <1>3

LEMMA TailIs ==
  ASSUME NEW S, NEW s \in Seq(S), s # <<>>
  PROVE  /\ Tail(s) \in Seq(S) /\ Len(s) \in Nat /\ Len(s) > 0 /\ Len(Tail(s)) = Len(s) - 1
         /\ Head(s) = s[1] /\ Head(s) \in S
         /\ \A i \in 1..Len(Tail(s)) : Tail(s)[i] = s[i + 1] /\ i + 1 \in 1..Len(s)
OBVIOUS

LEMMA AppendIs ==
  ASSUME NEW S, NEW s \in Seq(S), NEW m \in S
  PROVE  /\ Append(s, m) \in Seq(S) /\ Len(s) \in Nat /\ Len(Append(s, m)) = Len(s) + 1
         /\ Append(s, m)[Len(s) + 1] = m
         /\ \A i \in 1..Len(s) : Append(s, m)[i] = s[i]
OBVIOUS

(* The queue of the latest renames: its head is the first that is not      *)
(* known, and it stays one at both ends.                                   *)
LEMMA LinedIs ==
  ASSUME NEW S, NEW q \in Seq(S), NEW n \in Nat
  PROVE  Lined(q, n) <=> Len(q) <= n /\ \A i \in 1..Len(q) : q[i] = n - Len(q) + i
<1> DEFINE f == [i \in 1..Len(q) |-> n - Len(q) + i]
<1>1. q = [i \in 1..Len(q) |-> q[i]]
  OBVIOUS
<1>2. (q = f) <=> \A i \in 1..Len(q) : q[i] = f[i]
  <2>1. ASSUME q = f PROVE \A i \in 1..Len(q) : q[i] = f[i]
    BY <2>1
  <2>2. ASSUME \A i \in 1..Len(q) : q[i] = f[i] PROVE q = f
    <3>1. DOMAIN q = 1..Len(q) /\ DOMAIN f = 1..Len(q)
      BY <1>1
    <3>2. f = [i \in 1..Len(q) |-> f[i]]
      OBVIOUS
    <3> HIDE DEF f
    <3> QED BY <1>1, <2>2, <3>2
  <2> QED BY <2>1, <2>2
<1> QED BY <1>2 DEF Lined

LEMMA LinedHead ==
  ASSUME NEW n \in 0..MaxRenames, NEW q \in Seq(1..MaxRenames), Lined(q, n), q # <<>>
  PROVE  /\ Head(q) \in 1..n /\ Head(q) = n - Len(q) + 1
         /\ Tail(q) \in Seq(1..MaxRenames) /\ Lined(Tail(q), n) /\ Len(Tail(q)) = Len(q) - 1
<1> USE Bounds
<1>0. n \in Nat
  OBVIOUS
<1>1. /\ Tail(q) \in Seq(1..MaxRenames) /\ Len(q) \in Nat /\ Len(q) > 0 /\ Len(Tail(q)) = Len(q) - 1
      /\ Head(q) = q[1]
      /\ \A i \in 1..Len(Tail(q)) : Tail(q)[i] = q[i + 1] /\ i + 1 \in 1..Len(q)
  BY TailIs
<1>2. Len(q) <= n /\ \A i \in 1..Len(q) : q[i] = n - Len(q) + i
  BY LinedIs
<1>3. 1 \in 1..Len(q)
  BY <1>1
<1>4. Head(q) = n - Len(q) + 1 /\ Head(q) \in 1..n
  BY <1>1, <1>2, <1>3
<1>5. \A i \in 1..Len(Tail(q)) : Tail(q)[i] = n - Len(Tail(q)) + i
  BY <1>1, <1>2
<1>6. Lined(Tail(q), n)
  <2>1. Lined(Tail(q), n) <=> Len(Tail(q)) <= n /\ \A i \in 1..Len(Tail(q)) : Tail(q)[i] = n - Len(Tail(q)) + i
    BY <1>0, <1>1, LinedIs
  <2>2. Len(Tail(q)) <= n
    BY <1>1, <1>2
  <2> QED BY <1>5, <2>1, <2>2
<1> QED BY <1>1, <1>4, <1>6

LEMMA LinedAppend ==
  ASSUME NEW n \in 0..MaxRenames, n < MaxRenames, NEW q \in Seq(1..MaxRenames), Lined(q, n)
  PROVE  /\ Append(q, n + 1) \in Seq(1..MaxRenames) /\ Lined(Append(q, n + 1), n + 1)
         /\ Len(Append(q, n + 1)) = Len(q) + 1 /\ Len(q) \in Nat /\ Append(q, n + 1) # <<>>
         /\ q # <<>> => Head(Append(q, n + 1)) = Head(q)
<1> USE Bounds
<1> DEFINE a == Append(q, n + 1)
<1>0. n \in Nat /\ n + 1 \in Nat
  OBVIOUS
<1>1. n + 1 \in 1..MaxRenames
  OBVIOUS
<1>2. /\ a \in Seq(1..MaxRenames) /\ Len(q) \in Nat /\ Len(a) = Len(q) + 1
      /\ a[Len(q) + 1] = n + 1
      /\ \A i \in 1..Len(q) : a[i] = q[i]
  BY <1>1, AppendIs
<1>3. Len(q) <= n /\ \A i \in 1..Len(q) : q[i] = n - Len(q) + i
  BY LinedIs
<1>4. a # <<>> /\ (q # <<>> => Head(a) = Head(q))
  <2>1. Head(a) = a[1]
    BY <1>2
  <2>2. q # <<>> => Head(q) = q[1] /\ 1 \in 1..Len(q)
    BY <1>2
  <2> QED BY <1>2, <2>1, <2>2, SMTT(30)
<1> HIDE DEF a
<1>5. \A i \in 1..Len(a) : a[i] = (n + 1) - Len(a) + i
  <2> TAKE i \in 1..Len(a)
  <2>1. CASE i = Len(q) + 1
    BY <1>2, <2>1
  <2>2. CASE i \in 1..Len(q)
    BY <1>2, <1>3, <2>2
  <2> QED BY <1>2, <2>1, <2>2
<1>6. Lined(a, n + 1)
  <2>1. Lined(a, n + 1) <=> Len(a) <= n + 1 /\ \A i \in 1..Len(a) : a[i] = (n + 1) - Len(a) + i
    BY <1>0, <1>2, LinedIs
  <2>2. Len(a) <= n + 1
    BY <1>2, <1>3
  <2> QED BY <1>5, <2>1, <2>2
<1> QED BY <1>2, <1>4, <1>6 DEF a

(* What s sends comes after what is known.                                 *)
LEMMA RequestIs ==
  ASSUME NEW n \in 0..MaxRenames, NEW s \in Service, Lined(s.queue, n), s.rescan \/ s.queue # <<>>
  PROVE  /\ Request(s) \in Messages /\ Request(s).current
         /\ Request(s).item = (IF s.rescan THEN Rescan ELSE Head(s.queue))
         /\ Request(s).item # Rescan => ~s.rescan /\ Request(s).item \in 1..n
                                        /\ Request(s).item - 1 = n - Len(s.queue)
<1> USE Bounds
<1>1. s.queue \in Seq(1..MaxRenames) /\ Len(s.queue) \in Nat
  BY DEF Service
<1>2. CASE s.rescan
  BY <1>2 DEF Request, Messages, Rescan
<1>3. CASE ~s.rescan
  <2>1. PICK h \in 1..n : h = Head(s.queue) /\ h = n - Len(s.queue) + 1
    BY <1>1, <1>3, LinedHead
  <2>2. Request(s) = [item |-> h, current |-> TRUE]
    BY <1>3, <2>1 DEF Request
  <2>3. h \in 0..MaxRenames
    BY <2>1
  <2>4. Request(s) \in Messages /\ Request(s).current /\ Request(s).item = h
    BY <2>2, <2>3 DEF Messages
  <2>5. h - 1 = n - Len(s.queue)
    BY <1>1, <2>1
  <2> QED BY <1>3, <2>1, <2>4, <2>5
<1> QED BY <1>2, <1>3

-----------------------------------------------------------------------------
(* The steps.                                                              *)

Spents == [drops : 0..MaxDrops, faults : 0..MaxFaults]

LEMMA Typed ==
  ASSUME TypeOK
  PROVE  /\ svc \in Service /\ svc.queue \in Seq(1..MaxRenames) /\ svc.attempts \in Nat
         /\ svc.available \in BOOLEAN /\ svc.rescan \in BOOLEAN /\ svc.inFlight \in BOOLEAN /\ svc.retrying \in BOOLEAN
         /\ up \in Seq(Messages) /\ down \in Seq(Answers) /\ renames \in 0..MaxRenames
         /\ spent \in Spents /\ spent.drops \in 0..MaxDrops
BY Bounds DEF TypeOK, Service, Spents

LEMMA IdleIs ==
  ASSUME NEW b \in BOOLEAN
  PROVE  LET s == [Idle EXCEPT !.available = b] IN
         /\ s \in Service /\ s.available = b /\ ~s.rescan /\ s.queue = <<>> /\ s.attempts = 0
         /\ ~s.inFlight /\ ~s.retrying
<1> <<>> \in Seq(1..MaxRenames)
  OBVIOUS
<1>1. /\ Idle \in Service /\ ~Idle.rescan /\ Idle.queue = <<>> /\ Idle.attempts = 0
      /\ ~Idle.inFlight /\ ~Idle.retrying
  BY DEF Idle, Service
<1> QED BY <1>1 DEF Service

LEMMA EmptyLined == ASSUME NEW n \in Nat PROVE Lined(<<>>, n)
<1>1. <<>> \in Seq(Nat) /\ Len(<<>>) = 0
  OBVIOUS
<1>2. Lined(<<>>, n) <=> Len(<<>>) <= n /\ \A i \in 1..Len(<<>>) : <<>>[i] = n - Len(<<>>) + i
  BY <1>1, LinedIs
<1> QED BY <1>1, <1>2

LEMMA KeptLined ==
  ASSUME InOrder, Started, renames \in Nat, NEW r,
         r.rescan => r.queue = <<>>, ~r.rescan => r.queue = svc.queue /\ ~svc.rescan
  PROVE  Lined(r.queue, renames) /\ (~r.rescan => 1..(renames - Len(r.queue)) \subseteq Dealt)
BY EmptyLined DEF InOrder, Dealt

LEMMA SpendIs ==
  ASSUME spent \in Spents, NEW what \in {"drops", "faults"}, NEW limit,
         limit = (IF what = "drops" THEN MaxDrops ELSE MaxFaults), Spend(what, limit)
  PROVE  /\ spent' \in Spents /\ spent.drops \in Nat
         /\ spent'.drops = (IF what = "drops" THEN spent.drops + 1 ELSE spent.drops)
<1> USE Bounds DEF Spents, Spend
<1>1. CASE what = "drops"
  BY <1>1
<1>2. CASE what = "faults"
  BY <1>2
<1> QED BY <1>1, <1>2

(* The service becomes r and sends what it then waits for; no answer that  *)
(* was under way is waited for any more.                                   *)
LEMMA GivenKeeps ==
  ASSUME Inv, NEW r \in Service, Steady(r),
         r.attempts <= MaxAttempts \/ (bridge' = "ready" /\ r.attempts <= MaxAttempts + spent.drops),
         r.inFlight => bridge' = "ready",
         bridge' = "down" => ~r.available /\ r.attempts = 0 /\ down' = <<>>,
         phase' = "started", svc' = r, bridge' = bridge \/ bridge' = "ready",
         up' = IF r.inFlight THEN Append(Forget(up), Request(r)) ELSE Forget(up),
         down' \in Seq(Answers), \A i \in 1..Len(down') : ~down'[i].current,
         tries' \in 0..(2 * MaxAttempts), r.available => tries' <= Budget(r),
         renames' \in 0..MaxRenames, renames <= renames', Lined(r.queue, renames'),
         UNCHANGED <<known, missed>>, ~r.rescan => 1..(renames' - Len(r.queue)) \subseteq Dealt,
         spent' \in Spents, spent'.drops = spent.drops
  PROVE  Inv'
<1> USE Bounds
<1>1. /\ TypeOK /\ Connected /\ Bounded /\ Attended /\ InOrder /\ up \in Seq(Messages)
      /\ renames \in 0..MaxRenames /\ spent \in Spents /\ spent.drops \in 0..MaxDrops
      /\ bridge \in {"down", "ready", "closing"} /\ known \subseteq 1..MaxRenames /\ missed \subseteq 1..MaxRenames
      /\ r.attempts \in Nat /\ r.inFlight \in BOOLEAN /\ r.queue \in Seq(1..MaxRenames) /\ Len(r.queue) \in Nat
      /\ r.available \in BOOLEAN /\ r.rescan \in BOOLEAN
  <2>1. /\ TypeOK /\ Connected /\ Bounded /\ Attended /\ InOrder /\ up \in Seq(Messages)
        /\ renames \in 0..MaxRenames /\ spent \in Spents /\ spent.drops \in 0..MaxDrops
    BY Typed DEF Inv
  <2>2. bridge \in {"down", "ready", "closing"} /\ known \subseteq 1..MaxRenames /\ missed \subseteq 1..MaxRenames
    BY <2>1 DEF TypeOK
  <2>3. /\ r.attempts \in Nat /\ r.inFlight \in BOOLEAN /\ r.queue \in Seq(1..MaxRenames) /\ Len(r.queue) \in Nat
        /\ r.available \in BOOLEAN /\ r.rescan \in BOOLEAN
    BY DEF Service
  <2> QED BY <2>1, <2>2, <2>3
<1>2. /\ Forget(up) \in Seq(Messages) /\ Len(Forget(up)) = Len(up) /\ Len(up) \in Nat
      /\ \A i \in 1..Len(up) : ~Forget(up)[i].current /\ Forget(up)[i].item = up[i].item
  BY <1>1, ForgetUp
<1>3. r.inFlight =>
        /\ Request(r) \in Messages /\ Request(r).current
        /\ Request(r).item = (IF r.rescan THEN Rescan ELSE Head(r.queue))
        /\ Request(r).item # Rescan => ~r.rescan /\ Request(r).item \in 1..renames'
                                       /\ Request(r).item - 1 = renames' - Len(r.queue)
  BY <1>1, RequestIs DEF Steady
<1>4. /\ up' \in Seq(Messages)
      /\ \A i \in 1..Len(up') :
           \/ i \in 1..Len(up) /\ ~up'[i].current /\ up'[i].item = up[i].item
           \/ r.inFlight /\ up'[i] = Request(r)
  <2>1. CASE ~r.inFlight
    BY <1>2, <2>1
  <2>2. CASE r.inFlight
    <3>1. /\ Append(Forget(up), Request(r)) \in Seq(Messages)
          /\ Len(Append(Forget(up), Request(r))) = Len(Forget(up)) + 1
          /\ Append(Forget(up), Request(r))[Len(Forget(up)) + 1] = Request(r)
          /\ \A i \in 1..Len(Forget(up)) : Append(Forget(up), Request(r))[i] = Forget(up)[i]
      BY <1>2, <1>3, <2>2, AppendIs
    <3> DEFINE a == Append(Forget(up), Request(r))
               f == Forget(up)
    <3>2. up' = a
      BY <2>2
    <3> HIDE DEF a
    <3>3. \A i \in 1..Len(a) : i \in 1..Len(up) \/ i = Len(up) + 1
      BY <1>2, <3>1 DEF a
    <3> QED BY <1>2, <2>2, <3>1, <3>2, <3>3 DEF a
  <2> QED BY <1>1, <2>1, <2>2
<1>5. TypeOK'
  <2>1. r \in [available : BOOLEAN, rescan : BOOLEAN, queue : Seq(1..MaxRenames),
               attempts : 0..(MaxAttempts + MaxDrops), inFlight : BOOLEAN, retrying : BOOLEAN]
    <3>1. r.attempts \in 0..(MaxAttempts + MaxDrops)
      BY <1>1, SMTT(30)
    <3> QED BY <1>1, <3>1 DEF Service
  <2>2. spent' \in [drops : 0..MaxDrops, faults : 0..MaxFaults]
    BY DEF Spents
  <2> QED BY <1>1, <1>4, <2>1, <2>2 DEF TypeOK
<1>6. Connected'
  <2>1. bridge' = "down" => up' = <<>>
    BY <1>1, <1>2 DEF Connected
  <2> QED BY <1>1, <2>1 DEF Connected, Started
<1>7. Bounded'
  <2>1. bridge = "closing" => spent.drops > 0
    BY <1>1 DEF Connected
  <2> QED BY <1>1, <2>1, SMTT(30) DEF Bounded, Started
<1>8. Attended'
  BY <1>3, <1>4 DEF Attended, Dealt
<1>9. InOrder'
  <2>1. \A i \in 1..Len(up') : up'[i].item # Rescan =>
          up'[i].item \in 1..renames' /\ 1..(up'[i].item - 1) \subseteq Dealt
    <3> SUFFICES ASSUME NEW i \in 1..Len(up'), up'[i].item # Rescan
                 PROVE  up'[i].item \in 1..renames' /\ 1..(up'[i].item - 1) \subseteq Dealt
      OBVIOUS
    <3>1. CASE i \in 1..Len(up) /\ up'[i].item = up[i].item
      <4>1. up[i].item \in 1..renames /\ 1..(up[i].item - 1) \subseteq Dealt
        BY <1>1, <3>1 DEF InOrder, Dealt
      <4>2. 1..renames \subseteq 1..renames'
        BY <1>1
      <4> QED BY <3>1, <4>1, <4>2
    <3>2. CASE r.inFlight /\ up'[i] = Request(r)
      BY <1>1, <1>3, <3>2
    <3> QED BY <1>4, <3>1, <3>2
  <2>2. Dealt' \subseteq 1..renames' /\ Dealt' = Dealt
    BY <1>1 DEF InOrder, Dealt
  <2> QED BY <2>1, <2>2 DEF InOrder, Dealt, Started
<1> QED BY <1>5, <1>6, <1>7, <1>8, <1>9 DEF Inv

(* What is delivered of a service that rested is given.                    *)
LEMMA DeliverIs ==
  ASSUME NEW r, NEW s, NEW open, Deliver(r), Sent(r, s, tries, open)
  PROVE  /\ r \in Service /\ Steady(r) /\ r.attempts <= MaxAttempts /\ (r.inFlight => open)
         /\ svc' = r /\ up' = (IF r.inFlight THEN Append(Forget(up), Request(r)) ELSE Forget(up))
         /\ tries' \in 0..(2 * MaxAttempts) /\ (r.available => tries' <= Budget(r))
         /\ (s.rescan => r.rescan) /\ (~r.rescan => r.queue = s.queue)
BY DEF Deliver, Sent, Spending

LEMMA HandleTimeoutKeeps == ASSUME Inv, HandleTimeout PROVE Inv'
<1> USE Bounds
<1> DEFINE s == [svc EXCEPT !.inFlight = FALSE]
           r == Retry(s, Open)
<1>1. /\ TypeOK /\ Connected /\ Bounded /\ InOrder /\ svc \in Service /\ svc.inFlight /\ Deliver(r)
      /\ spent \in Spents /\ renames \in Nat /\ renames \in 0..MaxRenames
      /\ down \in Seq(Answers) /\ down' = Forget(down) /\ Open \in BOOLEAN
      /\ UNCHANGED <<phase, bridge, renames, known, missed>>
  BY Typed DEF Inv, HandleTimeout, Open
<1>2. Started /\ Steady(svc) /\ bridge # "down"
  <2>1. svc.inFlight => svc # [Idle EXCEPT !.available = svc.available]
    BY DEF Idle
  <2> QED BY <1>1, <2>1 DEF Connected
<1>3. /\ s \in Service /\ ~s.inFlight /\ s.available = svc.available /\ s.rescan = svc.rescan
      /\ s.queue = svc.queue /\ s.attempts = svc.attempts /\ s.retrying = svc.retrying
  BY <1>1 DEF Service
<1> HIDE DEF s
<1>4. Resting(s, tries)
  BY <1>1, <1>2, <1>3 DEF Resting, Steady, Bounded, Budget
<1>5. Sent(r, s, tries, Open)
  BY <1>1, <1>4, RetryIs
<1> HIDE DEF r
<1>6. /\ r \in Service /\ Steady(r) /\ r.attempts <= MaxAttempts /\ (r.inFlight => Open)
      /\ svc' = r /\ up' = (IF r.inFlight THEN Append(Forget(up), Request(r)) ELSE Forget(up))
      /\ tries' \in 0..(2 * MaxAttempts) /\ (r.available => tries' <= Budget(r))
      /\ (s.rescan => r.rescan) /\ (~r.rescan => r.queue = s.queue)
  BY <1>1, <1>5, DeliverIs
<1>7. down' \in Seq(Answers) /\ \A i \in 1..Len(down') : ~down'[i].current
  BY <1>1, ForgetDown
<1>8. spent' \in Spents /\ spent'.drops = spent.drops
  BY <1>1, SpendIs DEF HandleTimeout
<1>9. Lined(r.queue, renames) /\ (~r.rescan => 1..(renames - Len(r.queue)) \subseteq Dealt)
  BY <1>1, <1>2, <1>3, <1>6, KeptLined DEF Steady
<1> QED BY <1>1, <1>2, <1>6, <1>7, <1>8, <1>9, GivenKeeps DEF Open, Started

LEMMA RetryTimerKeeps == ASSUME Inv, RetryTimer PROVE Inv'
<1> USE Bounds
<1> DEFINE s == [svc EXCEPT !.retrying = FALSE]
           r == Pump(s, Open)
<1>1. /\ TypeOK /\ Connected /\ Bounded /\ Attended /\ InOrder /\ svc \in Service /\ svc.retrying /\ Deliver(r)
      /\ spent \in Spents /\ renames \in Nat /\ renames \in 0..MaxRenames
      /\ down \in Seq(Answers) /\ Open \in BOOLEAN
      /\ UNCHANGED <<phase, bridge, down, renames, known, missed, spent>>
  BY Typed DEF Inv, RetryTimer, Open
<1>2. Started /\ Steady(svc) /\ bridge # "down" /\ ~svc.inFlight
  <2>1. svc.retrying => svc # [Idle EXCEPT !.available = svc.available]
    BY DEF Idle
  <2> QED BY <1>1, <2>1 DEF Connected, Steady
<1>3. /\ s \in Service /\ ~s.inFlight /\ s.available = svc.available /\ s.rescan = svc.rescan
      /\ s.queue = svc.queue /\ s.attempts = svc.attempts /\ ~s.retrying
  BY <1>1, <1>2 DEF Service
<1> HIDE DEF s
<1>4. Resting(s, tries) /\ s.attempts < MaxAttempts
  <2>1. s.rescan \/ s.queue # <<>>
    BY <1>1, <1>2, <1>3 DEF Steady
  <2> QED BY <1>1, <1>2, <1>3, <2>1 DEF Resting, Steady, Bounded, Budget
<1>5. Sent(r, s, tries, Open)
  BY <1>1, <1>4, PumpIs
<1> HIDE DEF r
<1>6. /\ r \in Service /\ Steady(r) /\ r.attempts <= MaxAttempts /\ (r.inFlight => Open)
      /\ svc' = r /\ up' = (IF r.inFlight THEN Append(Forget(up), Request(r)) ELSE Forget(up))
      /\ tries' \in 0..(2 * MaxAttempts) /\ (r.available => tries' <= Budget(r))
      /\ (s.rescan => r.rescan) /\ (~r.rescan => r.queue = s.queue)
  BY <1>1, <1>5, DeliverIs
<1>7. down' \in Seq(Answers) /\ \A i \in 1..Len(down') : ~down'[i].current
  BY <1>1, <1>2 DEF Attended, Dealt
<1>9. Lined(r.queue, renames) /\ (~r.rescan => 1..(renames - Len(r.queue)) \subseteq Dealt)
  BY <1>1, <1>2, <1>3, <1>6, KeptLined DEF Steady
<1> QED BY <1>1, <1>2, <1>6, <1>7, <1>9, GivenKeeps DEF Open, Started

(* A service that does not wait is given what is there, and no more than a *)
(* pump has to send.                                                       *)
LEMMA RescanType ==
  ASSUME NEW b \in BOOLEAN, NEW open \in BOOLEAN, svc \in Service, ~svc.available, ~svc.rescan
  PROVE  LET s == [RequireRescan(svc, open) EXCEPT !.available = b] IN
         /\ s \in Service /\ s.available = b /\ s.rescan /\ s.queue = <<>> /\ s.attempts = 0
         /\ ~s.inFlight /\ ~s.retrying
<1>2. PICK r \in Service :
        /\ r.rescan /\ r.queue = <<>> /\ r.attempts = 0 /\ ~r.inFlight /\ ~r.retrying
        /\ RequireRescan(svc, open) = r
  BY RescanIs
<1> QED BY <1>2 DEF Service

LEMMA StartKeeps == ASSUME Inv, Start PROVE Inv'
<1> USE Bounds
<1> DEFINE b == (bridge # "down")
           s == [RequireRescan(svc, Open) EXCEPT !.available = b]
           r == Pump(s, Open)
<1>1. /\ TypeOK /\ Connected /\ Bounded /\ Attended /\ InOrder /\ svc \in Service /\ phase = "new" /\ phase' = "started"
      /\ Deliver(r) /\ spent \in Spents /\ renames \in Nat /\ renames \in 0..MaxRenames
      /\ down \in Seq(Answers) /\ Open \in BOOLEAN
      /\ UNCHANGED <<bridge, down, renames, known, missed, spent>>
  BY Typed DEF Inv, Start, Open
<1>2. ~svc.available /\ ~svc.rescan /\ ~svc.inFlight /\ tries = 0
  <2>1. svc = [Idle EXCEPT !.available = svc.available] /\ ~svc.available /\ tries = 0 /\ svc.available \in BOOLEAN
    BY <1>1 DEF Connected, Started, Service
  <2> QED BY <2>1, IdleIs
<1>3. /\ s \in Service /\ s.available = b /\ s.rescan /\ s.queue = <<>> /\ s.attempts = 0
      /\ ~s.inFlight /\ ~s.retrying
  BY <1>1, <1>2, RescanType
<1> HIDE DEF s
<1>4. /\ r \in Service /\ Steady(r) /\ r.attempts <= MaxAttempts /\ (r.inFlight => Open)
      /\ svc' = r /\ up' = (IF r.inFlight THEN Append(Forget(up), Request(r)) ELSE Forget(up))
      /\ tries' \in 0..(2 * MaxAttempts) /\ (r.available => tries' <= Budget(r))
      /\ r.rescan /\ (~b => ~r.available /\ r.attempts = 0)
  <2>1. CASE b
    <3>0. s.available
      BY <1>3, <2>1, Zenon
    <3>1. Resting(s, tries) /\ s.attempts < MaxAttempts
      BY <1>2, <1>3, <3>0 DEF Resting, Budget
    <3>2. Sent(r, s, tries, Open)
      BY <1>1, <3>1, PumpIs
    <3> HIDE DEF r
    <3> QED BY <1>1, <1>3, <2>1, <3>2, DeliverIs
  <2>2. CASE ~b
    <3>0. ~s.available
      BY <1>3, <2>2, Zenon
    <3>1. r = s
      BY <3>0, PumpRests
    <3> QED BY <1>1, <1>2, <1>3, <3>0, <3>1 DEF Steady, Deliver
  <2> QED BY <2>1, <2>2
<1> HIDE DEF r
<1>5. down' \in Seq(Answers) /\ \A i \in 1..Len(down') : ~down'[i].current
  BY <1>1, <1>2 DEF Attended, Dealt
<1>6. Lined(r.queue, renames)
  BY <1>1, <1>4, EmptyLined DEF Steady
<1>7. bridge = "down" => down' = <<>>
  BY <1>1 DEF Connected
<1> QED BY <1>1, <1>4, <1>5, <1>6, <1>7, GivenKeeps DEF Open

LEMMA DoneIs ==
  ASSUME svc \in Service, Steady(svc), svc.inFlight, Attended, InOrder, renames \in 0..MaxRenames, Started,
         down # <<>>, Head(down).current, ~Head(down).retryable, down \in Seq(Answers)
  PROVE  LET s == [svc EXCEPT !.inFlight = FALSE]
             d == IF s.rescan THEN [s EXCEPT !.rescan = FALSE, !.attempts = 0]
                  ELSE [s EXCEPT !.queue = Tail(@), !.attempts = 0]
         IN /\ d \in Service /\ d.available /\ ~d.rescan /\ d.attempts = 0 /\ ~d.inFlight /\ ~d.retrying
            /\ Lined(d.queue, renames) /\ 1..(renames - Len(d.queue)) \subseteq Dealt
<1> USE Bounds
<1> DEFINE s == [svc EXCEPT !.inFlight = FALSE]
           d == IF s.rescan THEN [s EXCEPT !.rescan = FALSE, !.attempts = 0]
                ELSE [s EXCEPT !.queue = Tail(@), !.attempts = 0]
<1>1. /\ s \in Service /\ ~s.inFlight /\ s.available /\ s.rescan = svc.rescan
      /\ s.queue = svc.queue /\ s.attempts = svc.attempts /\ ~s.retrying
      /\ s.queue \in Seq(1..MaxRenames) /\ s.rescan \in BOOLEAN
  BY DEF Service, Steady
<1> HIDE DEF s
<1>2. Head(down) = down[1] /\ 1 \in 1..Len(down)
  BY TailIs
<1>3. IF svc.rescan THEN 1..renames \subseteq Dealt ELSE Head(svc.queue) \in Dealt
  BY <1>2 DEF Attended, Dealt
<1>4. CASE s.rescan
  <2>1. /\ d \in Service /\ d.available /\ ~d.rescan /\ d.attempts = 0 /\ ~d.inFlight /\ ~d.retrying
        /\ d.queue = <<>>
    BY <1>1, <1>4 DEF Service, Steady
  <2> HIDE DEF d
  <2>2. Lined(d.queue, renames) /\ 1..(renames - Len(d.queue)) \subseteq Dealt
    BY <1>1, <1>3, <1>4, <2>1, EmptyLined
  <2> QED BY <2>1, <2>2 DEF d, s
<1>5. CASE ~s.rescan
  <2>0. s.queue # <<>> /\ Lined(s.queue, renames)
    BY <1>1, <1>5 DEF Steady, InOrder, Dealt
  <2>1. /\ Head(s.queue) \in 1..renames /\ Head(s.queue) = renames - Len(s.queue) + 1
        /\ Tail(s.queue) \in Seq(1..MaxRenames) /\ Lined(Tail(s.queue), renames)
        /\ Len(Tail(s.queue)) = Len(s.queue) - 1 /\ Len(s.queue) \in Nat
    BY <1>1, <2>0, LinedHead, TailIs
  <2>2. /\ d \in Service /\ d.available /\ ~d.rescan /\ d.attempts = 0 /\ ~d.inFlight /\ ~d.retrying
        /\ d.queue = Tail(s.queue)
    BY <1>1, <1>5, <2>1 DEF Service
  <2> HIDE DEF d
  <2>3. 1..(renames - Len(s.queue)) \subseteq Dealt /\ Head(s.queue) \in Dealt
    BY <1>1, <1>3, <1>5 DEF InOrder, Dealt
  <2>4. \A k \in 1..(renames - Len(d.queue)) : k \in 1..(renames - Len(s.queue)) \/ k = Head(s.queue)
    <3>1. \A l \in Nat : \A k \in 1..(renames - (l - 1)) : k \in 1..(renames - l) \/ k = renames - l + 1
      OBVIOUS
    <3>2. Len(d.queue) = Len(s.queue) - 1
      BY <2>1, <2>2
    <3> QED BY <2>1, <3>1, <3>2
  <2> QED BY <2>1, <2>2, <2>3, <2>4 DEF d, s
<1> QED BY <1>1, <1>4, <1>5

(* Messages move between the service and the runtime.                      *)
LEMMA PassedKeeps ==
  ASSUME Inv, UNCHANGED <<phase, svc, renames, tries>>, bridge # "down",
         bridge' = bridge \/ bridge' = "closing", bridge' = "closing" => bridge = "closing" \/ spent'.drops > spent.drops,
         spent' \in Spents, spent'.drops >= spent.drops,
         up' \in Seq(Messages), \A i \in 1..Len(up') : \E j \in 1..Len(up) : up'[i] = up[j],
         down' \in Seq(Answers),
         \A i \in 1..Len(down') : down'[i].current =>
           \/ \E j \in 1..Len(down) : down'[i] = down[j]
           \/ /\ svc.inFlight
              /\ ~down'[i].retryable => IF svc.rescan THEN 1..renames \subseteq Dealt' ELSE Head(svc.queue) \in Dealt',
         Dealt \subseteq Dealt', Dealt' \subseteq 1..renames
  PROVE  Inv'
<1> USE Bounds
<1>1. /\ TypeOK /\ Connected /\ Bounded /\ Attended /\ InOrder /\ svc.attempts \in Nat
      /\ renames \in 0..MaxRenames /\ spent.drops \in Nat /\ spent'.drops \in Nat
  BY Typed DEF Inv, Spents
<1>2. TypeOK'
  <2>1. 1..renames \subseteq 1..MaxRenames
    BY <1>1
  <2>2. known' \subseteq 1..MaxRenames /\ missed' \subseteq 1..MaxRenames
    BY <2>1 DEF Dealt
  <2> QED BY <1>1, <2>2 DEF TypeOK, Spents
<1>3. Connected'
  BY <1>1 DEF Connected, Started
<1>4. Bounded'
  <2>1. svc.attempts <= MaxAttempts + spent'.drops
    BY <1>1 DEF Bounded
  <2>2. bridge' # "ready" => svc.attempts < MaxAttempts + spent'.drops
    <3>1. CASE bridge = "closing"
      <4>1. svc.attempts < MaxAttempts + spent.drops
        BY <1>1, <3>1 DEF Bounded
      <4> QED BY <1>1, <4>1
    <3>2. CASE bridge # "closing" /\ bridge' = "closing"
      BY <1>1, <3>2 DEF Bounded
    <3>3. CASE bridge # "closing" /\ bridge' # "closing"
      BY <1>1, <3>3 DEF TypeOK
    <3> QED BY <3>1, <3>2, <3>3
  <2> QED BY <1>1, <2>1, <2>2 DEF Bounded, Started
<1>5. Attended'
  <2>1. \A i \in 1..Len(up') : up'[i].current => svc.inFlight /\ up'[i].item = Request(svc).item
    BY <1>1 DEF Attended, Dealt
  <2>2. ASSUME NEW i \in 1..Len(down'), down'[i].current
        PROVE  /\ svc.inFlight
               /\ ~down'[i].retryable => IF svc.rescan THEN 1..renames \subseteq Dealt' ELSE Head(svc.queue) \in Dealt'
    BY <1>1, <2>2 DEF Attended, Dealt
  <2> QED BY <2>1, <2>2 DEF Attended, Dealt
<1>6. InOrder'
  <2>1. ASSUME NEW i \in 1..Len(up'), up'[i].item # Rescan
        PROVE  up'[i].item \in 1..renames /\ 1..(up'[i].item - 1) \subseteq Dealt'
    BY <1>1, <2>1 DEF InOrder, Dealt
  <2> QED BY <1>1, <2>1 DEF InOrder, Dealt, Started
<1> QED BY <1>2, <1>3, <1>4, <1>5, <1>6 DEF Inv

LEMMA BridgeClosingKeeps == ASSUME Inv, BridgeClosing PROVE Inv'
<1>1. /\ TypeOK /\ InOrder /\ bridge = "ready" /\ bridge' = "closing"
      /\ UNCHANGED <<phase, svc, up, down, renames, known, missed, tries>> /\ Spend("drops", MaxDrops)
      /\ up \in Seq(Messages) /\ down \in Seq(Answers) /\ spent \in Spents
  BY Typed DEF Inv, BridgeClosing, network
<1>2. spent' \in Spents /\ spent.drops \in Nat /\ spent'.drops = spent.drops + 1
  BY <1>1, SpendIs
<1> QED BY <1>1, <1>2, PassedKeeps DEF InOrder, Dealt

(* What becomes of a request that the runtime takes, with the answer it    *)
(* gets.                                                                   *)
LEMMA TakenKeeps ==
  ASSUME Inv, Take, NEW retryable \in BOOLEAN, UNCHANGED <<phase, svc, bridge, renames, tries>>,
         down' = Append(down, Answer(Head(up), retryable)),
         spent' \in Spents, spent'.drops >= spent.drops,
         Dealt \subseteq Dealt', Dealt' \subseteq 1..renames,
         ~retryable => IF Head(up).item = Rescan THEN 1..renames \subseteq Dealt' ELSE Head(up).item \in Dealt'
  PROVE  Inv'
<1> USE Bounds
<1>1. /\ TypeOK /\ Attended /\ InOrder /\ Connected /\ up \in Seq(Messages) /\ down \in Seq(Answers) /\ up # <<>>
      /\ up' = Tail(up) /\ bridge # "down" /\ svc \in Service /\ renames \in 0..MaxRenames
  BY Typed DEF Inv, Take
<1>2. /\ Tail(up) \in Seq(Messages) /\ Head(up) = up[1] /\ Head(up) \in Messages /\ 1 \in 1..Len(up)
      /\ \A i \in 1..Len(Tail(up)) : Tail(up)[i] = up[i + 1] /\ i + 1 \in 1..Len(up)
  BY <1>1, TailIs
<1> DEFINE a == Answer(Head(up), retryable)
<1>3. a \in Answers /\ (a.current => Head(up).current) /\ (~a.retryable => ~retryable)
  BY <1>2 DEF Answer, Answers, Messages
<1> HIDE DEF a
<1>4. /\ Append(down, a) \in Seq(Answers) /\ Len(Append(down, a)) = Len(down) + 1 /\ Len(down) \in Nat
      /\ Append(down, a)[Len(down) + 1] = a
      /\ \A i \in 1..Len(down) : Append(down, a)[i] = down[i]
  BY <1>1, <1>3, AppendIs
<1>5. down' = Append(down, a)
  BY DEF a
<1>6. a.current /\ ~a.retryable => svc.inFlight /\ IF svc.rescan THEN 1..renames \subseteq Dealt' ELSE Head(svc.queue) \in Dealt'
  <2> SUFFICES ASSUME a.current, ~a.retryable
               PROVE  svc.inFlight /\ IF svc.rescan THEN 1..renames \subseteq Dealt' ELSE Head(svc.queue) \in Dealt'
    OBVIOUS
  <2>1. svc.inFlight /\ Head(up).item = Request(svc).item
    BY <1>1, <1>2, <1>3 DEF Attended, Dealt
  <2>2. CASE svc.rescan
    BY <1>3, <2>1, <2>2 DEF Request
  <2>3. CASE ~svc.rescan
    <3>1. svc.queue # <<>>
      <4>1. svc.inFlight => svc # [Idle EXCEPT !.available = svc.available]
        BY DEF Idle
      <4> QED BY <1>1, <2>1, <2>3, <4>1 DEF Connected, Steady
    <3>2. Head(svc.queue) \in 1..renames
      BY <1>1, <3>1, LinedHead DEF InOrder, Dealt, Service
    <3>3. Head(up).item = Head(svc.queue)
      BY <2>1, <2>3 DEF Request
    <3> QED BY <1>1, <1>3, <2>1, <2>3, <3>2, <3>3 DEF Rescan
  <2> QED BY <2>2, <2>3
<1>7. a.current => svc.inFlight
  BY <1>1, <1>2, <1>3 DEF Attended, Dealt
<1>8. \A i \in 1..Len(down') : down'[i].current =>
           \/ \E j \in 1..Len(down) : down'[i] = down[j]
           \/ /\ svc.inFlight
              /\ ~down'[i].retryable => IF svc.rescan THEN 1..renames \subseteq Dealt' ELSE Head(svc.queue) \in Dealt'
  <2> SUFFICES ASSUME NEW i \in 1..Len(down'), down'[i].current
               PROVE  \/ \E j \in 1..Len(down) : down'[i] = down[j]
                      \/ /\ svc.inFlight
                         /\ ~down'[i].retryable => IF svc.rescan THEN 1..renames \subseteq Dealt' ELSE Head(svc.queue) \in Dealt'
    OBVIOUS
  <2>1. i \in 1..Len(down) \/ i = Len(down) + 1
    BY <1>4, <1>5
  <2>2. CASE i \in 1..Len(down)
    BY <1>4, <1>5, <2>2
  <2>3. CASE i = Len(down) + 1
    <3>1. down'[i] = a
      BY <1>4, <1>5, <2>3
    <3> QED BY <1>6, <1>7, <3>1
  <2> QED BY <2>1, <2>2, <2>3
<1>9. \A i \in 1..Len(up') : \E j \in 1..Len(up) : up'[i] = up[j]
  BY <1>1, <1>2
<1>10. down' \in Seq(Answers) /\ up' \in Seq(Messages)
  BY <1>1, <1>2, <1>4, <1>5
<1>11. bridge' = "closing" => bridge = "closing"
  OBVIOUS
<1> HIDE DEF a
<1> QED BY <1>1, <1>8, <1>9, <1>10, <1>11, PassedKeeps

LEMMA ApplyKeeps == ASSUME Inv, Apply PROVE Inv'
<1> USE Bounds
<1>1. /\ TypeOK /\ InOrder /\ Take /\ up \in Seq(Messages) /\ up # <<>> /\ spent \in Spents /\ spent' = spent
      /\ Dealt' = (IF Head(up).item = Rescan THEN 1..renames ELSE Dealt \cup {Head(up).item})
      /\ down' = Append(down, Answer(Head(up), FALSE)) /\ spent.drops \in Nat
      /\ UNCHANGED <<phase, svc, bridge, renames, tries>>
  BY Typed DEF Inv, Apply, Take, InOrder, Dealt
<1>2. Head(up) = up[1] /\ 1 \in 1..Len(up)
  BY <1>1, TailIs
<1>3. Dealt \subseteq Dealt' /\ Dealt' \subseteq 1..renames
  BY <1>1, <1>2 DEF InOrder, Dealt
<1>4. spent' \in Spents /\ spent'.drops >= spent.drops
  BY <1>1
<1>5. IF Head(up).item = Rescan THEN 1..renames \subseteq Dealt' ELSE Head(up).item \in Dealt'
  BY <1>1
<1> QED BY <1>1, <1>3, <1>4, <1>5, TakenKeeps

LEMMA RefuseKeeps == ASSUME Inv, Refuse PROVE Inv'
<1> USE Bounds
<1>1. /\ InOrder /\ Take /\ spent \in Spents /\ Spend("faults", MaxFaults)
      /\ down' = Append(down, Answer(Head(up), TRUE)) /\ Dealt' = Dealt
      /\ UNCHANGED <<phase, svc, bridge, renames, tries>>
  BY Typed DEF Inv, Refuse, Dealt
<1>2. spent' \in Spents /\ spent.drops \in Nat /\ spent'.drops >= spent.drops
  BY <1>1, SpendIs
<1> QED BY <1>1, <1>2, TakenKeeps DEF InOrder, Dealt

LEMMA DeclineKeeps == ASSUME Inv, Decline PROVE Inv'
<1> USE Bounds
<1>1. /\ TypeOK /\ InOrder /\ Take /\ up \in Seq(Messages) /\ up # <<>> /\ spent \in Spents
      /\ Spend("faults", MaxFaults) /\ renames \in Nat /\ known' = known
      /\ missed' = (IF Head(up).item = Rescan THEN 1..renames ELSE missed \cup {Head(up).item})
      /\ down' = Append(down, Answer(Head(up), FALSE))
      /\ UNCHANGED <<phase, svc, bridge, renames, tries>>
  BY Typed DEF Inv, Decline, Take
<1>2. Head(up) = up[1] /\ 1 \in 1..Len(up)
  BY <1>1, TailIs
<1>3. Dealt \subseteq Dealt' /\ Dealt' \subseteq 1..renames
  BY <1>1, <1>2 DEF InOrder, Dealt
<1>4. spent' \in Spents /\ spent.drops \in Nat /\ spent'.drops >= spent.drops
  BY <1>1, SpendIs
<1>5. IF Head(up).item = Rescan THEN 1..renames \subseteq Dealt' ELSE Head(up).item \in Dealt'
  BY <1>1 DEF Dealt
<1> QED BY <1>1, <1>3, <1>4, <1>5, TakenKeeps

LEMMA HandleResultKeeps == ASSUME Inv, HandleResult PROVE Inv'
<1> USE Bounds
<1> DEFINE s == [svc EXCEPT !.inFlight = FALSE]
           d == IF s.rescan THEN [s EXCEPT !.rescan = FALSE, !.attempts = 0]
                ELSE [s EXCEPT !.queue = Tail(@), !.attempts = 0]
           next == Pump(d, Open)
<1>1. /\ TypeOK /\ Connected /\ Bounded /\ Attended /\ InOrder /\ svc \in Service
      /\ spent \in Spents /\ spent.drops \in Nat /\ renames \in 0..MaxRenames /\ renames \in Nat
      /\ up \in Seq(Messages) /\ down \in Seq(Answers) /\ down # <<>> /\ Open /\ Open \in BOOLEAN
      /\ UNCHANGED <<phase, bridge, renames, known, missed, spent>>
  BY Typed DEF Inv, HandleResult, Open
<1>2. /\ Tail(down) \in Seq(Answers) /\ Head(down) = down[1] /\ 1 \in 1..Len(down)
      /\ \A i \in 1..Len(Tail(down)) : Tail(down)[i] = down[i + 1] /\ i + 1 \in 1..Len(down)
  BY <1>1, TailIs
<1>3. CASE ~Head(down).current
  <2>1. down' = Tail(down) /\ UNCHANGED <<svc, up, tries>>
    BY <1>3 DEF HandleResult
  <2>2. \A i \in 1..Len(up') : \E j \in 1..Len(up) : up'[i] = up[j]
    BY <2>1
  <2>3. \A i \in 1..Len(down') : \E j \in 1..Len(down) : down'[i] = down[j]
    BY <1>2, <2>1
  <2> QED BY <1>1, <1>2, <2>1, <2>2, <2>3, PassedKeeps DEF Open, InOrder, Dealt
<1>4. CASE Head(down).current
  <2>1. svc.inFlight
    BY <1>1, <1>2, <1>4 DEF Attended, Dealt
  <2>2. Started /\ Steady(svc)
    <3>1. svc.inFlight => svc # [Idle EXCEPT !.available = svc.available]
      BY DEF Idle
    <3> QED BY <1>1, <2>1, <3>1 DEF Connected
  <2>3. down' \in Seq(Answers) /\ \A i \in 1..Len(down') : ~down'[i].current
    <3>1. down' = Forget(Tail(down))
      BY <1>4 DEF HandleResult
    <3> QED BY <1>2, <3>1, ForgetDown
  <2>4. CASE Head(down).retryable
    <3> DEFINE r == Retry(s, Open)
    <3>1. Deliver(r)
      BY <1>4, <2>4 DEF HandleResult
    <3>2. /\ s \in Service /\ ~s.inFlight /\ s.available = svc.available /\ s.rescan = svc.rescan
          /\ s.queue = svc.queue /\ s.attempts = svc.attempts /\ s.retrying = svc.retrying
      BY <1>1 DEF Service
    <3> HIDE DEF s
    <3>3. Resting(s, tries)
      BY <1>1, <2>1, <2>2, <3>2 DEF Resting, Steady, Bounded, Budget
    <3>4. Sent(r, s, tries, Open)
      BY <1>1, <3>3, RetryIs
    <3> HIDE DEF r
    <3>5. /\ r \in Service /\ Steady(r) /\ r.attempts <= MaxAttempts /\ (r.inFlight => Open)
          /\ svc' = r /\ up' = (IF r.inFlight THEN Append(Forget(up), Request(r)) ELSE Forget(up))
          /\ tries' \in 0..(2 * MaxAttempts) /\ (r.available => tries' <= Budget(r))
          /\ (s.rescan => r.rescan) /\ (~r.rescan => r.queue = s.queue)
      BY <3>1, <3>4, DeliverIs
    <3>6. Lined(r.queue, renames) /\ (~r.rescan => 1..(renames - Len(r.queue)) \subseteq Dealt)
      BY <1>1, <2>2, <3>2, <3>5, KeptLined DEF Steady
    <3> QED BY <1>1, <2>2, <2>3, <3>5, <3>6, GivenKeeps DEF Open, Started
  <2>5. CASE ~Head(down).retryable
    <3>1. /\ svc' = next
          /\ up' = (IF next.inFlight THEN Append(Forget(up), Request(next)) ELSE Forget(up))
          /\ tries' = (IF next.inFlight THEN 1 ELSE 0)
      BY <1>4, <2>5 DEF HandleResult
    <3>2. /\ d \in Service /\ d.available /\ ~d.rescan /\ d.attempts = 0 /\ ~d.inFlight /\ ~d.retrying
          /\ Lined(d.queue, renames) /\ 1..(renames - Len(d.queue)) \subseteq Dealt
      BY <1>1, <1>4, <2>1, <2>2, <2>5, DoneIs
    <3> HIDE DEF d
    <3>3. /\ next \in Service /\ Steady(next) /\ next.attempts <= MaxAttempts
          /\ (next.available => tries' <= Budget(next))
          /\ (next.rescan => next.queue = <<>>) /\ (~next.rescan => next.queue = d.queue)
      <4>1. CASE d.queue = <<>>
        <5>1. next = d
          BY <3>2, <4>1, PumpRests
        <5> QED BY <3>1, <3>2, <4>1, <5>1 DEF Steady, Budget
      <4>2. CASE d.queue # <<>>
        <5>1. Resting(d, 0) /\ d.attempts < MaxAttempts
          BY <3>2, <4>2 DEF Resting, Budget
        <5>2. Sent(next, d, 0, Open)
          BY <1>1, <5>1, PumpIs
        <5> HIDE DEF next
        <5> QED BY <3>1, <5>2 DEF Sent, Spending, Steady
      <4> QED BY <4>1, <4>2
    <3> HIDE DEF next
    <3>4. tries' \in 0..(2 * MaxAttempts)
      BY <3>1
    <3>5. Lined(next.queue, renames) /\ (~next.rescan => 1..(renames - Len(next.queue)) \subseteq Dealt)
      BY <1>1, <3>2, <3>3, EmptyLined
    <3> QED BY <1>1, <2>2, <2>3, <3>1, <3>3, <3>4, <3>5, GivenKeeps DEF Open, Started
  <2> QED BY <2>4, <2>5
<1> QED BY <1>3, <1>4

(* A rename that the service leaves to a rescan, or does not hear of; it   *)
(* is missed when the rescan is as good as done.                           *)
LEMMA UnheardKeeps ==
  ASSUME Inv, renames < MaxRenames, renames' = renames + 1, phase # "started" \/ svc.rescan,
         missed' = IF Settling THEN missed \cup {renames + 1} ELSE missed,
         UNCHANGED <<phase, svc, up, down, bridge, known, spent, tries>>
  PROVE  Inv'
<1> USE Bounds
<1>1. /\ TypeOK /\ Connected /\ Bounded /\ Attended /\ InOrder /\ renames \in 0..MaxRenames
      /\ svc \in Service /\ svc.available \in BOOLEAN /\ down \in Seq(Answers)
  BY Typed DEF Inv
<1>2. svc.queue = <<>> /\ (~svc.rescan => ~Started /\ ~svc.inFlight)
  <2>1. CASE Started
    BY <1>1, <2>1 DEF Connected, Steady, Started
  <2>2. CASE ~Started
    <3>1. svc = [Idle EXCEPT !.available = svc.available]
      BY <1>1, <2>2 DEF Connected
    <3>2. svc.queue = <<>> /\ ~svc.inFlight
      BY <1>1, <3>1, IdleIs
    <3> QED BY <2>2, <3>2
  <2> QED BY <2>1, <2>2
<1>3. TypeOK' /\ Connected' /\ Bounded'
  <2>1. renames' \in 0..MaxRenames
    BY <1>1
  <2>0. missed' \subseteq 1..MaxRenames
    BY <1>1 DEF TypeOK
  <2>2. TypeOK'
    BY <1>1, <2>0, <2>1 DEF TypeOK
  <2>3. Connected'
    BY <1>1 DEF Connected, Started
  <2>4. Bounded'
    BY <1>1 DEF Bounded, Started
  <2> QED BY <2>2, <2>3, <2>4
<1>4. Attended'
  <2>1. DOMAIN down = 1..Len(down)
    BY <1>1
  <2>2. ASSUME NEW i \in 1..Len(down), down[i].current
        PROVE  svc.inFlight /\ (~down[i].retryable => svc.rescan /\ 1..(renames + 1) \subseteq Dealt')
    <3>1. svc.inFlight /\ svc.rescan /\ (~down[i].retryable => 1..renames \subseteq Dealt)
      BY <1>1, <1>2, <2>2 DEF Attended, Dealt
    <3>2. ASSUME ~down[i].retryable PROVE missed' = missed \cup {renames + 1}
      BY <2>1, <2>2, <3>1, <3>2 DEF Settling
    <3>3. \A n \in 1..(renames + 1) : n \in 1..renames \/ n = renames + 1
      BY <1>1
    <3> QED BY <3>1, <3>2, <3>3 DEF Dealt
  <2>3. Request(svc)' = Request(svc)
    BY DEF Request
  <2> QED BY <1>1, <2>2, <2>3 DEF Attended, Dealt
<1>5. InOrder'
  <2>1. Lined(svc.queue, renames + 1)
    BY <1>1, <1>2, EmptyLined
  <2>2. 1..renames \subseteq 1..(renames + 1)
    BY <1>1
  <2>3. Started /\ ~svc.rescan => FALSE
    BY <1>2
  <2>4. Dealt \subseteq Dealt' /\ Dealt' \subseteq 1..(renames + 1)
    BY <1>1, <2>2 DEF InOrder, Dealt
  <2>5. \A i \in 1..Len(up) : up[i].item # Rescan =>
          up[i].item \in 1..(renames + 1) /\ 1..(up[i].item - 1) \subseteq Dealt'
    BY <1>1, <2>2, <2>4 DEF InOrder
  <2> QED BY <1>1, <2>1, <2>3, <2>4, <2>5 DEF InOrder, Started
<1> QED BY <1>3, <1>4, <1>5 DEF Inv

(* One rename too many                                                     *)
LEMMA OverflowKeeps ==
  ASSUME Inv, renames < MaxRenames, renames' = renames + 1, Started, ~svc.rescan,
         Deliver(RequireRescan(svc, Open)), down' = Forget(down), UNCHANGED <<phase, bridge, known, missed, spent>>
  PROVE  Inv'
<1> USE Bounds
<1> DEFINE r == RequireRescan(svc, Open)
<1>1. /\ TypeOK /\ Connected /\ Bounded /\ InOrder /\ renames \in 0..MaxRenames /\ spent \in Spents
      /\ svc \in Service /\ svc.attempts \in Nat /\ down \in Seq(Answers) /\ Open \in BOOLEAN
  BY Typed DEF Inv, Open
<1>2. svc.available /\ svc.attempts <= MaxAttempts /\ bridge # "down"
  BY <1>1 DEF Connected, Steady
<1>3. tries \in 0..(2 * MaxAttempts) /\ tries <= MaxAttempts
  BY <1>1, <1>2 DEF Bounded, Budget
<1>4. Sent(r, svc, tries, Open) /\ r.rescan
  BY <1>1, <1>2, <1>3, RequireRescanIs
<1> HIDE DEF r
<1>5. /\ r \in Service /\ Steady(r) /\ r.attempts <= MaxAttempts /\ (r.inFlight => Open)
      /\ svc' = r /\ up' = (IF r.inFlight THEN Append(Forget(up), Request(r)) ELSE Forget(up))
      /\ tries' \in 0..(2 * MaxAttempts) /\ (r.available => tries' <= Budget(r))
  BY <1>4, DeliverIs DEF r
<1>6. down' \in Seq(Answers) /\ \A i \in 1..Len(down') : ~down'[i].current
  BY <1>1, ForgetDown
<1>7. r.queue = <<>>
  BY <1>4, <1>5 DEF Steady
<1>8. Lined(r.queue, renames')
  BY <1>1, <1>7, EmptyLined
<1>9. renames' \in 0..MaxRenames /\ renames <= renames' /\ phase' = "started"
  BY <1>1 DEF Started
<1>10. r.inFlight => bridge' = "ready"
  BY <1>5 DEF Open
<1> QED BY <1>1, <1>2, <1>4, <1>5, <1>6, <1>8, <1>9, <1>10, GivenKeeps

(* A rename that joins the queue                                           *)
LEMMA QueuedIs ==
  ASSUME Inv, renames < MaxRenames, Started, ~svc.rescan
  PROVE  LET s == [svc EXCEPT !.queue = Append(@, renames + 1)] IN
         /\ s \in Service /\ s.available /\ ~s.rescan /\ s.queue # <<>>
         /\ s.attempts = svc.attempts /\ s.inFlight = svc.inFlight /\ s.retrying = svc.retrying
         /\ Lined(s.queue, renames + 1) /\ 1..((renames + 1) - Len(s.queue)) \subseteq Dealt
         /\ svc.queue # <<>> => Head(s.queue) = Head(svc.queue)
<1> USE Bounds
<1>1. /\ Connected /\ InOrder /\ renames \in 0..MaxRenames /\ svc \in Service /\ svc.queue \in Seq(1..MaxRenames)
      /\ svc.rescan \in BOOLEAN
  BY Typed DEF Inv
<1>2. svc.available /\ Lined(svc.queue, renames) /\ 1..(renames - Len(svc.queue)) \subseteq Dealt
  BY <1>1 DEF Connected, Steady, InOrder, Dealt
<1> DEFINE q == Append(svc.queue, renames + 1)
           s == [svc EXCEPT !.queue = q]
<1>3. /\ q \in Seq(1..MaxRenames) /\ Lined(q, renames + 1)
      /\ Len(q) = Len(svc.queue) + 1 /\ Len(svc.queue) \in Nat /\ q # <<>>
      /\ svc.queue # <<>> => Head(q) = Head(svc.queue)
  BY <1>1, <1>2, LinedAppend
<1>4. (renames + 1) - Len(q) = renames - Len(svc.queue)
  <2>1. \A l \in Nat : (renames + 1) - (l + 1) = renames - l
    BY <1>1
  <2> QED BY <1>3, <2>1
<1> HIDE DEF q
<1>5. /\ s \in Service /\ s.available = svc.available /\ s.rescan = svc.rescan /\ s.queue = q
      /\ s.attempts = svc.attempts /\ s.inFlight = svc.inFlight /\ s.retrying = svc.retrying
  BY <1>1, <1>3 DEF Service
<1> HIDE DEF s
<1> QED BY <1>1, <1>2, <1>3, <1>4, <1>5 DEF s, q

LEMMA QueuedKeeps ==
  ASSUME Inv, renames < MaxRenames, renames' = renames + 1, Started, ~svc.rescan,
         UNCHANGED <<phase, bridge, down, known, missed, spent>>,
         LET s == [svc EXCEPT !.queue = Append(@, renames + 1)]
         IN IF svc.inFlight THEN svc' = s /\ UNCHANGED <<up, tries>> ELSE Deliver(Pump(s, Open))
  PROVE  Inv'
<1> USE Bounds
<1> DEFINE s == [svc EXCEPT !.queue = Append(@, renames + 1)]
           r == Pump(s, Open)
<1>1. /\ TypeOK /\ Connected /\ Bounded /\ Attended /\ InOrder /\ renames \in 0..MaxRenames /\ spent \in Spents
      /\ svc \in Service /\ svc.attempts \in Nat /\ up \in Seq(Messages) /\ down \in Seq(Answers) /\ Open \in BOOLEAN
  BY Typed DEF Inv, Open
<1>2. /\ s \in Service /\ s.available /\ ~s.rescan /\ s.queue # <<>>
      /\ s.attempts = svc.attempts /\ s.inFlight = svc.inFlight /\ s.retrying = svc.retrying
      /\ svc.queue # <<>> => Head(s.queue) = Head(svc.queue)
  BY QueuedIs
<1>3. Steady(svc) /\ bridge # "down" /\ svc.available
  BY <1>1 DEF Connected, Steady
<1>4. renames' \in 0..MaxRenames /\ renames <= renames' /\ phase' = "started"
  BY <1>1 DEF Started
<1>7. Lined(s.queue, renames') /\ 1..(renames' - Len(s.queue)) \subseteq Dealt
  <2>1. Lined(s.queue, renames + 1) /\ 1..((renames + 1) - Len(s.queue)) \subseteq Dealt
    BY QueuedIs
  <2> HIDE DEF s
  <2> QED BY <2>1
<1>5. CASE svc.inFlight
  <2>1. svc' = s /\ UNCHANGED <<up, tries>>
    BY <1>5
  <2> HIDE DEF s
  <2>2. svc.queue # <<>> /\ ~s.retrying /\ s.inFlight /\ s.attempts <= MaxAttempts
    BY <1>2, <1>3, <1>5 DEF Steady
  <2>3. TypeOK'
    <3>1. s \in [available : BOOLEAN, rescan : BOOLEAN, queue : Seq(1..MaxRenames),
                 attempts : 0..(MaxAttempts + MaxDrops), inFlight : BOOLEAN, retrying : BOOLEAN]
      BY <1>1, <1>2, <2>2 DEF Service
    <3> QED BY <1>1, <1>4, <2>1, <3>1 DEF TypeOK
  <2>4. Connected'
    <3>1. Steady(s)
      BY <1>2, <2>2 DEF Steady
    <3> QED BY <1>1, <1>3, <1>4, <2>1, <3>1 DEF Connected, Started
  <2>5. Bounded'
    <3>1. Budget(s) = Budget(svc)
      BY <1>2 DEF Budget
    <3> QED BY <1>1, <1>2, <1>3, <2>1, <3>1 DEF Bounded, Started
  <2>6. Attended'
    <3>1. Request(s).item = Request(svc).item
      BY <1>2, <2>2 DEF Request
    <3>2. \A i \in 1..Len(up') : up'[i].current => s.inFlight /\ up'[i].item = Request(s).item
      BY <1>1, <2>1, <2>2, <3>1 DEF Attended, Dealt
    <3>3. \A i \in 1..Len(down') : down'[i].current => s.inFlight /\ (~down'[i].retryable => Head(s.queue) \in Dealt)
      BY <1>1, <1>2, <2>2 DEF Attended, Dealt
    <3> QED BY <1>2, <2>1, <3>2, <3>3 DEF Attended, Dealt
  <2>7. InOrder'
    <3>1. \A i \in 1..Len(up') : up'[i].item # Rescan =>
            up'[i].item \in 1..renames' /\ 1..(up'[i].item - 1) \subseteq Dealt
      <4>1. 1..renames \subseteq 1..renames'
        BY <1>1
      <4> QED BY <1>1, <2>1, <4>1 DEF InOrder, Dealt
    <3>2. Dealt' \subseteq 1..renames'
      BY <1>1 DEF InOrder, Dealt
    <3> QED BY <1>7, <2>1, <3>1, <3>2 DEF InOrder, Dealt, Started
  <2> QED BY <2>3, <2>4, <2>5, <2>6, <2>7 DEF Inv
<1>6. CASE ~svc.inFlight
  <2>1. Deliver(r)
    BY <1>6
  <2> HIDE DEF s
  <2>2. /\ r \in Service /\ Steady(r) /\ r.attempts <= MaxAttempts /\ (r.inFlight => Open)
        /\ svc' = r /\ up' = (IF r.inFlight THEN Append(Forget(up), Request(r)) ELSE Forget(up))
        /\ tries' \in 0..(2 * MaxAttempts) /\ (r.available => tries' <= Budget(r))
        /\ (~r.rescan => r.queue = s.queue)
    <3>1. CASE svc.retrying
      <4>1. r = s /\ ~r.inFlight
        BY <1>2, <1>6, <3>1, PumpRests
      <4>2. s.attempts < MaxAttempts /\ Budget(s) = Budget(svc)
        BY <1>2, <1>3, <3>1 DEF Steady, Budget
      <4>0. ~s.inFlight /\ s.retrying
        BY <1>2, <1>6, <3>1, Zenon
      <4>3. Steady(s)
        BY <1>1, <1>2, <4>0, <4>2 DEF Steady
      <4>4. tries' = tries /\ svc' = s /\ up' = Forget(up)
        BY <2>1, <4>1 DEF Deliver
      <4>5. tries \in 0..(2 * MaxAttempts) /\ tries <= Budget(s)
        BY <1>1, <1>3, <4>2 DEF Bounded
      <4> HIDE DEF r
      <4> QED BY <1>1, <1>2, <4>1, <4>2, <4>3, <4>4, <4>5
    <3>2. CASE ~svc.retrying
      <4>1. s.attempts = 0 /\ tries \in 0..(2 * MaxAttempts) /\ tries <= 0
        BY <1>1, <1>2, <1>3, <1>6, <3>2 DEF Steady, Bounded, Budget
      <4>2. Resting(s, tries) /\ s.attempts < MaxAttempts
        BY <1>2, <1>6, <3>2, <4>1 DEF Resting, Budget
      <4>3. Sent(r, s, tries, Open)
        BY <1>1, <4>2, PumpIs
      <4> HIDE DEF r
      <4> QED BY <2>1, <4>3, DeliverIs
    <3> QED BY <3>1, <3>2
  <2> HIDE DEF r
  <2>3. down' \in Seq(Answers) /\ \A i \in 1..Len(down') : ~down'[i].current
    BY <1>1, <1>6 DEF Attended, Dealt
  <2>4. Lined(r.queue, renames') /\ (~r.rescan => 1..(renames' - Len(r.queue)) \subseteq Dealt)
    <3>1. CASE r.rescan
      <4>1. r.queue = <<>> /\ renames' \in Nat
        BY <1>1, <2>2, <3>1, SMTT(30) DEF Steady
      <4> QED BY <3>1, <4>1, EmptyLined
    <3>2. CASE ~r.rescan
      BY <1>7, <2>2, <3>2
    <3> QED BY <3>1, <3>2
  <2>5. r.inFlight => bridge' = "ready"
    BY <2>2 DEF Open
  <2> QED BY <1>1, <1>3, <1>4, <2>2, <2>3, <2>4, <2>5, GivenKeeps
<1> QED BY <1>5, <1>6

LEMMA RenameKeeps == ASSUME Inv, Rename PROVE Inv'
<1>1. /\ renames < MaxRenames /\ renames' = renames + 1 /\ ObserveRename(renames + 1)
      /\ missed' = (IF Settling THEN missed \cup {renames + 1} ELSE missed)
      /\ ~svc.rescan => missed' = missed
      /\ UNCHANGED <<phase, bridge, known, spent>>
  BY DEF Rename, Settling
<1>2. CASE phase # "started" \/ svc.rescan
  <2>1. UNCHANGED <<svc, up, down, tries>>
    BY <1>1, <1>2 DEF ObserveRename, network
  <2> QED BY <1>1, <1>2, <2>1, UnheardKeeps
<1>3. CASE phase = "started" /\ ~svc.rescan /\ Len(svc.queue) >= QueueLimit
  <2>1. Deliver(RequireRescan(svc, Open)) /\ down' = Forget(down)
    BY <1>1, <1>3 DEF ObserveRename
  <2> QED BY <1>1, <1>3, <2>1, OverflowKeeps DEF Started
<1>4. CASE phase = "started" /\ ~svc.rescan /\ ~(Len(svc.queue) >= QueueLimit)
  <2> DEFINE s == [svc EXCEPT !.queue = Append(@, renames + 1)]
  <2>1. /\ UNCHANGED down
        /\ IF svc.inFlight THEN svc' = s /\ UNCHANGED <<up, tries>> ELSE Deliver(Pump(s, Open))
    BY <1>1, <1>4 DEF ObserveRename
  <2> QED BY <1>1, <1>4, <2>1, QueuedKeeps DEF Started
<1> QED BY <1>2, <1>3, <1>4

LEMMA BridgeUpKeeps == ASSUME Inv, BridgeUp PROVE Inv'
<1> USE Bounds
<1>1. /\ TypeOK /\ Connected /\ Bounded /\ Attended /\ InOrder /\ svc \in Service /\ spent \in Spents
      /\ spent.drops \in Nat /\ svc.attempts \in Nat /\ renames \in 0..MaxRenames /\ renames \in Nat
      /\ svc.available \in BOOLEAN
      /\ bridge = "down" /\ bridge' = "ready" /\ UNCHANGED <<phase, down, renames, known, missed, spent>>
  BY Typed DEF Inv, BridgeUp, Spents
<1>2. up = <<>> /\ down = <<>> /\ ~svc.inFlight /\ (Started => ~svc.available)
  BY <1>1 DEF Connected
<1>3. CASE ~Started
  <2>1. UNCHANGED <<svc, up, tries>>
    BY <1>3 DEF BridgeUp, Started
  <2>2. TypeOK' /\ Connected' /\ Bounded'
    BY <1>1, <1>2, <1>3, <2>1 DEF TypeOK, Connected, Bounded, Started
  <2>3. Attended' /\ InOrder'
    <3>1. Request(svc)' = Request(svc)
      BY <2>1 DEF Request
    <3> QED BY <1>1, <2>1, <3>1 DEF Attended, InOrder, Dealt, Started
  <2> QED BY <2>2, <2>3 DEF Inv
<1>4. CASE Started
  <2> DEFINE s == [svc EXCEPT !.available = TRUE]
             r == Pump(s, TRUE)
  <2>1. svc' = r /\ up' = (IF svc'.inFlight THEN <<Request(svc')>> ELSE <<>>) /\ tries' = (IF svc'.inFlight THEN 1 ELSE 0)
    BY <1>4 DEF BridgeUp, Started
  <2>2. /\ s \in Service /\ s.available /\ s.rescan /\ s.queue = <<>> /\ ~s.inFlight /\ ~s.retrying
        /\ s.attempts = svc.attempts
    BY <1>1, <1>2, <1>4 DEF Connected, Steady, Service
  <2> HIDE DEF s
  <2>3. r = Waiting(Attempted(s))
    BY <2>2 DEF Pump, SendRescan
  <2>4. /\ Attempted(s) \in Service /\ Attempted(s).attempts = s.attempts + 1
        /\ Attempted(s).available = s.available /\ Attempted(s).rescan = s.rescan /\ Attempted(s).queue = s.queue
        /\ Attempted(s).retrying = s.retrying
    BY <2>2, AttemptedIs
  <2>5. /\ r \in Service /\ r.attempts = s.attempts + 1 /\ r.available = s.available /\ r.rescan = s.rescan
        /\ r.queue = s.queue /\ r.inFlight /\ r.retrying = s.retrying
    BY <2>3, <2>4, WaitingIs
  <2> HIDE DEF r
  <2>6. Steady(r)
    BY <2>2, <2>5 DEF Steady
  <2>7. r.attempts <= MaxAttempts + spent.drops
    BY <1>1, <2>2, <2>5 DEF Bounded
  <2>8. tries' \in 0..(2 * MaxAttempts) /\ tries' <= Budget(r)
    BY <1>1, <2>1, <2>2, <2>5 DEF Budget
  <2>9. up' = Append(Forget(up), Request(r))
    <3>1. Forget(<<>>) = <<>>
      BY DEF Forget
    <3>2. Append(<<>>, Request(r)) = <<Request(r)>>
      OBVIOUS
    <3> QED BY <1>2, <2>1, <2>5, <3>1, <3>2
  <2>10. Lined(r.queue, renames)
    BY <1>1, <2>2, <2>5, EmptyLined
  <2>11. down' \in Seq(Answers) /\ \A i \in 1..Len(down') : ~down'[i].current
    BY <1>1, <1>2
  <2>12. r.rescan
    BY <2>2, <2>5
  <2>13. Lined(r.queue, renames') /\ renames' \in 0..MaxRenames /\ renames <= renames'
    BY <1>1, <2>10
  <2>14. spent' \in Spents /\ spent'.drops = spent.drops /\ UNCHANGED <<known, missed>> /\ phase' = "started" /\ svc' = r
    BY <1>1, <1>4, <2>1 DEF Started
  <2> QED BY <1>1, <2>5, <2>6, <2>7, <2>8, <2>9, <2>11, <2>12, <2>13, <2>14, GivenKeeps
<1> QED BY <1>3, <1>4

LEMMA BridgeDownKeeps == ASSUME Inv, BridgeDown PROVE Inv'
<1> USE Bounds
<1>1. /\ TypeOK /\ Connected /\ Bounded /\ Attended /\ InOrder /\ svc \in Service /\ spent \in Spents
      /\ svc.attempts \in Nat /\ svc.available \in BOOLEAN /\ svc.queue \in Seq(1..MaxRenames)
      /\ renames \in 0..MaxRenames /\ renames \in Nat /\ spent.drops \in Nat /\ spent.drops \in 0..MaxDrops
      /\ bridge' = "down" /\ up' = <<>> /\ down' = <<>> /\ UNCHANGED <<phase, renames, known, missed, tries>>
  BY Typed DEF Inv, BridgeDown, Lost, Spents
<1>2. spent' \in Spents /\ spent'.drops \in 0..MaxDrops /\ svc.attempts < MaxAttempts + spent'.drops
  <2>1. CASE bridge = "ready" /\ Spend("drops", MaxDrops)
    <3>1. spent' \in Spents /\ spent'.drops = spent.drops + 1
      BY <1>1, <2>1, SpendIs
    <3> QED BY <1>1, <3>1 DEF Bounded, Spents
  <2>2. CASE bridge = "closing" /\ UNCHANGED spent
    BY <1>1, <2>2 DEF Bounded
  <2> QED BY <2>1, <2>2 DEF BridgeDown, Lost
<1>3. /\ svc' \in Service /\ ~svc'.inFlight /\ svc'.attempts <= svc.attempts /\ svc'.attempts \in Nat
      /\ Lined(svc'.queue, renames)
      /\ IF Started THEN Steady(svc') /\ ~svc'.available /\ svc'.rescan
         ELSE svc' = [Idle EXCEPT !.available = svc'.available] /\ svc'.available = svc.available
  <2>1. CASE Started /\ svc.available
    <3> DEFINE s == [svc EXCEPT !.available = FALSE]
    <3>1. s \in Service /\ ~s.available /\ s.rescan = svc.rescan /\ s.attempts = svc.attempts
      BY <1>1 DEF Service
    <3>2. svc' = RequireRescan(s, FALSE)
      BY <2>1 DEF BridgeDown, Started
    <3> HIDE DEF s
    <3>3. PICK r \in Service :
            /\ ~r.available /\ r.rescan /\ r.queue = <<>> /\ ~r.inFlight /\ ~r.retrying
            /\ r.attempts = (IF s.rescan THEN s.attempts ELSE 0) /\ RequireRescan(s, FALSE) = r
      <4>1. \E r \in Service :
              /\ (s.available => r.available) /\ (~s.available => ~r.available)
              /\ r.rescan /\ r.queue = <<>> /\ ~r.inFlight /\ ~r.retrying
              /\ r.attempts = (IF s.rescan THEN s.attempts ELSE 0)
              /\ s.available => RequireRescan(s, FALSE) = SendRescan(r, FALSE)
              /\ ~s.available => RequireRescan(s, FALSE) = r
        BY <3>1, RescanIs
      <4> QED BY <3>1, <4>1, Zenon
    <3>4. Lined(<<>>, renames)
      BY <1>1, EmptyLined
    <3>5. svc' = r
      BY <3>2, <3>3
    <3>6. r.attempts <= svc.attempts /\ r.attempts \in Nat
      BY <1>1, <3>1, <3>3
    <3>7. Steady(r)
      BY <3>3 DEF Steady
    <3> QED BY <2>1, <3>3, <3>4, <3>5, <3>6, <3>7
  <2>2. CASE ~(Started /\ svc.available)
    <3>1. svc' = svc
      BY <2>2 DEF BridgeDown, Started
    <3>2. CASE Started
      BY <1>1, <2>2, <3>1, <3>2 DEF Connected, Steady, InOrder, Dealt, Service
    <3>3. CASE ~Started
      <4>1. svc = [Idle EXCEPT !.available = svc.available]
        BY <1>1, <3>3 DEF Connected
      <4>2. ~svc.inFlight
        BY <1>1, <4>1, IdleIs
      <4> QED BY <1>1, <3>1, <3>3, <4>1, <4>2 DEF InOrder, Dealt
    <3> QED BY <3>2, <3>3
  <2> QED BY <2>1, <2>2
<1>4. TypeOK'
  <2>1. svc' \in [available : BOOLEAN, rescan : BOOLEAN, queue : Seq(1..MaxRenames),
                  attempts : 0..(MaxAttempts + MaxDrops), inFlight : BOOLEAN, retrying : BOOLEAN]
    <3>1. svc'.attempts \in 0..(MaxAttempts + MaxDrops)
      BY <1>1, <1>2, <1>3
    <3> QED BY <1>3, <3>1 DEF Service
  <2> QED BY <1>1, <1>2, <2>1 DEF TypeOK, Spents
<1>5. Connected'
  BY <1>1, <1>3 DEF Connected, Started
<1>6. Bounded'
  <2>1. svc'.attempts < MaxAttempts + spent'.drops
    BY <1>1, <1>2, <1>3
  <2>2. svc'.attempts <= MaxAttempts + spent'.drops
    BY <1>1, <1>2, <1>3, <2>1
  <2>3. ~(Started' /\ svc'.available)
    BY <1>1, <1>3 DEF Started
  <2>4. tries' \in 0..(2 * MaxAttempts)
    BY <1>1 DEF Bounded
  <2> QED BY <2>1, <2>2, <2>3, <2>4 DEF Bounded
<1>7. Attended' /\ InOrder'
  BY <1>1, <1>3 DEF Attended, InOrder, Dealt, Started
<1> QED BY <1>4, <1>5, <1>6, <1>7 DEF Inv

LEMMA DisposeKeeps == ASSUME Inv, Dispose PROVE Inv'
<1> USE Bounds
<1>1. /\ TypeOK /\ Connected /\ Bounded /\ InOrder /\ svc \in Service /\ svc.available \in BOOLEAN
      /\ up \in Seq(Messages) /\ down \in Seq(Answers) /\ renames \in Nat /\ spent.drops \in Nat
      /\ phase = "started" /\ phase' = "disposed" /\ svc' = [Idle EXCEPT !.available = svc.available]
      /\ up' = Forget(up) /\ down' = Forget(down) /\ UNCHANGED <<bridge, renames, known, missed, tries, spent>>
  BY Typed DEF Inv, Dispose, Spents
<1>2. /\ svc' \in Service /\ ~svc'.rescan /\ svc'.queue = <<>> /\ svc'.attempts = 0
      /\ ~svc'.inFlight /\ ~svc'.retrying /\ svc'.available = svc.available
  BY <1>1, IdleIs
<1>3. /\ up' \in Seq(Messages) /\ Len(up') = Len(up)
      /\ \A i \in 1..Len(up) : ~up'[i].current /\ up'[i].item = up[i].item
  BY <1>1, ForgetUp
<1>4. down' \in Seq(Answers) /\ Len(down') = Len(down) /\ \A i \in 1..Len(down) : ~down'[i].current
  BY <1>1, ForgetDown
<1>5. TypeOK'
  <2>1. svc' \in [available : BOOLEAN, rescan : BOOLEAN, queue : Seq(1..MaxRenames),
                  attempts : 0..(MaxAttempts + MaxDrops), inFlight : BOOLEAN, retrying : BOOLEAN]
    BY <1>2 DEF Service
  <2> QED BY <1>1, <1>3, <1>4, <2>1 DEF TypeOK
<1>6. Connected'
  <2>1. bridge = "down" => up' = <<>> /\ down' = <<>>
    BY <1>1 DEF Connected, Forget
  <2>2. svc' = [Idle EXCEPT !.available = svc'.available]
    BY <1>1, <1>2
  <2> QED BY <1>1, <1>2, <2>1, <2>2 DEF Connected, Started
<1>7. Bounded'
  <2>1. bridge = "closing" => spent.drops > 0
    BY <1>1 DEF Connected
  <2>2. bridge = "down" => MaxAttempts + spent.drops > 0
    BY <1>1
  <2> QED BY <1>1, <1>2, <2>1, <2>2, SMTT(30) DEF Bounded, Started
<1>8. Attended' /\ InOrder'
  <2>1. Lined(svc'.queue, renames)
    BY <1>1, <1>2, EmptyLined
  <2> QED BY <1>1, <1>2, <1>3, <1>4, <2>1 DEF Attended, InOrder, Dealt, Started
<1> QED BY <1>5, <1>6, <1>7, <1>8 DEF Inv

LEMMA InitInv == Init => Inv
<1> USE Bounds
<1> SUFFICES ASSUME Init PROVE Inv
  OBVIOUS
<1>1. /\ phase = "new" /\ svc = Idle /\ bridge = "down" /\ up = <<>> /\ down = <<>> /\ renames = 0 /\ known = {} /\ missed = {}
      /\ tries = 0 /\ spent = [drops |-> 0, faults |-> 0]
  BY DEF Init
<1>2. /\ Idle \in Service /\ ~Idle.rescan /\ Idle.queue = <<>> /\ Idle.attempts = 0
      /\ ~Idle.inFlight /\ ~Idle.retrying /\ ~Idle.available /\ Idle = [Idle EXCEPT !.available = Idle.available]
  <2>1. <<>> \in Seq(1..MaxRenames)
    OBVIOUS
  <2> QED BY <2>1 DEF Idle, Service
<1>3. TypeOK
  <2>1. Idle \in [available : BOOLEAN, rescan : BOOLEAN, queue : Seq(1..MaxRenames),
                  attempts : 0..(MaxAttempts + MaxDrops), inFlight : BOOLEAN, retrying : BOOLEAN]
    BY <1>2 DEF Service
  <2> QED BY <1>1, <2>1 DEF TypeOK
<1>4. Connected /\ Bounded
  BY <1>1, <1>2 DEF Connected, Bounded, Started
<1>5. Attended /\ InOrder
  <2>1. Lined(<<>>, 0)
    BY EmptyLined
  <2> QED BY <1>1, <1>2, <2>1 DEF Attended, InOrder, Dealt, Started
<1> QED BY <1>3, <1>4, <1>5 DEF Inv

LEMMA NextInv == Inv /\ [Next]_vars => Inv'
<1> SUFFICES ASSUME Inv, [Next]_vars PROVE Inv'
  OBVIOUS
<1>1. CASE UNCHANGED vars
  <2>1. Request(svc)' = Request(svc)
    BY <1>1 DEF vars, Request
  <2> QED BY <1>1, <2>1 DEF vars, Inv, TypeOK, Connected, Bounded, Attended, InOrder, Dealt, Started
<1>2. CASE Next
  BY <1>2, StartKeeps, DisposeKeeps, BridgeUpKeeps, BridgeClosingKeeps, BridgeDownKeeps, RenameKeeps,
     HandleResultKeeps, HandleTimeoutKeeps, RetryTimerKeeps, ApplyKeeps, RefuseKeeps, DeclineKeeps DEF Next
<1> QED BY <1>1, <1>2

-----------------------------------------------------------------------------
(* What holds always.                                                      *)

(* The inductive invariant holds in every reachable state.                 *)
THEOREM InvAlways == Spec => []Inv
BY InitInv, NextInv, PTL DEF Spec

(* No rename is forgotten: it is known, declined, queued, left to a rescan *)
(* or made while one was being answered; and a runtime that never answers  *)
(* is asked a bounded number of times.                                     *)
THEOREM SoundAlways == Spec => []Sound
<1>1. Inv => Sound
  <2> SUFFICES ASSUME Inv PROVE Sound
    OBVIOUS
  <2>1. /\ TypeOK /\ InOrder /\ Bounded /\ renames \in Nat /\ svc.queue \in Seq(1..MaxRenames)
        /\ Len(svc.queue) \in Nat /\ DOMAIN svc.queue = 1..Len(svc.queue)
    BY Typed, Bounds DEF Inv
  <2>2. ASSUME Started, NEW n \in 1..renames, ~svc.rescan, n \notin known \cup missed
        PROVE  \E i \in DOMAIN svc.queue : svc.queue[i] = n
    <3> DEFINE l == Len(svc.queue)
               i == n - (renames - l)
    <3>1. ~(n <= renames - l) /\ l <= renames
      BY <2>1, <2>2 DEF InOrder, Dealt, Lined
    <3>2. i \in 1..l /\ renames - l + i = n
      <4>1. \A m, k, r \in Nat : m \in 1..r /\ ~(m <= r - k) /\ k <= r => m - (r - k) \in 1..k /\ r - k + (m - (r - k)) = m
        OBVIOUS
      <4>2. n \in Nat /\ l \in Nat /\ n \in 1..renames
        BY <2>1
      <4> HIDE DEF l
      <4> QED BY <2>1, <3>1, <4>1, <4>2
    <3>3. svc.queue[i] = renames - l + i
      BY <2>1, <3>2, LinedIs DEF InOrder, Dealt
    <3> QED BY <2>1, <3>2, <3>3
  <2>3. Accounted
    BY <2>2 DEF Accounted, Started
  <2> QED BY <2>1, <2>3 DEF Sound, Unspun, Bounded
<1> QED BY <1>1, InvAlways, PTL

(* When no answer is waited for, none ends a rescan.                       *)
LEMMA Unsettling ==
  ASSUME down' \in Seq(Answers) \/ down' = <<>>, \A i \in 1..Len(down') : ~down'[i].current
  PROVE  ~Settling'
BY DEF Settling

(* The service implements DirectoryMirror: the runtime is told of a rename *)
(* only when all earlier ones are dealt with, or reads the whole vault, or *)
(* declines to; and only what it declined, or what was renamed while its   *)
(* word on the whole vault was on its way, is missed.                      *)
THEOREM MirrorImplemented == Spec => RefinesMirror
<1>1. Init => Mirror!Init
  BY DEF Init, Mirror!Init, Settling, Idle
<1>2. Inv /\ [Next]_vars => [Mirror!Next]_<<renames, known, missed, Settling>>
  <2> SUFFICES ASSUME Inv, [Next]_vars
               PROVE  Mirror!Next \/ UNCHANGED <<renames, known, missed, Settling>>
    OBVIOUS
  <2> DEFINE item == Head(up).item
  <2>0. Settling \in BOOLEAN /\ Settling' \in BOOLEAN
    BY DEF Settling
  <2>1. ASSUME Apply \/ Decline PROVE Mirror!Next
    <3>1. /\ InOrder /\ up \in Seq(Messages) /\ up # <<>> /\ down \in Seq(Answers) /\ UNCHANGED <<svc, renames>>
          /\ Head(up) \in Messages
      BY <2>1, Typed, TailIs DEF Inv, Apply, Decline, Take
    <3>2. Head(up) = up[1] /\ 1 \in 1..Len(up)
      BY <3>1, TailIs
    <3>3. CASE item = Rescan
      BY <2>0, <2>1, <3>1, <3>3 DEF Apply, Decline, Mirror!Next, Mirror!Scan
    <3>4. CASE item # Rescan
      <4>1. item \in 1..renames /\ 1..(item - 1) \subseteq known \cup missed
        BY <3>1, <3>2, <3>4 DEF InOrder, Dealt
      <4>2. Mirror!Turn(item)
        BY <4>1 DEF Mirror!Turn
      <4>3. UNCHANGED Settling
        <5>1. PICK m \in Answers : down' = Append(down, m) /\ (m.current => Head(up).current)
          <6>1. Answer(Head(up), FALSE) \in Answers /\ (Answer(Head(up), FALSE).current => Head(up).current)
            BY <3>1 DEF Answer, Answers, Messages
          <6>2. down' = Append(down, Answer(Head(up), FALSE))
            BY <2>1 DEF Apply, Decline
          <6> QED BY <6>1, <6>2
        <5>2. m.current => ~svc.rescan
          BY <3>1, <3>2, <3>4, <5>1 DEF Inv, Attended, Request
        <5>3. /\ down' \in Seq(Answers) /\ Len(down') = Len(down) + 1 /\ Len(down) \in Nat
              /\ down'[Len(down) + 1] = m /\ \A i \in 1..Len(down) : down'[i] = down[i]
          BY <3>1, <5>1, AppendIs
        <5>4. DOMAIN down = 1..Len(down) /\ DOMAIN down' = 1..Len(down')
          BY <3>1, <5>3
        <5>5. \A i \in 1..Len(down') : i \in 1..Len(down) \/ i = Len(down) + 1
          BY <5>3
        <5> QED BY <3>1, <5>2, <5>3, <5>4, <5>5 DEF Settling
      <4>4. CASE Apply
        <5>1. Mirror!Learn(item)
          BY <3>1, <3>4, <4>2, <4>3, <4>4 DEF Apply, Mirror!Learn
        <5> QED BY <4>1, <5>1 DEF Mirror!Next
      <4>5. CASE Decline
        <5>1. Mirror!Decline(item)
          BY <3>1, <3>4, <4>2, <4>3, <4>5 DEF Decline, Mirror!Decline
        <5> QED BY <4>1, <5>1 DEF Mirror!Next
      <4> QED BY <2>1, <4>4, <4>5
    <3> QED BY <3>3, <3>4
  <2>2. CASE Rename
    <3>1. UNCHANGED Settling
      <4>1. CASE svc.rescan
        BY <2>2, <4>1 DEF Rename, ObserveRename, Settling, network
      <4>2. CASE ~svc.rescan
        <5>1. ~Settling
          BY <4>2 DEF Settling
        <5>2. ASSUME Settling' PROVE FALSE
          <6> USE <2>2, <4>2, <5>2
          <6>0. /\ down \in Seq(Answers) /\ svc \in Service /\ Attended
                /\ ObserveRename(renames + 1) /\ UNCHANGED phase
            BY Typed DEF Inv, Rename
          <6>1. CASE phase # "started"
            BY <5>1, <6>0, <6>1 DEF ObserveRename, network, Settling
          <6>2. CASE phase = "started" /\ Len(svc.queue) >= QueueLimit
            BY <6>0, <6>2, ForgetDown, Unsettling DEF ObserveRename
          <6>3. CASE phase = "started" /\ ~(Len(svc.queue) >= QueueLimit) /\ svc.inFlight
            BY <6>0, <6>3 DEF ObserveRename, Settling, Service
          <6>4. CASE phase = "started" /\ ~(Len(svc.queue) >= QueueLimit) /\ ~svc.inFlight
            BY <6>0, <6>4, Unsettling DEF ObserveRename, Attended
          <6> QED BY <6>1, <6>2, <6>3, <6>4
        <5> QED BY <2>0, <5>1, <5>2
      <4> QED BY <4>1, <4>2
    <3> QED BY <2>2, <3>1 DEF Rename, Mirror!Next, Mirror!Rename
  <2>3. ASSUME ~Apply, ~Decline, ~Rename
        PROVE  UNCHANGED <<renames, known, missed>> /\ (Settling' => Settling)
    <3> USE Bounds
    <3>1. UNCHANGED <<renames, known, missed>>
      BY <2>3 DEF Next, vars, Start, Dispose, BridgeUp, BridgeClosing, BridgeDown, HandleResult,
                  HandleTimeout, RetryTimer, Refuse
    <3>2. down \in Seq(Answers) /\ up \in Seq(Messages) /\ Attended /\ Connected
      BY Typed DEF Inv
    <3>3. CASE UNCHANGED vars \/ BridgeClosing
      BY <3>3 DEF vars, BridgeClosing, network, Settling
    <3>4. CASE Start \/ RetryTimer \/ BridgeUp
      <4>1. ~svc.inFlight
        <5>1. CASE Start
          <6>1. svc = [Idle EXCEPT !.available = svc.available] /\ svc.available \in BOOLEAN
            BY <3>2, <5>1, Typed DEF Start, Connected, Started, Inv
          <6> QED BY <6>1, IdleIs
        <5>2. CASE RetryTimer
          <6>1. svc.retrying => svc # [Idle EXCEPT !.available = svc.available]
            BY DEF Idle
          <6> QED BY <3>2, <5>2, <6>1 DEF RetryTimer, Connected, Steady
        <5>3. CASE BridgeUp
          BY <3>2, <5>3 DEF BridgeUp, Connected
        <5> QED BY <3>4, <5>1, <5>2, <5>3
      <4>2. UNCHANGED down
        BY <3>4 DEF Start, RetryTimer, BridgeUp
      <4>3. \A i \in 1..Len(down') : ~down'[i].current
        BY <3>2, <4>1, <4>2 DEF Attended
      <4> QED BY <3>1, <3>2, <4>2, <4>3, Unsettling
    <3>5. CASE Dispose \/ HandleTimeout
      BY <3>2, <3>5, ForgetDown, Unsettling DEF Dispose, HandleTimeout
    <3>6. CASE BridgeDown
      BY <3>6, Unsettling DEF BridgeDown, Lost
    <3>7. CASE HandleResult
      <4>1. /\ Tail(down) \in Seq(Answers) /\ down # <<>>
            /\ \A i \in 1..Len(Tail(down)) : Tail(down)[i] = down[i + 1] /\ i + 1 \in 1..Len(down)
        BY <3>2, <3>7, TailIs DEF HandleResult
      <4>2. CASE Head(down).current
        <5>1. down' = Forget(Tail(down))
          BY <3>7, <4>2 DEF HandleResult
        <5> QED BY <3>1, <4>1, <5>1, ForgetDown, Unsettling
      <4>3. CASE ~Head(down).current
        <5>1. down' = Tail(down) /\ UNCHANGED svc
          BY <3>7, <4>3 DEF HandleResult
        <5>2. DOMAIN down = 1..Len(down) /\ DOMAIN Tail(down) = 1..Len(Tail(down))
          BY <3>2, <4>1
        <5> QED BY <3>1, <4>1, <5>1, <5>2 DEF Settling
      <4> QED BY <4>2, <4>3
    <3>8. CASE Refuse
      <4>1. PICK m \in Answers : m.retryable /\ down' = Append(down, m)
        <5>1. Head(up) \in Messages
          BY <3>2, <3>8, TailIs DEF Refuse, Take
        <5> QED BY <3>8, <5>1 DEF Refuse, Answer, Answers, Messages
      <4>2. /\ down' \in Seq(Answers) /\ Len(down') = Len(down) + 1 /\ Len(down) \in Nat
            /\ down'[Len(down) + 1] = m /\ \A i \in 1..Len(down) : down'[i] = down[i]
        BY <3>2, <4>1, AppendIs
      <4>3. DOMAIN down = 1..Len(down) /\ DOMAIN down' = 1..Len(down')
        BY <3>2, <4>2
      <4>4. \A i \in 1..Len(down') : i \in 1..Len(down) \/ i = Len(down) + 1
        BY <4>2
      <4>5. UNCHANGED svc
        BY <3>8 DEF Refuse
      <4> QED BY <3>1, <4>1, <4>2, <4>3, <4>4, <4>5 DEF Settling
    <3> QED BY <2>3, <3>1, <3>3, <3>4, <3>5, <3>6, <3>7, <3>8 DEF Next
  <2>4. ASSUME ~Apply, ~Decline, ~Rename PROVE Mirror!Next \/ UNCHANGED <<renames, known, missed, Settling>>
    BY <2>0, <2>3, <2>4 DEF Mirror!Next, Mirror!Settled
  <2> QED BY <2>1, <2>2, <2>4
<1> QED BY <1>1, <1>2, InvAlways, PTL DEF Spec, RefinesMirror, Mirror!Spec

-----------------------------------------------------------------------------
(* The inductive invariant of ObsidianBridge.                              *)

(* What the client's state says agrees with its socket.                    *)
Phases ==
  /\ client.sock = "none" => client.status = "idle" /\ ~client.hello
  /\ client.sock = "connecting" => client.status = "connecting"
  /\ client.sock = "open" => client.status \in {"hello_sent", "ready"}
  /\ client.sock = "closing" => client.status \in {"connecting", "hello_sent", "ready"}
  /\ client.sock = "closed" => client.status \in {"error", "disconnected"}
  /\ client.status \in {"hello_sent", "ready"} => client.hello

(* A request in flight belongs to the configuration that is served, and    *)
(* nobody has been answered yet.                                           *)
InFlight ==
  \A q \in Requests : req[q].state = "running" => req[q].from = client.config /\ req[q].to = 0

(* A snapshot that is no longer so waits for its flush, and a runtime that *)
(* nobody listens for yet was told nothing over this socket.               *)
Aged ==
  /\ ctx.snapshot = "old" => ctx.flush
  /\ client.sock = "open" /\ ~client.watching => ctx.held = "none"

BridgeInv ==
  /\ BridgeTypeOK /\ AvailableSound /\ NewestServed /\ AnsweredWhereAsked /\ HeldFresh
  /\ Phases /\ available = (client.status = "ready") /\ InFlight /\ Aged

-----------------------------------------------------------------------------
(* The newest configuration.                                               *)

LEMMA MaxOfBounded ==
  ASSUME NEW n \in Nat, NEW S \in SUBSET (0..n), S # {}
  PROVE  Max(S) \in S /\ \A y \in S : Max(S) >= y
<1> DEFINE T == {n - x : x \in S}
<1>0. \A x \in S : x \in 0..n /\ n - x \in Nat
  OBVIOUS
<1>1. T \subseteq Nat /\ T # {}
  BY <1>0
<1>2. PICK t \in T : \A u \in T : ~(<<u, t>> \in OpToRel(<, Nat))
  BY <1>1, NatLessThanWellFounded, WFMin
<1>3. \A u \in T : ~(u < t)
  BY <1>1, <1>2 DEF OpToRel
<1>4. PICK x \in S : t = n - x
  OBVIOUS
<1>5. \A y \in S : x >= y
  <2> TAKE y \in S
  <2>1. n - y \in T
    OBVIOUS
  <2>2. ~(n - y < n - x)
    BY <1>3, <1>4, <2>1
  <2> QED BY <1>0, <2>2
<1> QED BY <1>5 DEF Max

LEMMA NewestType == ASSUME BridgeTypeOK PROVE Newest \in 0..MaxConfigs
<1>1. {0} \cup {owners[o] : o \in Owners} \in SUBSET (0..MaxConfigs)
  BY BridgeAssumption DEF BridgeTypeOK
<1> QED BY <1>1, MaxOfBounded, BridgeAssumption DEF Newest

-----------------------------------------------------------------------------
(* Types.                                                                  *)

LEMMA NoClientType == NoClient \in Clients
<1>1. 0 \in 0..MaxConfigs /\ 0 \in Nat
  BY BridgeAssumption
<1> QED BY <1>1, Zenon DEF NoClient, Clients

LEMMA ConnectingType ==
  ASSUME NEW c \in Clients
  PROVE  Connecting(c) \in Clients
BY Zenon DEF Connecting, Clients

LEMMA DisconnectedType ==
  ASSUME NEW c \in Clients
  PROVE  Disconnected(c) \in Clients
BY Zenon DEF Disconnected, Clients

LEMMA AbortedType ==
  ASSUME BridgeTypeOK
  PROVE  Aborted \in [Requests -> Invocations]
<1>1. ASSUME NEW q \in Requests
      PROVE  [req[q] EXCEPT !.state = "done"] \in Invocations
  <2>1. req[q] \in Invocations
    BY DEF BridgeTypeOK
  <2> QED BY <2>1, Zenon DEF Invocations
<1> QED BY <1>1 DEF Aborted, BridgeTypeOK

LEMMA CapturedType ==
  ASSUME BridgeTypeOK
  PROVE  /\ Flushed \in [flush : BOOLEAN, snapshot : Copies, held : Copies]
         /\ Captured \in [flush : BOOLEAN, snapshot : Copies, held : Copies]
<1>1. Flushed \in [flush : BOOLEAN, snapshot : Copies, held : Copies]
  <2>1. /\ [ctx EXCEPT !.flush = FALSE, !.snapshot = "none", !.held = "none"]
             \in [flush : BOOLEAN, snapshot : Copies, held : Copies]
        /\ [ctx EXCEPT !.flush = FALSE, !.snapshot = "none", !.held = @]
             \in [flush : BOOLEAN, snapshot : Copies, held : Copies]
    BY Zenon DEF BridgeTypeOK, Copies
  <2> QED BY <2>1 DEF Flushed, BridgeTypeOK
<1>2. [Flushed EXCEPT !.snapshot = "fresh"] \in [flush : BOOLEAN, snapshot : Copies, held : Copies]
  BY <1>1, Zenon DEF Copies
<1>3. [Flushed EXCEPT !.snapshot = @] \in [flush : BOOLEAN, snapshot : Copies, held : Copies]
  BY <1>1
<1> QED BY <1>1, <1>2, <1>3 DEF Captured

-----------------------------------------------------------------------------
(* The invariant is preserved: the client.                                 *)

LEMMA OpenedStep == ASSUME BridgeInv, Opened PROVE BridgeInv'
<1>1. client \in Clients /\ client.sock = "connecting"
  BY DEF BridgeInv, BridgeTypeOK, Opened
<1>2. [client EXCEPT !.status = "hello_sent", !.sock = "open", !.hello = TRUE, !.grace = client.grace + 1] \in Clients
  <2>1. client.grace + 1 \in Nat
    BY <1>1 DEF Clients
  <2> QED BY <1>1, <2>1, Zenon DEF Clients
<1>3. /\ client' \in Clients
      /\ client'.status = "hello_sent" /\ client'.sock = "open" /\ client'.hello
      /\ client'.config = client.config /\ client'.retry = client.retry /\ client'.watching = client.watching
  BY <1>1, <1>2 DEF Opened, Become, Clients
<1>4. /\ available' = FALSE /\ agreed' = [print |-> TRUE, told |-> TRUE]
      /\ ctx' = [ctx EXCEPT !.held = "none"]
      /\ UNCHANGED <<owners, seq, due, disposed, req, closes>>
  BY <1>3 DEF Opened, Become
<1> USE BridgeAssumption
    DEF BridgeInv, BridgeTypeOK, AvailableSound, NewestServed, AnsweredWhereAsked, HeldFresh, Phases, InFlight,
        Aged, Listening, Copies, Clients, Newest, pushed
<1>5. BridgeTypeOK' /\ AvailableSound'
  BY <1>1, <1>3, <1>4
<1>6. (Phases /\ available = (client.status = "ready"))' /\ Aged' /\ HeldFresh'
  BY <1>1, <1>3, <1>4
<1>7. NewestServed' /\ AnsweredWhereAsked' /\ InFlight'
  BY <1>1, <1>3, <1>4
<1> QED BY <1>5, <1>6, <1>7

LEMMA GraceEndsStep == ASSUME BridgeInv, GraceEnds PROVE BridgeInv'
<1>1. client \in Clients /\ client.grace > 0
  BY DEF BridgeInv, BridgeTypeOK, GraceEnds
<1> DEFINE c == [client EXCEPT !.grace = client.grace - 1]
           d == IF c.status = "hello_sent" THEN [c EXCEPT !.status = "ready", !.watching = TRUE] ELSE c
<1>2. c \in Clients
  <2>1. client.grace - 1 \in Nat
    BY <1>1 DEF Clients
  <2> QED BY <1>1, <2>1, Zenon DEF Clients
<1>3. d \in Clients
  BY <1>2, Zenon DEF Clients
<1>4. /\ client' = d /\ available' = (d.status = "ready")
      /\ UNCHANGED <<owners, seq, due, disposed, req, closes, pushed>>
  BY DEF GraceEnds, Become
<1>5. /\ c.status = client.status /\ c.watching = client.watching /\ c.sock = client.sock
      /\ c.hello = client.hello /\ c.config = client.config /\ c.retry = client.retry
  BY <1>1, Zenon DEF Clients
<1> HIDE DEF c
<1>6. /\ IF client.status = "hello_sent" THEN d.status = "ready" /\ d.watching = TRUE
         ELSE d.status = client.status /\ d.watching = client.watching
      /\ d.sock = client.sock /\ d.hello = client.hello /\ d.config = client.config /\ d.retry = client.retry
  BY <1>2, <1>5 DEF Clients
<1> HIDE DEF d
<1> USE BridgeAssumption
    DEF BridgeInv, BridgeTypeOK, AvailableSound, NewestServed, AnsweredWhereAsked, HeldFresh, Phases, InFlight,
        Aged, Listening, Copies, Clients, Newest, pushed
<1>7. BridgeTypeOK' /\ AvailableSound'
  BY <1>1, <1>3, <1>4, <1>6
<1>8. (Phases /\ available = (client.status = "ready"))' /\ Aged' /\ HeldFresh'
  BY <1>1, <1>3, <1>4, <1>6
<1>9. NewestServed' /\ AnsweredWhereAsked' /\ InFlight'
  BY <1>1, <1>3, <1>4, <1>6
<1> QED BY <1>7, <1>8, <1>9

LEMMA DropStep == ASSUME BridgeInv, Drop PROVE BridgeInv'
<1>1. client \in Clients /\ client.sock \in {"connecting", "open"}
  BY DEF BridgeInv, BridgeTypeOK, Drop
<1>2. client' \in Clients
  BY <1>1, Zenon DEF Drop, Clients
<1>3. /\ client'.sock = "closing" /\ client'.status = client.status /\ client'.hello = client.hello
      /\ client'.config = client.config /\ client'.retry = client.retry /\ client'.watching = client.watching
  BY <1>1 DEF Drop, Clients
<1>4. closes' \in 0..MaxCloses /\ UNCHANGED <<owners, seq, due, disposed, available, req, pushed>>
  BY BridgeAssumption DEF Drop, BridgeInv, BridgeTypeOK
<1> USE BridgeAssumption
    DEF BridgeInv, BridgeTypeOK, AvailableSound, NewestServed, AnsweredWhereAsked, HeldFresh, Phases, InFlight,
        Aged, Listening, Copies, Clients, Newest, pushed
<1>5. BridgeTypeOK' /\ AvailableSound'
  BY <1>1, <1>2, <1>3, <1>4, ZenonT(30)
<1>6. (Phases /\ available = (client.status = "ready"))' /\ Aged' /\ HeldFresh'
  BY <1>1, <1>2, <1>3, <1>4
<1>7. NewestServed' /\ AnsweredWhereAsked' /\ InFlight'
  BY <1>1, <1>2, <1>3, <1>4
<1> QED BY <1>5, <1>6, <1>7

LEMMA ClosedStep == ASSUME BridgeInv, NEW terminal \in BOOLEAN, Closed(terminal) PROVE BridgeInv'
<1>1. client \in Clients /\ client.sock = "closing"
  BY DEF BridgeInv, BridgeTypeOK, Closed
<1> DEFINE c == [client EXCEPT !.sock = "closed", !.watching = FALSE, !.retry = ~terminal, !.hello = FALSE,
                               !.status = IF terminal THEN "error" ELSE "disconnected"]
<1>2. c \in Clients
  BY <1>1, Zenon DEF Clients
<1>3. /\ c.sock = "closed" /\ c.watching = FALSE /\ c.hello = FALSE
      /\ c.status \in {"error", "disconnected"} /\ c.config = client.config
  BY <1>1, Zenon DEF Clients
<1>4. /\ client' = c /\ available' = (c.status = "ready")
      /\ UNCHANGED <<owners, seq, due, disposed, req, closes, pushed>>
  BY Zenon DEF Closed, Become
<1> HIDE DEF c
<1> USE BridgeAssumption
    DEF BridgeInv, BridgeTypeOK, AvailableSound, NewestServed, AnsweredWhereAsked, HeldFresh, Phases, InFlight,
        Aged, Listening, Copies, Clients, Newest, pushed
<1>5. BridgeTypeOK' /\ AvailableSound'
  BY <1>1, <1>2, <1>3, <1>4
<1>6. (Phases /\ available = (client.status = "ready"))' /\ Aged' /\ HeldFresh'
  BY <1>1, <1>2, <1>3, <1>4
<1>7. NewestServed' /\ AnsweredWhereAsked' /\ InFlight'
  BY <1>1, <1>2, <1>3, <1>4
<1> QED BY <1>5, <1>6, <1>7

LEMMA ConnectingEffect ==
  ASSUME NEW c \in Clients
  PROVE  /\ Connecting(c) \in Clients
         /\ Connecting(c).status = "connecting" /\ Connecting(c).sock = "connecting"
         /\ Connecting(c).config = c.config /\ Connecting(c).retry = c.retry
         /\ Connecting(c).watching = c.watching
BY ConnectingType, Zenon DEF Connecting, Clients

LEMMA ConnectEffect ==
  ASSUME BridgeInv, NEW c \in Clients, Connect(c)
  PROVE  /\ client' \in Clients /\ client'.config = c.config /\ client'.watching = c.watching
         /\ available' = FALSE /\ closes' \in 0..MaxCloses
         /\ \/ /\ client'.status = "connecting" /\ client'.sock = "connecting" /\ client'.retry = c.retry
            \/ /\ client'.status = "error" /\ client'.sock = "closed" /\ client'.retry = TRUE
<1>1. CASE Become(Connecting(c)) /\ UNCHANGED closes
  BY <1>1, ConnectingEffect DEF Become, BridgeInv, BridgeTypeOK
<1>2. CASE closes < MaxCloses /\ closes' = closes + 1 /\ Become(Refused(c))
  <2>1. /\ Refused(c) \in Clients /\ Refused(c).status = "error" /\ Refused(c).sock = "closed"
        /\ Refused(c).config = c.config /\ Refused(c).retry = TRUE /\ Refused(c).watching = c.watching
    BY Zenon DEF Refused, Clients
  <2>2. closes' \in 0..MaxCloses
    BY <1>2, BridgeAssumption DEF BridgeInv, BridgeTypeOK
  <2>3. client' = Refused(c) /\ available' = FALSE
    BY <1>2, <2>1 DEF Become
  <2> QED BY <2>1, <2>2, <2>3
<1> QED BY <1>1, <1>2 DEF Connect

LEMMA RetryFiresStep == ASSUME BridgeInv, RetryFires PROVE BridgeInv'
<1> DEFINE c == [client EXCEPT !.retry = FALSE]
<1>1. client \in Clients /\ client.retry
  BY DEF BridgeInv, BridgeTypeOK, RetryFires
<1>2. c \in Clients /\ c.config = client.config /\ c.retry = FALSE /\ c.watching = client.watching
  BY <1>1, Zenon DEF Clients
<1>3. Connect(c) /\ UNCHANGED <<owners, seq, due, disposed, req, pushed>>
  BY DEF RetryFires
<1> HIDE DEF c
<1>4. /\ client' \in Clients /\ client'.config = client.config /\ client'.watching = client.watching
      /\ available' = FALSE /\ closes' \in 0..MaxCloses
      /\ \/ client'.status = "connecting" /\ client'.sock = "connecting" /\ client'.retry = FALSE
         \/ client'.status = "error" /\ client'.sock = "closed"
  BY <1>2, <1>3, ConnectEffect
<1> USE BridgeAssumption
    DEF BridgeInv, BridgeTypeOK, AvailableSound, NewestServed, AnsweredWhereAsked, HeldFresh, Phases, InFlight,
        Aged, Listening, Copies, Clients, Newest, pushed
<1>5. BridgeTypeOK' /\ AvailableSound'
  BY <1>1, <1>3, <1>4
<1>6. (Phases /\ available = (client.status = "ready"))' /\ Aged' /\ HeldFresh'
  BY <1>1, <1>3, <1>4
<1>7. NewestServed' /\ AnsweredWhereAsked' /\ InFlight'
  BY <1>1, <1>3, <1>4
<1> QED BY <1>5, <1>6, <1>7

-----------------------------------------------------------------------------
(* The invariant is preserved: the coordinator.                            *)

LEMMA OwnersStep ==
  ASSUME BridgeInv, (\E o \in Owners : Configure(o) \/ Remove({o})) \/ Remove(Owners) \/ DisposeBridge
  PROVE  BridgeInv'
<1>1. 0 \in 0..MaxConfigs /\ (seq < MaxConfigs => seq + 1 \in 0..MaxConfigs)
  BY BridgeAssumption DEF BridgeInv, BridgeTypeOK
<1>2. owners' \in [Owners -> 0..MaxConfigs] /\ seq' \in 0..MaxConfigs /\ disposed' \in BOOLEAN
  BY <1>1 DEF BridgeInv, BridgeTypeOK, Configure, Remove, DisposeBridge
<1>3. due' = TRUE /\ UNCHANGED <<client, available, req, closes, pushed>>
  BY DEF Configure, Remove, DisposeBridge
<1>4. BridgeTypeOK'
  BY <1>2, <1>3 DEF BridgeInv, BridgeTypeOK, pushed
<1> USE BridgeAssumption
    DEF BridgeInv, BridgeTypeOK, AvailableSound, NewestServed, AnsweredWhereAsked, HeldFresh, Phases, InFlight,
        Aged, Listening, Copies, Clients, Newest, pushed
<1>5. AvailableSound'
  BY <1>2, <1>3
<1>6. (Phases /\ available = (client.status = "ready"))' /\ Aged' /\ HeldFresh'
  BY <1>2, <1>3
<1>7. NewestServed' /\ AnsweredWhereAsked' /\ InFlight'
  BY <1>2, <1>3
<1> QED BY <1>4, <1>5, <1>6, <1>7

(* Aborting leaves nothing in flight, and changes no answer.               *)
LEMMA AbortedEffect ==
  ASSUME BridgeTypeOK
  PROVE  /\ Aborted \in [Requests -> Invocations]
         /\ \A q \in Requests : /\ Aborted[q].state # "running"
                                /\ Aborted[q].to = req[q].to /\ Aborted[q].from = req[q].from
<1>1. ASSUME NEW q \in Requests
      PROVE  /\ Aborted[q].state # "running"
             /\ Aborted[q].to = req[q].to /\ Aborted[q].from = req[q].from
  <2>1. req[q] \in Invocations /\ Aborted[q] = IF req[q].state = "running" THEN [req[q] EXCEPT !.state = "done"] ELSE req[q]
    BY DEF BridgeTypeOK, Aborted
  <2> QED BY <2>1 DEF Invocations
<1> QED BY <1>1, AbortedType

LEMMA ReconcileStep == ASSUME BridgeInv, Reconcile PROVE BridgeInv'
<1>1. client \in Clients /\ Newest \in 0..MaxConfigs
  BY NewestType DEF BridgeInv, BridgeTypeOK
<1>2. due' = FALSE /\ UNCHANGED <<owners, seq, disposed, pushed>> /\ UNCHANGED Newest
  BY DEF Reconcile, Newest
<1>3. CASE client.config = Newest /\ UNCHANGED <<client, available, req, closes>>
  <2>1. BridgeTypeOK'
    BY <1>2, <1>3 DEF BridgeInv, BridgeTypeOK, pushed
  <2> USE BridgeAssumption
      DEF BridgeInv, BridgeTypeOK, AvailableSound, NewestServed, AnsweredWhereAsked, HeldFresh, Phases, InFlight,
          Aged, Listening, Copies, Clients, Newest, pushed
  <2>2. AvailableSound'
    BY <1>2, <1>3
  <2>3. (Phases /\ available = (client.status = "ready"))' /\ Aged' /\ HeldFresh'
    BY <1>2, <1>3
  <2>4. NewestServed' /\ AnsweredWhereAsked' /\ InFlight'
    BY <1>2, <1>3
  <2> QED BY <2>1, <2>2, <2>3, <2>4
<1>4. CASE ~(client.config = Newest /\ UNCHANGED <<client, available, req, closes>>)
  <2>1. req' = Aborted
    BY <1>4 DEF Reconcile
  <2>2. /\ client' \in Clients /\ client'.config = Newest
        /\ \/ client'.sock = "none" /\ client'.status = "idle" /\ client'.hello = FALSE
           \/ client'.sock = "connecting" /\ client'.status = "connecting"
           \/ client'.sock = "closed" /\ client'.status = "error"
        /\ client'.sock # "closed" => client'.retry = FALSE
        /\ client'.watching = FALSE /\ available' = FALSE /\ closes' \in 0..MaxCloses
    <3>1. CASE Newest = 0
      <4>1. client' = NoClient /\ available' = (NoClient.status = "ready") /\ closes' \in 0..MaxCloses
        BY <3>1, <1>4 DEF Reconcile, Become, BridgeInv, BridgeTypeOK
      <4>2. /\ NoClient.config = 0 /\ NoClient.sock = "none" /\ NoClient.status = "idle"
            /\ NoClient.hello = FALSE /\ NoClient.retry = FALSE /\ NoClient.watching = FALSE
        BY DEF NoClient
      <4> QED BY <3>1, <4>1, <4>2, NoClientType
    <3>2. CASE Newest # 0
      <4> DEFINE c == [Disconnected(client) EXCEPT !.config = Newest]
      <4>1. c \in Clients
        BY <1>1, DisconnectedType, Zenon DEF Clients
      <4>2. c.config = Newest /\ c.retry = FALSE /\ c.watching = FALSE
        BY <1>1, DisconnectedType, Zenon DEF Disconnected, Clients
      <4>3. Connect(c)
        BY <3>2, <1>4 DEF Reconcile
      <4> HIDE DEF c
      <4> QED BY <4>1, <4>2, <4>3, ConnectEffect
    <3> QED BY <3>1, <3>2
  <2>3. req' \in [Requests -> Invocations]
    BY <2>1, AbortedEffect DEF BridgeInv
  <2>4. \A q \in Requests : req'[q].state # "running" /\ req'[q].to = req[q].to /\ req'[q].from = req[q].from
    BY <2>1, AbortedEffect DEF BridgeInv
  <2> USE BridgeAssumption
      DEF BridgeInv, BridgeTypeOK, AvailableSound, NewestServed, AnsweredWhereAsked, HeldFresh, Phases, InFlight,
          Aged, Listening, Copies, Clients, Newest, pushed
  <2>5. BridgeTypeOK' /\ AvailableSound'
    BY <1>1, <1>2, <2>2, <2>3, <2>4
  <2>6. (Phases /\ available = (client.status = "ready"))' /\ Aged' /\ HeldFresh'
    BY <1>1, <1>2, <2>2, <2>3, <2>4
  <2>7. NewestServed' /\ AnsweredWhereAsked' /\ InFlight'
    BY <1>1, <1>2, <2>2, <2>3, <2>4
  <2> QED BY <2>5, <2>6, <2>7
<1> QED BY <1>3, <1>4

-----------------------------------------------------------------------------
(* The invariant is preserved: requests, and what is pushed.               *)

(* What a capture leaves is fresh, and its flush is done.                  *)
LEMMA CapturedEffect ==
  ASSUME BridgeInv
  PROVE  /\ Captured \in [flush : BOOLEAN, snapshot : Copies, held : Copies]
         /\ Captured.snapshot = "fresh" /\ Captured.flush = FALSE
         /\ Captured.held = IF ctx.flush /\ Listening THEN "none" ELSE ctx.held
         /\ Flushed \in [flush : BOOLEAN, snapshot : Copies, held : Copies]
         /\ Flushed.snapshot \in {"none", "fresh"} /\ Flushed.flush = FALSE
         /\ Flushed.held = IF ctx.flush /\ Listening THEN "none" ELSE ctx.held
<1>1. /\ Flushed \in [flush : BOOLEAN, snapshot : Copies, held : Copies]
      /\ Captured \in [flush : BOOLEAN, snapshot : Copies, held : Copies]
  BY CapturedType DEF BridgeInv
<1>2. /\ Flushed.snapshot \in {"none", "fresh"} /\ Flushed.flush = FALSE
      /\ Flushed.held = IF ctx.flush /\ Listening THEN "none" ELSE ctx.held
  BY DEF Flushed, BridgeInv, BridgeTypeOK, Aged, Copies
<1>3. Captured.snapshot = "fresh" /\ Captured.flush = Flushed.flush /\ Captured.held = Flushed.held
  BY <1>1, <1>2 DEF Captured
<1> QED BY <1>1, <1>2, <1>3

LEMMA InvokeStep == ASSUME BridgeInv, NEW r \in Requests, Invoke(r) PROVE BridgeInv'
<1>1. client.config \in 0..MaxConfigs /\ 0 \in 0..MaxConfigs
  BY BridgeAssumption DEF BridgeInv, BridgeTypeOK, Clients
<1> DEFINE i == [state |-> "running", from |-> client.config, to |-> 0]
<1>2. i \in Invocations /\ i.state = "running" /\ i.from = client.config /\ i.to = 0
  BY <1>1, Zenon DEF Invocations
<1>3. /\ req' = [req EXCEPT ![r] = i]
      /\ UNCHANGED <<owners, seq, due, disposed, client, available, closes, pushed>>
  BY DEF Invoke
<1> HIDE DEF i
<1>4. BridgeTypeOK'
  BY <1>2, <1>3 DEF BridgeInv, BridgeTypeOK, pushed
<1> USE BridgeAssumption
    DEF BridgeInv, BridgeTypeOK, AvailableSound, NewestServed, AnsweredWhereAsked, HeldFresh, Phases, InFlight,
        Aged, Listening, Copies, Clients, Newest, pushed
<1>5. AvailableSound'
  BY <1>2, <1>3
<1>6. (Phases /\ available = (client.status = "ready"))' /\ Aged' /\ HeldFresh'
  BY <1>2, <1>3
<1>7. NewestServed' /\ AnsweredWhereAsked' /\ InFlight'
  BY <1>2, <1>3
<1> QED BY <1>4, <1>5, <1>6, <1>7

LEMMA SettleStep == ASSUME BridgeInv, NEW r \in Requests, Settle(r) PROVE BridgeInv'
<1>1. client.config \in 0..MaxConfigs /\ 0 \in 0..MaxConfigs /\ req[r] \in Invocations
  BY BridgeAssumption DEF BridgeInv, BridgeTypeOK, Clients
<1> DEFINE i == [req[r] EXCEPT !.state = "done", !.to = IF client.sock = "open" THEN client.config ELSE 0]
<1>2. i \in Invocations
  BY <1>1, Zenon DEF Invocations
<1>3. i.state = "done" /\ i.from = req[r].from /\ i.to \in {0, client.config}
  BY <1>1, Zenon DEF Invocations
<1>4. req' = [req EXCEPT ![r] = i] /\ req[r].state = "running"
  BY DEF Settle, BridgeInv, BridgeTypeOK
<1>5. UNCHANGED <<owners, seq, due, disposed, client, available, closes, agreed>>
  BY DEF Settle
<1>6. /\ ctx' \in [flush : BOOLEAN, snapshot : Copies, held : Copies]
      /\ \/ UNCHANGED ctx
         \/ /\ ctx'.snapshot = "fresh"
            /\ ctx'.held = IF Listening THEN "fresh" ELSE ctx.held
  <2>1. CASE UNCHANGED ctx
    BY <2>1 DEF BridgeInv, BridgeTypeOK
  <2>2. CASE ctx' = [Captured EXCEPT !.held = IF Listening THEN Captured.snapshot ELSE Captured.held]
    BY <2>2, CapturedEffect DEF Copies
  <2> QED BY <2>1, <2>2 DEF Settle
<1> HIDE DEF i
<1> USE BridgeAssumption
    DEF BridgeInv, BridgeTypeOK, AvailableSound, NewestServed, AnsweredWhereAsked, HeldFresh, Phases, InFlight,
        Aged, Listening, Copies, Clients, Newest, pushed
<1>7. BridgeTypeOK' /\ AvailableSound'
  BY <1>1, <1>2, <1>3, <1>4, <1>5, <1>6, ZenonT(30)
<1>8. (Phases /\ available = (client.status = "ready"))' /\ Aged' /\ HeldFresh'
  BY <1>1, <1>2, <1>3, <1>4, <1>5, <1>6
<1>9. NewestServed' /\ AnsweredWhereAsked' /\ InFlight'
  BY <1>1, <1>2, <1>3, <1>4, <1>5, <1>6
<1> QED BY <1>7, <1>8, <1>9

LEMMA ContextStep == ASSUME BridgeInv, Change \/ Flush \/ Capture \/ Watch \/ Toggle PROVE BridgeInv'
<1>1. UNCHANGED <<owners, seq, due, disposed, client, available, req, closes>>
  BY DEF Change, Flush, Capture, Watch, Toggle
<1>2. agreed' \in [print : BOOLEAN, told : BOOLEAN]
  <2>1. ASSUME NEW back \in BOOLEAN
        PROVE  [print |-> ~agreed.print /\ back, told |-> ~agreed.told /\ back] \in [print : BOOLEAN, told : BOOLEAN]
    OBVIOUS
  <2>2. CASE Toggle
    BY <2>1, <2>2 DEF Toggle
  <2>3. CASE Watch
    BY <2>3 DEF Watch
  <2>4. CASE Change \/ Flush \/ Capture
    BY <2>4 DEF Change, Flush, Capture, BridgeInv, BridgeTypeOK
  <2> QED BY <2>2, <2>3, <2>4
<1>3. /\ ctx' \in [flush : BOOLEAN, snapshot : Copies, held : Copies]
      /\ \/ UNCHANGED ctx
         \/ ctx'.flush = TRUE /\ (ctx'.held = "none" <=> ctx.held = "none")
         \/ ctx'.snapshot # "old" /\ ctx'.held = (IF ctx.flush /\ Listening THEN "none" ELSE ctx.held)
  <2>1. CASE Change
    BY <2>1 DEF Change, BridgeInv, BridgeTypeOK, Copies
  <2>2. CASE Flush
    BY <2>2, CapturedEffect DEF Flush
  <2>3. CASE Capture
    BY <2>3, CapturedEffect DEF Capture
  <2>4. CASE Watch
    BY <2>4 DEF Watch, BridgeInv, BridgeTypeOK, Copies
  <2>5. CASE Toggle
    BY <2>5 DEF Toggle, BridgeInv, BridgeTypeOK
  <2> QED BY <2>1, <2>2, <2>3, <2>4, <2>5
<1> USE BridgeAssumption
    DEF BridgeInv, BridgeTypeOK, AvailableSound, NewestServed, AnsweredWhereAsked, HeldFresh, Phases, InFlight,
        Aged, Listening, Copies, Clients, Newest, pushed
<1>4. BridgeTypeOK' /\ AvailableSound'
  BY <1>1, <1>2, <1>3
<1>5. (Phases /\ available = (client.status = "ready"))' /\ Aged' /\ HeldFresh'
  BY <1>1, <1>2, <1>3
<1>6. NewestServed' /\ AnsweredWhereAsked' /\ InFlight'
  BY <1>1, <1>2, <1>3
<1> QED BY <1>4, <1>5, <1>6

-----------------------------------------------------------------------------
(* The results about ObsidianBridge.                                       *)

LEMMA BridgeInitInv == BridgeInit => BridgeInv
<1> SUFFICES ASSUME BridgeInit PROVE BridgeInv
  OBVIOUS
<1>1. 0 \in 0..MaxConfigs /\ 0 \in 0..MaxCloses
  BY BridgeAssumption
<1>2. BridgeTypeOK
  <2>1. \A q \in Requests : [state |-> "new", from |-> 0, to |-> 0] \in Invocations
    BY <1>1, Zenon DEF Invocations
  <2> QED BY <1>1, <2>1, NoClientType DEF BridgeInit, BridgeTypeOK, Copies
<1>3. Newest = 0
  <2>1. {0} \cup {owners[o] : o \in Owners} = {0}
    BY DEF BridgeInit
  <2>2. Max({0}) = 0
    BY DEF Max
  <2> QED BY <2>1, <2>2 DEF Newest
<1>4. /\ client.sock = "none" /\ client.status = "idle" /\ client.config = 0
      /\ client.retry = FALSE /\ client.watching = FALSE /\ client.hello = FALSE
  BY DEF BridgeInit, NoClient
<1> QED
  BY <1>2, <1>3, <1>4 DEF BridgeInit, BridgeInv, AvailableSound, NewestServed, AnsweredWhereAsked, HeldFresh,
    Phases, InFlight, Aged, Listening

LEMMA BridgeNextInv == BridgeInv /\ [BridgeNext]_bridgeVars => BridgeInv'
<1> SUFFICES ASSUME BridgeInv, [BridgeNext]_bridgeVars PROVE BridgeInv'
  OBVIOUS
<1>1. CASE UNCHANGED bridgeVars
  <2>1. BridgeTypeOK'
    BY <1>1 DEF bridgeVars, pushed, BridgeInv, BridgeTypeOK
  <2>2. UNCHANGED Newest
    BY <1>1 DEF bridgeVars, Newest
  <2> QED
    BY <1>1, <2>1, <2>2 DEF bridgeVars, pushed, BridgeInv, AvailableSound, NewestServed, AnsweredWhereAsked,
      HeldFresh, Phases, InFlight, Aged, Listening
<1> QED
  BY <1>1, OpenedStep, GraceEndsStep, DropStep, ClosedStep, RetryFiresStep, OwnersStep, ReconcileStep,
    InvokeStep, SettleStep, ContextStep DEF BridgeNext

(* What holds of every state of the bridge: the inductive invariant.       *)
THEOREM BridgeInvAlways == BridgeSpec => []BridgeInv
BY BridgeInitInv, BridgeNextInv, PTL DEF BridgeSpec

(* Whichever views come, go and get new tokens, and whenever sockets open, *)
(* fail and are replaced: the bridge is available only over a socket that  *)
(* has said hello, it serves the newest view that is left once it has      *)
(* reconciled, and no view is answered what another one asked.             *)
THEOREM BridgeSoundAlways == BridgeSpec => []BridgeSound
<1>1. BridgeInv => BridgeSound
  BY DEF BridgeInv, BridgeSound
<1> QED BY <1>1, BridgeInvAlways, PTL

(* What the runtime read over an available bridge is still so, or a flush  *)
(* is due that will tell it otherwise.                                     *)
THEOREM HeldFreshAlways == BridgeSpec => []HeldFresh
<1>1. BridgeInv => HeldFresh
  BY DEF BridgeInv
<1> QED BY <1>1, BridgeInvAlways, PTL
=============================================================================
