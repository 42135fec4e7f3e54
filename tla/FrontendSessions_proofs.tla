----------------------- MODULE FrontendSessions_proofs -----------------------
(* Proofs about FrontendSessions, for all channels, attempts and runtimes, *)
(* as far as old sockets close in time and credentials are accepted.       *)
EXTENDS FrontendSessions, TLAPS

-----------------------------------------------------------------------------
(* The inductive invariant.                                                *)

Going(x) == x.pc \in {"replacing", "connecting"}
Alive(x) == x.sock # "none" \/ x.timer

(* The transport of an entry and the connection that is being made for it: *)
(* a socket needs a transport, and one attempt is made at a time.          *)
Shape(x) ==
  /\ ~x.leaked
  /\ x.pc = "idle" => x.joined = {} /\ x.queued = {}
  /\ x.pc = "connecting" => x.sock = "hello"
  /\ x.pc \in {"replacing", "abandoned"} => ~Alive(x)
  /\ Going(x) => x.has
  /\ x.timer => x.sock = "none" /\ x.tries < MaxAttempts
  /\ ~x.has => ~Alive(x)
  /\ x.life \in {"closing", "gone"} => ~Alive(x) /\ ~Going(x)

(* What a channel knows of runtimes, when r is bound: a connection that is *)
(* being made for an earlier one has somebody who waits to begin anew.     *)
Follows(x, r) ==
  /\ x.life = "new" => x.pc = "idle" /\ ~x.has
  /\ x.rid <= r
  /\ x.rid = r /\ r # 0 => x.url = r
  /\ x.pc # "idle" => x.rid <= x.rt /\ (x.stale \/ x.rt = r)
  /\ x.pc = "connecting" => x.url = x.rt
  /\ Going(x) => r # 0 /\ x.rt <= r /\ (x.rt # r => x.queued # {})
  /\ x.pc = "idle" /\ Alive(x) => x.url = r

Inv ==
  /\ TypeOK
  /\ \A x \in All : Shape(e[x])
  /\ \A c \in Channels : Follows(e[c], rt)
  /\ e[Utility].queued = {} /\ e[Utility].life = "new"
  /\ rt <= spent.runtimes /\ up \in {0, spent.runtimes}

-----------------------------------------------------------------------------
(* What the operators do to an entry.                                      *)

Owned(x, y) == y.life = x.life /\ y.rid = x.rid /\ y.leaked = x.leaked
Wired(x, y) == y.has = x.has /\ y.url = x.url
Flying(x, y) == y.rt = x.rt /\ y.stale = x.stale /\ y.joined = x.joined /\ y.queued = x.queued

LEMMA Fields ==
  ASSUME NEW x \in Entries
  PROVE  /\ x.life \in {"new", "registered", "closing", "gone"} /\ x.rid \in 0..MaxRuntimes
         /\ x.has \in BOOLEAN /\ x.url \in 0..MaxRuntimes
         /\ x.sock \in {"none", "hello", "open", "deaf"} /\ x.timer \in BOOLEAN
         /\ x.tries \in 0..MaxAttempts /\ x.leaked \in BOOLEAN
         /\ x.pc \in {"idle", "replacing", "connecting", "abandoned"} /\ x.rt \in 0..MaxRuntimes
         /\ x.stale \in BOOLEAN /\ x.joined \in SUBSET Callers /\ x.queued \in SUBSET Callers
BY DEF Entries

LEMMA Zero == 0 \in 0..MaxRuntimes /\ 0 \in 0..MaxAttempts
BY ConstantAssumption

LEMMA OpenIs ==
  ASSUME NEW x \in Entries, NEW event \in {"connect", "retry"}, x.sock = "none",
         event = "retry" => x.tries < MaxAttempts
  PROVE  LET y == Open(x, event)
         IN /\ y \in Entries /\ Owned(x, y) /\ Wired(x, y) /\ Flying(x, y) /\ y.pc = x.pc
            /\ y.sock = "hello" /\ ~y.timer
<1> DEFINE t == IF event = "connect" THEN 0 ELSE x.tries + 1
           y == [x EXCEPT !.sock = "hello", !.timer = FALSE, !.tries = t]
<1>1. t \in 0..MaxAttempts
  BY ConstantAssumption, Fields
<1>2. Open(x, event) = y
  BY DEF Open
<1> HIDE DEF t
<1>3. y \in Entries
  BY <1>1, Zenon DEF Entries
<1>4. Owned(x, y) /\ Wired(x, y)
  BY Zenon DEF Entries, Owned, Wired
<1>5. Flying(x, y)
  BY Zenon DEF Entries, Flying
<1>6. y.pc = x.pc /\ y.sock = "hello" /\ ~y.timer
  BY Zenon DEF Entries
<1> QED BY <1>2, <1>3, <1>4, <1>5, <1>6

LEMMA DisconnectIs ==
  ASSUME NEW x \in Entries
  PROVE  LET y == Disconnect(x)
         IN /\ y \in Entries /\ Owned(x, y) /\ Wired(x, y) /\ Flying(x, y)
            /\ y.pc = (IF x.pc = "connecting" THEN "abandoned" ELSE x.pc)
            /\ ~Alive(y) /\ y.tries = x.tries
<1> DEFINE pc == IF x.pc = "connecting" THEN "abandoned" ELSE x.pc
           y == [x EXCEPT !.sock = "none", !.timer = FALSE, !.pc = pc]
<1>1. pc \in {"idle", "replacing", "connecting", "abandoned"}
  BY Fields
<1>2. Disconnect(x) = y
  BY Zenon DEF Disconnect, Entries
<1> HIDE DEF pc
<1>3. y \in Entries
  BY <1>1, Zenon DEF Entries
<1>4. Owned(x, y) /\ Wired(x, y)
  BY Zenon DEF Entries, Owned, Wired
<1>5. Flying(x, y)
  BY Zenon DEF Entries, Flying
<1>6. y.pc = pc /\ y.sock = "none" /\ ~y.timer /\ y.tries = x.tries
  BY Zenon DEF Entries
<1> QED BY <1>2, <1>3, <1>4, <1>5, <1>6 DEF Alive, pc

LEMMA BrokenIs ==
  ASSUME NEW x \in Entries
  PROVE  LET y == Broken(x)
         IN /\ y \in Entries /\ Owned(x, y) /\ Wired(x, y) /\ Flying(x, y) /\ y.pc = x.pc
            /\ y.sock = "none" /\ y.timer = (x.tries < MaxAttempts) /\ y.tries = x.tries
<1> DEFINE t == x.tries < MaxAttempts
           y == [x EXCEPT !.sock = "none", !.timer = t]
<1>1. t \in BOOLEAN
  OBVIOUS
<1>2. Broken(x) = y
  BY DEF Broken
<1> HIDE DEF t
<1>3. y \in Entries
  BY <1>1, Zenon DEF Entries
<1>4. Owned(x, y) /\ Wired(x, y)
  BY Zenon DEF Entries, Owned, Wired
<1>5. Flying(x, y)
  BY Zenon DEF Entries, Flying
<1>6. y.pc = x.pc /\ y.sock = "none" /\ y.timer = t /\ y.tries = x.tries
  BY Zenon DEF Entries
<1> QED BY <1>2, <1>3, <1>4, <1>5, <1>6 DEF t

LEMMA ConnectIs ==
  ASSUME NEW x \in Entries
  PROVE  LET y == Connect(x)
         IN /\ y \in Entries /\ Owned(x, y) /\ Wired(x, y) /\ Flying(x, y) /\ y.pc = "connecting"
            /\ IF x.sock = "none" THEN y.sock = "hello" /\ ~y.timer
                                  ELSE y.sock = x.sock /\ y.timer = x.timer /\ y.tries = x.tries
<1> DEFINE z == Open(x, "connect")
           y == [z EXCEPT !.pc = "connecting"]
<1>1. /\ z \in Entries /\ Owned(x, z) /\ Wired(x, z) /\ Flying(x, z)
      /\ IF x.sock = "none" THEN z.sock = "hello" /\ ~z.timer
                            ELSE z.sock = x.sock /\ z.timer = x.timer /\ z.tries = x.tries
  <2>1. CASE x.sock = "none"
    BY <2>1, OpenIs
  <2>2. CASE x.sock # "none"
    BY <2>2 DEF Open, Owned, Wired, Flying
  <2> QED BY <2>1, <2>2
<1>2. Connect(x) = y
  BY DEF Connect
<1> HIDE DEF z
<1>3. /\ y \in Entries /\ Owned(z, y) /\ Wired(z, y) /\ Flying(z, y) /\ y.pc = "connecting"
      /\ y.sock = z.sock /\ y.timer = z.timer /\ y.tries = z.tries
  BY <1>1, Zenon DEF Entries, Owned, Wired, Flying
<1> QED BY <1>1, <1>2, <1>3 DEF Owned, Wired, Flying

LEMMA SetRuntimeIs ==
  ASSUME NEW x \in Entries
  PROVE  LET y == SetRuntime(x)
         IN /\ y \in Entries /\ Owned(x, y) /\ y.has = x.has /\ Flying(x, y)
            /\ IF x.sock # "none" THEN y.pc = "replacing" /\ ~Alive(y) /\ y.url = x.url
                                  ELSE y.pc = "connecting" /\ y.sock = "hello" /\ ~y.timer /\ y.url = x.rt
<1>1. CASE x.sock # "none"
  <2> DEFINE z == Disconnect(x)
             y == [z EXCEPT !.pc = "replacing"]
  <2>1. /\ z \in Entries /\ Owned(x, z) /\ Wired(x, z) /\ Flying(x, z) /\ ~Alive(z)
    BY DisconnectIs
  <2>2. SetRuntime(x) = y
    BY <1>1 DEF SetRuntime
  <2> HIDE DEF z
  <2>3. /\ y \in Entries /\ Owned(z, y) /\ Wired(z, y) /\ Flying(z, y) /\ y.pc = "replacing"
        /\ y.sock = z.sock /\ y.timer = z.timer
    BY <2>1, Zenon DEF Entries, Owned, Wired, Flying
  <2> QED BY <1>1, <2>1, <2>2, <2>3 DEF Owned, Wired, Flying, Alive
<1>2. CASE x.sock = "none"
  <2> DEFINE z == [x EXCEPT !.url = x.rt]
             y == Connect(z)
  <2>0. x.rt \in 0..MaxRuntimes
    BY Fields
  <2>1. /\ z \in Entries /\ Owned(x, z) /\ z.has = x.has /\ z.url = x.rt /\ Flying(x, z)
        /\ z.sock = x.sock
    BY <2>0, Zenon DEF Entries, Owned, Flying
  <2>2. SetRuntime(x) = y
    BY <1>2 DEF SetRuntime
  <2> HIDE DEF z
  <2>3. /\ y \in Entries /\ Owned(z, y) /\ Wired(z, y) /\ Flying(z, y) /\ y.pc = "connecting"
        /\ y.sock = "hello" /\ ~y.timer
    BY <1>2, <2>1, ConnectIs
  <2> QED BY <1>2, <2>1, <2>2, <2>3 DEF Owned, Wired, Flying
<1> QED BY <1>1, <1>2

(* connectEntry is at once on its way to the runtime that it was called    *)
(* for, or waits for the end of the socket to an earlier one.              *)
LEMMA ConnectEntryIs ==
  ASSUME NEW x \in Entries, Shape(x), NEW r \in 0..MaxRuntimes, NEW who \in SUBSET Callers,
         x.sock \in {"none", "hello"} \/ x.rid # r
  PROVE  LET y == ConnectEntry(x, r, who)
         IN /\ y \in Entries /\ Owned(x, y) /\ y.has
            /\ y.rt = r /\ ~y.stale /\ y.joined = who /\ y.queued = x.queued
            /\ \/ y.pc = "replacing" /\ ~Alive(y) /\ y.url = x.url /\ x.rid # r
               \/ /\ y.pc = "connecting" /\ y.sock = "hello" /\ ~y.timer
                  /\ \/ y.url = r
                     \/ x.rid = r /\ y.url = x.url
<1> DEFINE z == [x EXCEPT !.rt = r, !.stale = FALSE, !.joined = who]
<1>1. /\ z \in Entries /\ Owned(x, z) /\ Wired(x, z)
      /\ z.rt = r /\ ~z.stale /\ z.joined = who /\ z.queued = x.queued
      /\ z.pc = x.pc /\ z.sock = x.sock /\ z.timer = x.timer /\ z.tries = x.tries
  BY Zenon DEF Entries, Owned, Wired
<1>2. ConnectEntry(x, r, who) =
        IF ~x.has THEN Connect([z EXCEPT !.has = TRUE, !.url = r])
        ELSE IF x.rid # r THEN SetRuntime(z) ELSE Connect(z)
  BY DEF ConnectEntry
<1> HIDE DEF z
<1>3. CASE ~x.has
  <2> DEFINE v == [z EXCEPT !.has = TRUE, !.url = r]
  <2>1. /\ v \in Entries /\ Owned(z, v) /\ v.has /\ v.url = r /\ Flying(z, v)
        /\ v.sock = z.sock
    BY <1>1, Zenon DEF Entries, Owned, Flying
  <2>2. ConnectEntry(x, r, who) = Connect(v)
    BY <1>2, <1>3
  <2>3. v.sock = "none"
    BY <1>1, <1>3, <2>1 DEF Shape, Alive
  <2> HIDE DEF v
  <2> DEFINE y == Connect(v)
  <2>4. /\ y \in Entries /\ Owned(v, y) /\ Wired(v, y) /\ Flying(v, y) /\ y.pc = "connecting"
        /\ y.sock = "hello" /\ ~y.timer
    BY <2>1, <2>3, ConnectIs
  <2> HIDE DEF y
  <2> QED BY <1>1, <2>1, <2>2, <2>4 DEF Owned, Wired, Flying, y
<1>4. CASE x.has /\ x.rid # r
  <2> DEFINE y == SetRuntime(z)
  <2>1. ConnectEntry(x, r, who) = y
    BY <1>2, <1>4
  <2>2. /\ y \in Entries /\ Owned(z, y) /\ y.has = z.has /\ Flying(z, y)
        /\ IF z.sock # "none" THEN y.pc = "replacing" /\ ~Alive(y) /\ y.url = z.url
                              ELSE y.pc = "connecting" /\ y.sock = "hello" /\ ~y.timer /\ y.url = z.rt
    BY <1>1, SetRuntimeIs
  <2> HIDE DEF y
  <2> QED BY <1>1, <1>4, <2>1, <2>2 DEF Owned, Wired, Flying
<1>5. CASE x.has /\ x.rid = r
  <2> DEFINE y == Connect(z)
  <2>1. ConnectEntry(x, r, who) = y
    BY <1>2, <1>5
  <2>2. x.sock = "hello" => ~x.timer
    BY DEF Shape
  <2>3. /\ y \in Entries /\ Owned(z, y) /\ Wired(z, y) /\ Flying(z, y) /\ y.pc = "connecting"
        /\ IF z.sock = "none" THEN y.sock = "hello" /\ ~y.timer
                              ELSE y.sock = z.sock /\ y.timer = z.timer /\ y.tries = z.tries
    BY <1>1, ConnectIs
  <2> HIDE DEF y
  <2>4. z.sock \in {"none", "hello"}
    BY <1>1, <1>5
  <2> QED BY <1>1, <1>5, <2>1, <2>2, <2>3, <2>4 DEF Owned, Wired, Flying
<1> QED BY <1>3, <1>4, <1>5

(* ensure leaves a registered channel connected to runtime r, or on its    *)
(* way there, or waiting to begin anew.                                    *)
LEMMA EnsureFollows ==
  ASSUME NEW x \in Entries, Shape(x), NEW r \in 0..MaxRuntimes, r # 0, x.life = "registered",
         x.rid <= r, x.rid = r => x.url = r,
         x.pc # "idle" => x.rid <= x.rt /\ (x.stale \/ x.rt = r),
         x.pc = "connecting" => x.url = x.rt, Going(x) => x.rt <= r,
         NEW who \in SUBSET Callers, who # {}
  PROVE  LET y == Ensure(x, r, who)
         IN y \in Entries /\ Shape(y) /\ Follows(y, r)
<1>0. ~Refused(x, r)
  BY DEF Refused
<1>1. CASE x.sock \in {"open", "deaf"} /\ x.rid = r
  <2>1. Ensure(x, r, who) = x
    BY <1>1 DEF Ensure
  <2>2. x.pc = "idle"
    BY <1>1, Fields DEF Shape, Alive
  <2> QED BY <1>1, <2>1, <2>2 DEF Follows, Going
<1>2. CASE ~(x.sock \in {"open", "deaf"} /\ x.rid = r) /\ x.pc = "idle"
  <2> DEFINE y == ConnectEntry(x, r, who)
  <2>1. Ensure(x, r, who) = y
    BY <1>0, <1>2 DEF Ensure
  <2>2. x.sock \in {"none", "hello"} \/ x.rid # r
    BY <1>2, Fields
  <2>3. /\ y \in Entries /\ Owned(x, y) /\ y.has
        /\ y.rt = r /\ ~y.stale /\ y.joined = who /\ y.queued = x.queued
        /\ \/ y.pc = "replacing" /\ ~Alive(y) /\ y.url = x.url /\ x.rid # r
           \/ /\ y.pc = "connecting" /\ y.sock = "hello" /\ ~y.timer
              /\ \/ y.url = r
                 \/ x.rid = r /\ y.url = x.url
    BY <2>2, ConnectEntryIs
  <2> HIDE DEF y
  <2>4. Shape(y)
    BY <2>3 DEF Shape, Owned, Alive, Going
  <2>5. Follows(y, r)
    BY <2>3 DEF Follows, Owned, Alive, Going
  <2> QED BY <2>1, <2>3, <2>4, <2>5
<1>3. CASE ~(x.sock \in {"open", "deaf"} /\ x.rid = r) /\ x.pc # "idle"
  <2> DEFINE joined == IF x.rt = r THEN x.joined \cup who ELSE x.joined
             queued == IF x.rt = r THEN x.queued ELSE x.queued \cup who
             y == [x EXCEPT !.joined = joined, !.queued = queued]
  <2>1. joined \in SUBSET Callers /\ queued \in SUBSET Callers
    BY Fields
  <2>2. Ensure(x, r, who) = y
    <3>1. CASE x.rt = r
      <4>1. Ensure(x, r, who) = [x EXCEPT !.joined = x.joined \cup who]
        BY <1>0, <1>3, <3>1 DEF Ensure
      <4>2. \A S \in SUBSET Callers : [x EXCEPT !.joined = S] = [x EXCEPT !.joined = S, !.queued = x.queued]
        BY Zenon DEF Entries
      <4> QED BY <3>1, <4>1, <4>2, <2>1
    <3>2. CASE x.rt # r
      <4>1. Ensure(x, r, who) = [x EXCEPT !.queued = x.queued \cup who]
        BY <1>0, <1>3, <3>2 DEF Ensure
      <4>2. \A S \in SUBSET Callers : [x EXCEPT !.queued = S] = [x EXCEPT !.joined = x.joined, !.queued = S]
        BY Zenon DEF Entries
      <4> QED BY <3>2, <4>1, <4>2, <2>1
    <3> QED BY <3>1, <3>2
  <2>3. x.rt # r => queued # {}
    OBVIOUS
  <2> HIDE DEF joined, queued
  <2>4. /\ y \in Entries /\ Owned(x, y) /\ Wired(x, y)
        /\ y.rt = x.rt /\ y.stale = x.stale /\ y.joined = joined /\ y.queued = queued
        /\ y.pc = x.pc /\ y.sock = x.sock /\ y.timer = x.timer /\ y.tries = x.tries
    BY <2>1, Zenon DEF Entries, Owned, Wired
  <2> HIDE DEF y
  <2>5. Shape(y)
    BY <1>3, <2>4 DEF Shape, Owned, Wired, Alive, Going
  <2>6. Follows(y, r)
    BY <1>3, <2>3, <2>4 DEF Follows, Owned, Wired, Alive, Going
  <2> QED BY <2>2, <2>4, <2>5, <2>6
<1> QED BY <1>1, <1>2, <1>3

(* The end of connectEntry, when what is connected belongs to the bound    *)
(* runtime or somebody waits to begin anew.                                *)
LEMMA SettledIs ==
  ASSUME NEW x \in Entries, ~x.leaked, x.timer => x.sock = "none" /\ x.tries < MaxAttempts,
         ~x.has => ~Alive(x), x.life \in {"closing", "gone"} => ~Alive(x)
  PROVE  LET y == [x EXCEPT !.pc = "idle", !.rt = 0, !.stale = FALSE, !.joined = {}, !.queued = {}]
         IN /\ y \in Entries /\ Shape(y) /\ Owned(x, y) /\ Wired(x, y) /\ y.pc = "idle"
            /\ y.queued = {} /\ y.joined = {} /\ y.sock = x.sock /\ y.timer = x.timer
<1> DEFINE y == [x EXCEPT !.pc = "idle", !.rt = 0, !.stale = FALSE, !.joined = {}, !.queued = {}]
<1>1. y \in Entries
  BY Zero, Zenon DEF Entries
<1>2. Owned(x, y) /\ Wired(x, y)
  BY Zenon DEF Entries, Owned, Wired
<1>3. y.pc = "idle" /\ y.queued = {} /\ y.joined = {}
  BY Zenon DEF Entries
<1>4. y.sock = x.sock /\ y.timer = x.timer /\ y.tries = x.tries
  BY Zenon DEF Entries
<1> HIDE DEF y
<1>5. Shape(y)
  BY <1>2, <1>3, <1>4 DEF Shape, Owned, Wired, Alive, Going
<1> QED BY <1>1, <1>2, <1>3, <1>4, <1>5 DEF y

LEMMA SettledFollows ==
  ASSUME NEW x \in Entries, ~x.leaked, x.timer => x.sock = "none" /\ x.tries < MaxAttempts,
         ~x.has => ~Alive(x), x.life \in {"closing", "gone"} => ~Alive(x),
         x.life # "new", rt \in 0..MaxRuntimes, x.rid <= rt, x.rid = rt /\ rt # 0 => x.url = rt,
         Alive(x) /\ (x.queued = {} \/ Refused(x, rt)) => x.url = rt
  PROVE  Settled(x) \in Entries /\ Shape(Settled(x)) /\ Follows(Settled(x), rt)
<1> DEFINE y == [x EXCEPT !.pc = "idle", !.rt = 0, !.stale = FALSE, !.joined = {}, !.queued = {}]
<1>1. /\ y \in Entries /\ Shape(y) /\ Owned(x, y) /\ Wired(x, y) /\ y.pc = "idle"
      /\ y.queued = {} /\ y.joined = {} /\ y.sock = x.sock /\ y.timer = x.timer
  BY SettledIs
<1>2. Settled(x) = IF x.queued = {} THEN y ELSE Ensure(y, rt, x.queued)
  BY DEF Settled
<1>3. x.queued \in SUBSET Callers
  BY Fields
<1> HIDE DEF y
<1>4. CASE x.queued = {} \/ Refused(x, rt)
  <2>1. Settled(x) = y
    BY <1>1, <1>2, <1>4 DEF Ensure, Refused, Owned
  <2>2. Follows(y, rt)
    BY <1>1, <1>4 DEF Follows, Owned, Wired, Alive, Going
  <2> QED BY <1>1, <2>1, <2>2
<1>5. CASE x.queued # {} /\ ~Refused(x, rt)
  <2>1. Settled(x) = Ensure(y, rt, x.queued)
    BY <1>2, <1>5
  <2>2. rt # 0 /\ y.life = "registered" /\ y.rid <= rt
    BY <1>1, <1>5 DEF Refused, Owned
  <2>3. y.rid = rt => y.url = rt
    BY <1>1, <2>2 DEF Owned, Wired
  <2>4. y.pc = "idle" /\ ~Going(y)
    BY <1>1 DEF Going
  <2> QED BY <1>1, <1>3, <1>5, <2>1, <2>2, <2>3, <2>4, EnsureFollows
<1> QED BY <1>4, <1>5

(* The utility transport, for which nobody ever waits to begin anew.       *)
Spare(x) == Shape(x) /\ x.queued = {} /\ x.life = "new"

LEMMA SettledSpare ==
  ASSUME NEW x \in Entries, ~x.leaked, x.timer => x.sock = "none" /\ x.tries < MaxAttempts,
         ~x.has => ~Alive(x), x.queued = {}, x.life = "new"
  PROVE  Settled(x) \in Entries /\ Spare(Settled(x)) /\ Settled(x).pc = "idle"
<1> DEFINE y == [x EXCEPT !.pc = "idle", !.rt = 0, !.stale = FALSE, !.joined = {}, !.queued = {}]
<1>1. /\ y \in Entries /\ Shape(y) /\ Owned(x, y) /\ y.pc = "idle" /\ y.queued = {}
  BY SettledIs
<1>2. Settled(x) = y
  BY DEF Settled
<1> HIDE DEF y
<1> QED BY <1>1, <1>2 DEF Spare, Owned

LEMMA ReleaseSpare ==
  ASSUME NEW x \in Entries, Spare(x), x.pc # "replacing"
  PROVE  Release(x) \in Entries /\ Spare(Release(x))
<1> DEFINE z == Disconnect(x)
           y == [z EXCEPT !.has = FALSE, !.rid = 0, !.url = 0, !.tries = 0]
<1>1. /\ z \in Entries /\ Owned(x, z) /\ Wired(x, z) /\ Flying(x, z)
      /\ z.pc = (IF x.pc = "connecting" THEN "abandoned" ELSE x.pc) /\ ~Alive(z)
  BY DisconnectIs
<1>2. Release(x) = y
  BY DEF Release
<1> HIDE DEF z
<1>3. y \in Entries
  BY <1>1, Zero, Zenon DEF Entries
<1>4. y.life = z.life /\ y.leaked = z.leaked /\ Flying(z, y) /\ ~y.has
  BY <1>1, Zenon DEF Entries, Flying
<1>5. y.pc = z.pc /\ y.sock = z.sock /\ y.timer = z.timer
  BY <1>1, Zenon DEF Entries
<1> HIDE DEF y
<1>6. Spare(y)
  BY <1>1, <1>3, <1>4, <1>5, Fields DEF Spare, Shape, Owned, Wired, Flying, Alive, Going
<1> QED BY <1>2, <1>3, <1>6

LEMMA EnsureUtilitySpare ==
  ASSUME NEW x \in Entries, Spare(x), x.pc = "idle", NEW r \in 0..MaxRuntimes, NEW who \in SUBSET Callers
  PROVE  EnsureUtility(x, r, who) \in Entries /\ Spare(EnsureUtility(x, r, who))
<1>1. CASE x.sock \in {"open", "deaf"} /\ x.rid = r
  BY <1>1 DEF EnsureUtility
<1>2. CASE ~(x.sock \in {"open", "deaf"} /\ x.rid = r)
  <2> DEFINE z == ConnectEntry(x, r, who)
             y == [z EXCEPT !.rid = r]
  <2>1. x.sock \in {"none", "hello"} \/ x.rid # r
    BY <1>2, Fields
  <2>2. /\ z \in Entries /\ Owned(x, z) /\ z.has
        /\ z.rt = r /\ ~z.stale /\ z.joined = who /\ z.queued = x.queued
        /\ \/ z.pc = "replacing" /\ ~Alive(z) /\ z.url = x.url /\ x.rid # r
           \/ /\ z.pc = "connecting" /\ z.sock = "hello" /\ ~z.timer
              /\ \/ z.url = r
                 \/ x.rid = r /\ z.url = x.url
    BY <2>1, ConnectEntryIs DEF Spare
  <2>3. EnsureUtility(x, r, who) = y
    BY <1>2 DEF EnsureUtility
  <2> HIDE DEF z
  <2>4. y \in Entries
    BY <2>2, Zenon DEF Entries
  <2>5. y.life = z.life /\ y.leaked = z.leaked /\ Wired(z, y) /\ Flying(z, y)
    BY <2>2, Zenon DEF Entries, Wired, Flying
  <2>6. y.pc = z.pc /\ y.sock = z.sock /\ y.timer = z.timer
    BY <2>2, Zenon DEF Entries
  <2> HIDE DEF y
  <2>7. Spare(y)
    BY <2>2, <2>4, <2>5, <2>6, Fields DEF Spare, Shape, Owned, Wired, Flying, Alive, Going
  <2> QED BY <2>3, <2>4, <2>7
<1> QED BY <1>1, <1>2

-----------------------------------------------------------------------------
(* What keeps the invariant.                                               *)

Outcomes == {"none", "waiting", "utility", "failed", "ok"}

LEMMA ForAll ==
  ASSUME Inv, e' \in [All -> Entries], \A x \in All : Shape(e'[x]), \A c \in Channels : Follows(e'[c], rt'),
         Spare(e'[Utility]), rt' \in 0..MaxRuntimes, up' \in 0..MaxRuntimes, spent' \in Spents, bind' \in Outcomes,
         rt' <= spent'.runtimes, up' \in {0, spent'.runtimes}
  PROVE  Inv'
<1>1. \A x \in All : e'[x].pc = "idle" => e'[x].joined = {} /\ e'[x].queued = {}
  BY DEF Shape
<1>2. \A x \in All : e'[x].timer => e'[x].sock = "none"
  BY DEF Shape
<1>3. TypeOK'
  BY <1>1, <1>2 DEF TypeOK, Outcomes
<1>4. e'[Utility].queued = {} /\ e'[Utility].life = "new"
  BY DEF Spare
<1> QED BY <1>3, <1>4 DEF Inv

(* Nothing else is bound, starts or ends.                                  *)
Steady == rt' = rt /\ up' = up /\ spent' \in Spents /\ spent'.runtimes = spent.runtimes

LEMMA Calmness ==
  ASSUME Inv
  PROVE  /\ rt \in 0..MaxRuntimes /\ up \in 0..MaxRuntimes /\ spent \in Spents /\ bind \in Outcomes
         /\ spent.runtimes \in 0..MaxRuntimes /\ e \in [All -> Entries]
         /\ UNCHANGED <<rt, up, spent>> => Steady
         /\ Fault /\ UNCHANGED <<rt, up>> => Steady
<1>1. rt \in 0..MaxRuntimes /\ up \in 0..MaxRuntimes /\ spent \in Spents /\ bind \in Outcomes
  BY DEF Inv, TypeOK, Outcomes
<1>2. spent.runtimes \in 0..MaxRuntimes /\ spent.faults \in 0..MaxFaults /\ e \in [All -> Entries]
  BY <1>1 DEF Inv, TypeOK, Spents
<1>3. ASSUME Fault PROVE spent' \in Spents /\ spent'.runtimes = spent.runtimes
  <2>1. spent.faults + 1 \in 0..MaxFaults /\ spent' = [spent EXCEPT !.faults = spent.faults + 1]
    BY <1>2, <1>3, ConstantAssumption DEF Fault
  <2> QED BY <1>1, <2>1, Zenon DEF Spents
<1> QED BY <1>1, <1>2, <1>3 DEF Steady

LEMMA ForOne ==
  ASSUME Inv, NEW x \in All, NEW y \in Entries, Shape(y), x \in Channels => Follows(y, rt),
         x = Utility => Spare(y), e' = [e EXCEPT ![x] = y], Steady, bind' \in Outcomes
  PROVE  Inv'
<1>1. e \in [All -> Entries] /\ rt \in 0..MaxRuntimes /\ up \in 0..MaxRuntimes
  BY Calmness
<1>2. e' \in [All -> Entries] /\ \A k \in All : e'[k] = IF k = x THEN y ELSE e[k]
  BY <1>1
<1>3. \A k \in All : Shape(e'[k])
  BY <1>2 DEF Inv
<1>4. \A c \in Channels : Follows(e'[c], rt')
  BY <1>2 DEF Inv, All, Steady
<1>5. Spare(e'[Utility])
  BY <1>2, <1>3 DEF Inv, All, Spare
<1>6. rt' <= spent'.runtimes /\ up' \in {0, spent'.runtimes}
  BY DEF Inv, Steady
<1> QED BY <1>1, <1>2, <1>3, <1>4, <1>5, <1>6, ForAll DEF Steady

(* What connectEntry ends with, and with it the utility transport.         *)
Ends(x) ==
  /\ ~x.leaked
  /\ x.timer => x.sock = "none" /\ x.tries < MaxAttempts
  /\ ~x.has => ~Alive(x)
  /\ x.life \in {"closing", "gone"} => ~Alive(x)

LEMMA ConcludeKeeps ==
  ASSUME Inv, NEW x \in All, NEW y \in Entries, NEW ok \in BOOLEAN, Conclude(x, y, ok), Steady,
         Ends(y), x = Utility => y.queued = {} /\ y.life = "new",
         e[x].pc = "idle" => Shape(y) /\ (x \in Channels => Follows(y, rt)),
         x \in Channels /\ e[x].pc # "idle" =>
           /\ y.life # "new" /\ y.rid <= rt /\ (y.rid = rt /\ rt # 0 => y.url = rt)
           /\ Alive(y) /\ (y.queued = {} \/ Refused(y, rt)) => y.url = rt,
         ok /\ x # Utility /\ "register" \in e[x].joined => e[Utility].pc # "replacing"
  PROVE  Inv'
<1>1. /\ e \in [All -> Entries] /\ rt \in 0..MaxRuntimes /\ up \in 0..MaxRuntimes /\ bind \in Outcomes
      /\ Utility \in All
  BY Calmness DEF All
<1>2. bind' \in Outcomes
  BY <1>1 DEF Conclude, Outcomes
<1>3. Shape(e[x]) /\ Spare(e[Utility]) /\ e[x] \in Entries /\ e[Utility] \in Entries
  BY <1>1 DEF Inv, Spare
<1>4. CASE x # Utility
  <2> DEFINE w == IF e[x].pc = "idle" THEN y ELSE Settled(y)
             u == IF ok /\ "register" \in e[x].joined THEN Release(e[Utility]) ELSE e[Utility]
  <2>1. x \in Channels
    BY <1>4 DEF All
  <2>2. w \in Entries /\ Shape(w) /\ Follows(w, rt)
    <3>1. CASE e[x].pc = "idle"
      BY <2>1, <3>1
    <3>2. CASE e[x].pc # "idle"
      <4>1. Settled(y) \in Entries /\ Shape(Settled(y)) /\ Follows(Settled(y), rt)
        BY <1>1, <2>1, <3>2, SettledFollows DEF Ends
      <4> QED BY <3>2, <4>1
    <3> QED BY <3>1, <3>2
  <2>3. u \in Entries /\ Spare(u)
    BY <1>3, <1>4, ReleaseSpare
  <2>4. e' = [k \in All |-> IF k = Utility THEN u ELSE IF k = x THEN w ELSE e[k]]
    BY <1>1, <1>4 DEF Conclude
  <2> HIDE DEF w, u
  <2>5. e' \in [All -> Entries] /\ \A k \in All : e'[k] = IF k = Utility THEN u ELSE IF k = x THEN w ELSE e[k]
    BY <1>1, <2>2, <2>3, <2>4
  <2>6. \A k \in All : Shape(e'[k])
    BY <2>2, <2>3, <2>5 DEF Inv, Spare
  <2>7. \A c \in Channels : Follows(e'[c], rt')
    BY <2>2, <2>5, ConstantAssumption DEF Inv, All, Steady
  <2>8. Spare(e'[Utility])
    BY <1>1, <2>3, <2>5
  <2>9. rt' <= spent'.runtimes /\ up' \in {0, spent'.runtimes}
    BY DEF Inv, Steady
  <2> QED BY <1>1, <1>2, <2>5, <2>6, <2>7, <2>8, <2>9, ForAll DEF Steady
<1>5. CASE x = Utility
  <2> DEFINE v == IF e[x].pc = "idle" THEN y ELSE Settled(y)
             w == IF ok /\ "register" \in e[x].joined THEN Release(v) ELSE v
  <2>1. v \in Entries /\ Spare(v) /\ (e[x].pc # "idle" => v.pc = "idle")
    <3>1. Settled(y) \in Entries /\ Spare(Settled(y)) /\ Settled(y).pc = "idle"
      BY <1>5, SettledSpare DEF Ends
    <3> QED BY <1>5, <3>1 DEF Spare
  <2>2. w \in Entries /\ Spare(w)
    <3>1. CASE ok /\ "register" \in e[x].joined
      <4>1. e[x].pc # "idle"
        BY <1>3, <3>1 DEF Shape
      <4> HIDE DEF v
      <4>2. Release(v) \in Entries /\ Spare(Release(v))
        BY <2>1, <4>1, ReleaseSpare
      <4> QED BY <3>1, <4>2
    <3>2. CASE ~(ok /\ "register" \in e[x].joined)
      BY <2>1, <3>2
    <3> QED BY <3>1, <3>2
  <2>3. e' = [k \in All |-> IF k = x THEN w ELSE e[k]]
    BY <1>1, <1>5 DEF Conclude
  <2> HIDE DEF v, w
  <2>4. e' = [e EXCEPT ![x] = w]
    BY <1>1, <1>5, <2>3
  <2>5. x \notin Channels
    BY <1>5, ConstantAssumption
  <2> QED BY <1>2, <2>2, <2>4, <2>5, ForOne DEF Spare
<1> QED BY <1>4, <1>5

-----------------------------------------------------------------------------
(* The steps of the registry.                                              *)

LEMMA RegisterKeeps == ASSUME Inv, NEW c \in Channels, Register(c) PROVE Inv'
<1> DEFINE z == [e[c] EXCEPT !.life = "registered"]
           y == Ensure(z, rt, {"register"})
<1>1. /\ Steady /\ bind' \in Outcomes /\ rt \in 0..MaxRuntimes
      /\ c \in All /\ c # Utility /\ e[c] \in Entries
  BY Calmness, ConstantAssumption DEF Register, All
<1>2. e' = [e EXCEPT ![c] = y]
  BY DEF Register
<1>3. Shape(e[c]) /\ Follows(e[c], rt) /\ e[c].life = "new" /\ e[c].pc = "idle"
  BY <1>1 DEF Inv, Register, Follows
<1>4. z \in Entries /\ z.life = "registered"
  BY <1>1, Zenon DEF Entries
<1>5. z.rid = e[c].rid /\ z.leaked = e[c].leaked /\ Wired(e[c], z) /\ Flying(e[c], z)
  BY <1>1, Zenon DEF Entries, Wired, Flying
<1>6. z.pc = e[c].pc /\ z.sock = e[c].sock /\ z.timer = e[c].timer /\ z.tries = e[c].tries
  BY <1>1, Zenon DEF Entries
<1> HIDE DEF z
<1>7. Shape(z)
  BY <1>3, <1>4, <1>5, <1>6 DEF Shape, Wired, Flying, Alive, Going
<1>8. y \in Entries /\ Shape(y) /\ Follows(y, rt)
  <2>1. CASE rt = 0
    <3>1. y = z
      BY <2>1 DEF Ensure, Refused
    <3>2. Follows(z, rt)
      BY <1>3, <1>4, <1>5, <1>6, <2>1 DEF Follows, Wired, Flying, Alive, Going
    <3> QED BY <1>4, <1>7, <3>1, <3>2
  <2>2. CASE rt # 0
    <3>1. z.rid <= rt /\ (z.rid = rt => z.url = rt) /\ z.pc = "idle" /\ ~Going(z)
      BY <1>3, <1>5, <1>6, <2>2 DEF Follows, Wired, Going
    <3>2. {"register"} \in SUBSET Callers /\ {"register"} # {}
      BY DEF Callers
    <3> QED BY <1>1, <1>4, <1>7, <2>2, <3>1, <3>2, EnsureFollows
  <2> QED BY <2>1, <2>2
<1> HIDE DEF y
<1> QED BY <1>1, <1>2, <1>8, ForOne

LEMMA AskKeeps == ASSUME Inv, NEW c \in Channels, Ask(c) PROVE Inv'
<1> DEFINE y == Ensure(e[c], rt, {"view"})
<1>1. /\ Steady /\ bind' \in Outcomes /\ rt \in 0..MaxRuntimes
      /\ c \in All /\ c # Utility /\ e[c] \in Entries
  BY Calmness, ConstantAssumption DEF Ask, All
<1>2. e' = [e EXCEPT ![c] = y]
  BY DEF Ask
<1>3. Shape(e[c]) /\ Follows(e[c], rt) /\ e[c].life = "registered" /\ rt # 0
  BY <1>1 DEF Inv, Ask, Refused
<1>4. {"view"} \in SUBSET Callers /\ {"view"} # {}
  BY DEF Callers
<1>5. y \in Entries /\ Shape(y) /\ Follows(y, rt)
  BY <1>1, <1>3, <1>4, EnsureFollows DEF Follows
<1> HIDE DEF y
<1> QED BY <1>1, <1>2, <1>5, ForOne

LEMMA AskUtilityKeeps == ASSUME Inv, AskUtility PROVE Inv'
<1> DEFINE y == EnsureUtility(e[Utility], rt, {"view"})
<1>1. /\ Steady /\ bind' \in Outcomes /\ rt \in 0..MaxRuntimes
      /\ Utility \in All /\ Utility \notin Channels /\ e[Utility] \in Entries
  BY Calmness, ConstantAssumption DEF AskUtility, All
<1>2. e' = [e EXCEPT ![Utility] = y] /\ e[Utility].pc = "idle"
  BY DEF AskUtility
<1>3. Spare(e[Utility]) /\ {"view"} \in SUBSET Callers
  BY <1>1 DEF Inv, Spare, Callers
<1>4. y \in Entries /\ Spare(y)
  BY <1>1, <1>2, <1>3, EnsureUtilitySpare
<1> HIDE DEF y
<1> QED BY <1>1, <1>2, <1>4, ForOne DEF Spare

LEMMA UnregisterKeeps ==
  ASSUME Inv, Mishaps \subseteq {"terminal"}, NEW c \in Channels, Unregister(c) PROVE Inv'
<1> DEFINE z == [e[c] EXCEPT !.life = "closing"]
           y == Disconnect(z)
<1>1. /\ Steady /\ bind' \in Outcomes /\ rt \in 0..MaxRuntimes
      /\ c \in All /\ c # Utility /\ e[c] \in Entries
  BY Calmness, ConstantAssumption DEF Unregister, All
<1>2. e' = [e EXCEPT ![c] = y] /\ e[c].life = "registered" /\ e[c].pc # "replacing"
  BY DEF Unregister, Calm
<1>3. Shape(e[c]) /\ Follows(e[c], rt)
  BY <1>1 DEF Inv
<1>4. z \in Entries /\ z.life = "closing"
  BY <1>1, Zenon DEF Entries
<1>5. z.rid = e[c].rid /\ z.leaked = e[c].leaked /\ Wired(e[c], z) /\ Flying(e[c], z)
  BY <1>1, Zenon DEF Entries, Wired, Flying
<1>6. z.pc = e[c].pc /\ z.sock = e[c].sock /\ z.timer = e[c].timer /\ z.tries = e[c].tries
  BY <1>1, Zenon DEF Entries
<1> HIDE DEF z
<1>7. /\ y \in Entries /\ Owned(z, y) /\ Wired(z, y) /\ Flying(z, y)
      /\ y.pc = (IF z.pc = "connecting" THEN "abandoned" ELSE z.pc) /\ ~Alive(y)
  BY <1>4, DisconnectIs
<1> HIDE DEF y
<1>8. y.pc # "replacing" /\ y.pc # "connecting" /\ (y.pc = "idle" => e[c].pc = "idle") /\ (y.pc # "idle" => e[c].pc # "idle")
  BY <1>2, <1>6, <1>7
<1>9. Shape(y)
  BY <1>3, <1>4, <1>5, <1>7, <1>8 DEF Shape, Owned, Wired, Flying, Alive, Going
<1>10. Follows(y, rt)
  BY <1>3, <1>4, <1>5, <1>7, <1>8 DEF Follows, Owned, Wired, Flying, Going
<1> QED BY <1>1, <1>2, <1>7, <1>9, <1>10, ForOne

LEMMA UnregisteredKeeps == ASSUME Inv, NEW c \in Channels, Unregistered(c) PROVE Inv'
<1> DEFINE y == [e[c] EXCEPT !.life = "gone", !.has = FALSE, !.rid = 0]
<1>1. /\ Steady /\ bind' \in Outcomes /\ rt \in 0..MaxRuntimes
      /\ c \in All /\ c # Utility /\ e[c] \in Entries /\ e \in [All -> Entries]
  BY Calmness, ConstantAssumption DEF Unregistered, All
<1>2. e' = [e EXCEPT ![c] = y] /\ e[c].life = "closing"
  BY <1>1 DEF Unregistered
<1>3. Shape(e[c]) /\ Follows(e[c], rt)
  BY <1>1 DEF Inv
<1>4. y \in Entries /\ y.life = "gone" /\ ~y.has /\ y.rid = 0
  BY <1>1, Zero, Zenon DEF Entries
<1>5. y.leaked = e[c].leaked /\ y.url = e[c].url /\ Flying(e[c], y)
  BY <1>1, Zenon DEF Entries, Flying
<1>6. y.pc = e[c].pc /\ y.sock = e[c].sock /\ y.timer = e[c].timer /\ y.tries = e[c].tries
  BY <1>1, Zenon DEF Entries
<1> HIDE DEF y
<1>7. Shape(y)
  BY <1>2, <1>3, <1>4, <1>5, <1>6 DEF Shape, Flying, Alive, Going
<1>8. Follows(y, rt)
  BY <1>1, <1>2, <1>3, <1>4, <1>5, <1>6, Fields DEF Follows, Shape, Flying, Alive, Going
<1> QED BY <1>1, <1>2, <1>4, <1>7, <1>8, ForOne

(* The bound runtime is the newest that was ever bound: what knows it, or  *)
(* is on its way to it, knows no later one.                                *)
LEMMA BindRuntimeKeeps == ASSUME Inv, BindRuntime PROVE Inv'
<1> DEFINE st(x) == e[x].stale \/ e[x].pc # "idle"
           z(x) == [e[x] EXCEPT !.stale = st(x)]
           y(x) == IF x \in Registered THEN Ensure(z(x), up, {"bind"})
                   ELSE IF x = Utility /\ Registered = {} THEN EnsureUtility(z(x), up, {"bind"}) ELSE z(x)
<1>1. /\ rt \in 0..MaxRuntimes /\ up \in 0..MaxRuntimes /\ spent \in Spents /\ e \in [All -> Entries]
      /\ Utility \in All /\ Utility \notin Channels /\ Registered \subseteq Channels
  BY Calmness, ConstantAssumption DEF All, Registered
<1>2. /\ up # 0 /\ rt' = up /\ up' = up /\ bind' \in Outcomes /\ up = spent.runtimes /\ rt <= up
      /\ Registered = {} => e[Utility].pc = "idle"
  BY <1>1 DEF BindRuntime, Inv, Outcomes
<1>3. spent' \in Spents /\ spent'.runtimes = spent.runtimes
  <2>1. spent.binds + 1 \in 0..MaxBinds /\ spent' = [spent EXCEPT !.binds = spent.binds + 1]
    BY <1>1, ConstantAssumption DEF BindRuntime, Spents
  <2> QED BY <1>1, <2>1, Zenon DEF Spents
<1>4. e' = [x \in All |-> y(x)]
  BY DEF BindRuntime
<1>5. {"bind"} \in SUBSET Callers /\ {"bind"} # {}
  BY DEF Callers
<1>6. ASSUME NEW x \in All
      PROVE  /\ y(x) \in Entries /\ Shape(y(x))
             /\ x \in Channels => Follows(y(x), up)
             /\ x = Utility => Spare(y(x))
  <2> DEFINE w == z(x)
  <2>1. e[x] \in Entries /\ st(x) \in BOOLEAN
    BY <1>1, <1>6, Fields
  <2>2. Shape(e[x]) /\ (x \in Channels => Follows(e[x], rt)) /\ (x = Utility => Spare(e[x]))
    BY <1>6 DEF Inv, Spare
  <2>3. w.pc # "idle" => w.stale
    BY <2>1, Zenon DEF Entries
  <2>4. w \in Entries /\ Owned(e[x], w) /\ Wired(e[x], w)
    <3> HIDE DEF st
    <3> QED BY <2>1, Zenon DEF Entries, Owned, Wired
  <2>5. w.rt = e[x].rt /\ w.joined = e[x].joined /\ w.queued = e[x].queued
    <3> HIDE DEF st
    <3> QED BY <2>1, Zenon DEF Entries
  <2>6. w.pc = e[x].pc /\ w.sock = e[x].sock /\ w.timer = e[x].timer /\ w.tries = e[x].tries
    <3> HIDE DEF st
    <3> QED BY <2>1, Zenon DEF Entries
  <2>7. y(x) = IF x \in Registered THEN Ensure(w, up, {"bind"})
               ELSE IF x = Utility /\ Registered = {} THEN EnsureUtility(w, up, {"bind"}) ELSE w
    OBVIOUS
  <2> HIDE DEF w, y
  <2>8. Shape(w) /\ (x = Utility => Spare(w))
    BY <2>2, <2>4, <2>5, <2>6 DEF Shape, Spare, Owned, Wired, Alive, Going
  <2>9. ASSUME x \in Channels
        PROVE  /\ w.rid <= up
               /\ w.rid = up => w.url = up
               /\ w.pc # "idle" => w.rid <= w.rt
               /\ w.pc = "connecting" => w.url = w.rt
               /\ Going(w) => w.rt <= up
    <3>1. Follows(e[x], rt) /\ e[x].rid \in 0..MaxRuntimes /\ e[x].rt \in 0..MaxRuntimes
      BY <2>1, <2>2, <2>9, Fields
    <3>2. w.rid = e[x].rid /\ w.url = e[x].url
      BY <2>4 DEF Owned, Wired
    <3> QED BY <1>1, <1>2, <2>5, <2>6, <3>1, <3>2 DEF Follows, Going
  <2>10. CASE x \in Registered
    <3>1. w.life = "registered" /\ x \in Channels /\ x # Utility
      BY <1>1, <2>4, <2>10 DEF Registered, Owned
    <3> QED BY <1>1, <1>2, <1>5, <2>3, <2>4, <2>7, <2>8, <2>9, <2>10, <3>1, EnsureFollows
  <2>11. CASE x \in Channels /\ x \notin Registered
    <3>1. x # Utility /\ w.life \in {"new", "closing", "gone"}
      BY <1>1, <2>1, <2>4, <2>11, Fields DEF Registered, Owned
    <3>2. y(x) = w
      BY <2>7, <2>11, <3>1
    <3>3. w.life = "new" => w.pc = "idle" /\ ~w.has
      BY <2>2, <2>4, <2>6, <2>11 DEF Follows, Owned, Wired
    <3>4. Follows(w, up)
      BY <1>2, <2>3, <2>8, <2>9, <2>11, <3>1, <3>3 DEF Follows, Shape, Going
    <3> QED BY <2>4, <2>8, <3>1, <3>2, <3>4
  <2>12. CASE x = Utility
    <3>1. x \notin Channels /\ x \notin Registered
      BY <1>1, <2>12
    <3>2. CASE Registered = {}
      <4>1. w.pc = "idle"
        BY <1>2, <2>6, <2>12, <3>2
      <4>2. EnsureUtility(w, up, {"bind"}) \in Entries /\ Spare(EnsureUtility(w, up, {"bind"}))
        BY <1>1, <1>5, <2>4, <2>8, <2>12, <4>1, EnsureUtilitySpare
      <4> QED BY <2>7, <2>12, <3>1, <3>2, <4>2 DEF Spare
    <3>3. CASE Registered # {}
      BY <2>4, <2>7, <2>8, <2>12, <3>1, <3>3
    <3> QED BY <3>2, <3>3
  <2> QED BY <1>6, <2>10, <2>11, <2>12 DEF All
<1> HIDE DEF y
<1>7. e' \in [All -> Entries] /\ \A x \in All : e'[x] = y(x)
  BY <1>4, <1>6
<1>8. \A x \in All : Shape(e'[x])
  BY <1>6, <1>7
<1>9. \A c \in Channels : Follows(e'[c], rt')
  BY <1>2, <1>6, <1>7 DEF All
<1>10. Spare(e'[Utility])
  BY <1>1, <1>6, <1>7
<1>11. rt' <= spent'.runtimes /\ up' \in {0, spent'.runtimes}
  BY <1>1, <1>2, <1>3
<1> QED BY <1>1, <1>2, <1>3, <1>7, <1>8, <1>9, <1>10, <1>11, ForAll

LEMMA BindSucceedsKeeps == ASSUME Inv, Mishaps \subseteq {"terminal"}, BindSucceeds PROVE Inv'
<1> DEFINE y == IF bind = "utility" THEN e[Utility] ELSE Release(e[Utility])
<1>1. /\ Steady /\ bind' \in Outcomes /\ e \in [All -> Entries]
      /\ Utility \in All /\ Utility \notin Channels /\ e[Utility] \in Entries
  BY Calmness, ConstantAssumption DEF BindSucceeds, All, Outcomes
<1>2. e[Utility].pc # "replacing" /\ Spare(e[Utility])
  BY <1>1 DEF BindSucceeds, Calm, Inv, Spare
<1>3. y \in Entries /\ Spare(y)
  BY <1>1, <1>2, ReleaseSpare
<1>4. e' = [e EXCEPT ![Utility] = y]
  BY <1>1 DEF BindSucceeds
<1> HIDE DEF y
<1> QED BY <1>1, <1>3, <1>4, ForOne DEF Spare

LEMMA OutlivesIs ==
  ASSUME NEW x \in Entries, Shape(x), NEW k \in Callers
  PROVE  LET y == Outlives(x, k)
         IN /\ y \in Entries /\ Shape(y) /\ (Spare(x) => Spare(y))
            /\ \A r \in 0..MaxRuntimes : Follows(x, r) => Follows(y, r)
<1> DEFINE j == Relabelled(x.joined, k)
           q == Relabelled(x.queued, k)
           y == [x EXCEPT !.joined = j, !.queued = q]
<1>1. j \in SUBSET Callers /\ q \in SUBSET Callers /\ (j = {} <=> x.joined = {}) /\ (q = {} <=> x.queued = {})
  BY Fields DEF Relabelled
<1>2. Outlives(x, k) = y
  BY DEF Outlives
<1> HIDE DEF j, q
<1>3. y \in Entries /\ Owned(x, y) /\ Wired(x, y)
  BY <1>1, Zenon DEF Entries, Owned, Wired
<1>4. y.rt = x.rt /\ y.stale = x.stale /\ y.joined = j /\ y.queued = q
  BY <1>1, Zenon DEF Entries
<1>5. y.pc = x.pc /\ y.sock = x.sock /\ y.timer = x.timer /\ y.tries = x.tries
  BY Zenon DEF Entries
<1> HIDE DEF y
<1>6. Shape(y)
  BY <1>1, <1>3, <1>4, <1>5 DEF Shape, Owned, Wired, Alive, Going
<1>7. Spare(x) => Spare(y)
  BY <1>1, <1>3, <1>4, <1>6 DEF Spare, Owned
<1>8. \A r \in 0..MaxRuntimes : Follows(x, r) => Follows(y, r)
  BY <1>1, <1>3, <1>4, <1>5 DEF Follows, Owned, Wired, Alive, Going
<1> QED BY <1>2, <1>3, <1>6, <1>7, <1>8

LEMMA BindFailsKeeps == ASSUME Inv, BindFails PROVE Inv'
<1> DEFINE k == IF bind = "failed" THEN "view" ELSE "register"
           y(x) == Outlives(e[x], k)
<1>1. /\ rt \in 0..MaxRuntimes /\ up \in 0..MaxRuntimes /\ spent \in Spents /\ e \in [All -> Entries]
      /\ Utility \in All /\ k \in Callers
  BY Calmness DEF All, Callers
<1>2. rt' = rt /\ up' \in {up, 0} /\ bind' \in Outcomes /\ spent' \in Spents /\ spent'.runtimes = spent.runtimes
  <2>1. UNCHANGED spent \/ Fault
    BY DEF BindFails
  <2>2. CASE UNCHANGED spent
    BY <1>1, <2>2 DEF BindFails, Outcomes
  <2>3. CASE Fault
    <3>1. spent.faults + 1 \in 0..MaxFaults /\ spent' = [spent EXCEPT !.faults = spent.faults + 1]
      BY <1>1, <2>3, ConstantAssumption DEF Fault, Spents
    <3>2. spent' \in Spents /\ spent'.runtimes = spent.runtimes
      BY <1>1, <3>1, Zenon DEF Spents
    <3> QED BY <3>2 DEF BindFails, Outcomes
  <2> QED BY <2>1, <2>2, <2>3
<1>3. e' = [x \in All |-> y(x)]
  BY DEF BindFails
<1> HIDE DEF k
<1>4. ASSUME NEW x \in All
      PROVE  /\ y(x) \in Entries /\ Shape(y(x)) /\ (Spare(e[x]) => Spare(y(x)))
             /\ Follows(e[x], rt) => Follows(y(x), rt)
  BY <1>1, <1>4, OutlivesIs DEF Inv
<1> HIDE DEF y
<1>5. e' \in [All -> Entries] /\ \A x \in All : e'[x] = y(x)
  BY <1>3, <1>4
<1>6. \A x \in All : Shape(e'[x])
  BY <1>4, <1>5
<1>7. \A c \in Channels : Follows(e'[c], rt')
  BY <1>2, <1>4, <1>5 DEF Inv, All
<1>8. Spare(e'[Utility])
  BY <1>1, <1>4, <1>5 DEF Inv, Spare
<1>9. rt' <= spent'.runtimes /\ up' \in {0, spent'.runtimes}
  BY <1>2 DEF Inv
<1>10. up' \in 0..MaxRuntimes
  BY <1>1, <1>2, Zero
<1> QED BY <1>1, <1>2, <1>5, <1>6, <1>7, <1>8, <1>9, <1>10, ForAll

LEMMA DisconnectRuntimeKeeps == ASSUME Inv, Mishaps \subseteq {"terminal"}, DisconnectRuntime PROVE Inv'
<1> DEFINE st(x) == e[x].stale \/ e[x].pc # "idle"
           z(x) == [e[x] EXCEPT !.stale = st(x), !.rid = 0]
           y(x) == IF e[x].has THEN Disconnect(z(x)) ELSE z(x)
<1>1. /\ up \in 0..MaxRuntimes /\ e \in [All -> Entries] /\ Utility \in All
      /\ rt' = 0 /\ up' = up /\ spent' = spent /\ spent \in Spents /\ bind' \in Outcomes
  BY Calmness DEF All, DisconnectRuntime, Outcomes
<1>2. e' = [x \in All |-> y(x)] /\ \A x \in All : e[x].pc # "replacing"
  BY DEF DisconnectRuntime, Calm
<1>3. ASSUME NEW x \in All
      PROVE  /\ y(x) \in Entries /\ Shape(y(x))
             /\ x \in Channels => Follows(y(x), 0)
             /\ x = Utility => Spare(y(x))
  <2> DEFINE w == z(x)
             v == y(x)
  <2>1. e[x] \in Entries /\ st(x) \in BOOLEAN
    BY <1>1, <1>3, Fields
  <2>2. /\ Shape(e[x]) /\ (x \in Channels => Follows(e[x], rt)) /\ (x = Utility => Spare(e[x]))
        /\ e[x].pc # "replacing"
    BY <1>2, <1>3 DEF Inv, Spare
  <2>3. w.pc # "idle" => w.stale
    BY <2>1, Zenon DEF Entries
  <2>4. w \in Entries /\ w.life = e[x].life /\ w.rid = 0 /\ w.leaked = e[x].leaked /\ Wired(e[x], w)
    <3> HIDE DEF st
    <3> QED BY <2>1, Zero, Zenon DEF Entries, Wired
  <2>5. w.rt = e[x].rt /\ w.joined = e[x].joined /\ w.queued = e[x].queued
    <3> HIDE DEF st
    <3> QED BY <2>1, Zenon DEF Entries
  <2>6. w.pc = e[x].pc /\ w.sock = e[x].sock /\ w.timer = e[x].timer /\ w.tries = e[x].tries
    <3> HIDE DEF st
    <3> QED BY <2>1, Zenon DEF Entries
  <2>7. v = IF e[x].has THEN Disconnect(w) ELSE w
    OBVIOUS
  <2> HIDE DEF w
  <2>8. v \in Entries /\ Owned(w, v) /\ Wired(w, v) /\ Flying(w, v) /\ ~Alive(v)
        /\ v.pc = (IF w.pc = "connecting" THEN "abandoned" ELSE w.pc)
    <3>1. CASE e[x].has
      BY <2>4, <2>7, <3>1, DisconnectIs
    <3>2. CASE ~e[x].has
      <4>1. e[x].pc # "connecting" /\ ~Alive(e[x])
        BY <2>2, <3>2 DEF Shape, Going
      <4>2. ~Alive(w)
        BY <2>6, <4>1 DEF Alive
      <4>3. v = w
        BY <2>7, <3>2
      <4> QED BY <2>4, <2>6, <4>1, <4>2, <4>3 DEF Owned, Wired, Flying
    <3> QED BY <3>1, <3>2
  <2> HIDE DEF v
  <2>9. v.pc # "replacing" /\ v.pc # "connecting" /\ (v.pc = "idle" <=> e[x].pc = "idle")
    BY <2>2, <2>6, <2>8
  <2>10. Shape(v) /\ (x = Utility => Spare(v))
    BY <2>2, <2>4, <2>5, <2>8, <2>9 DEF Shape, Spare, Owned, Flying, Alive, Going
  <2>11. v.rt \in 0..MaxRuntimes
    BY <2>8, Fields
  <2>12. x \in Channels => Follows(v, 0)
    BY <2>2, <2>3, <2>4, <2>6, <2>8, <2>9, <2>11 DEF Follows, Owned, Wired, Flying, Going
  <2> QED BY <2>8, <2>10, <2>12 DEF v
<1> HIDE DEF y
<1>4. e' \in [All -> Entries] /\ \A x \in All : e'[x] = y(x)
  BY <1>2, <1>3
<1>5. \A x \in All : Shape(e'[x])
  BY <1>3, <1>4
<1>6. \A c \in Channels : Follows(e'[c], rt')
  BY <1>1, <1>3, <1>4 DEF All
<1>7. Spare(e'[Utility])
  BY <1>1, <1>3, <1>4
<1>8. rt' <= spent'.runtimes /\ up' \in {0, spent'.runtimes}
  BY <1>1 DEF Inv, Spents
<1> QED BY <1>1, <1>4, <1>5, <1>6, <1>7, <1>8, Zero, ForAll

-----------------------------------------------------------------------------
(* The steps of the sockets and timers.                                    *)

LEMMA ConnectOkKeeps == ASSUME Inv, Mishaps \subseteq {"terminal"}, NEW x \in All, ConnectOk(x) PROVE Inv'
<1> DEFINE y == [e[x] EXCEPT !.sock = "open", !.tries = 0]
<1>1. Steady /\ rt \in 0..MaxRuntimes /\ e[x] \in Entries
  BY Calmness DEF ConnectOk
<1>2. /\ Shape(e[x]) /\ (x \in Channels => Follows(e[x], rt)) /\ (x = Utility => Spare(e[x]))
      /\ e[x].sock = "hello"
  BY DEF Inv, Spare, ConnectOk
<1>3. \/ (y.pc = "idle" \/ x = Utility) /\ Conclude(x, y, TRUE)
      \/ /\ ~(y.pc = "idle" \/ x = Utility) /\ (y.stale \/ y.life # "registered")
         /\ Conclude(x, IF y.has THEN Disconnect(y) ELSE y, FALSE)
      \/ /\ ~(y.pc = "idle" \/ x = Utility) /\ ~(y.stale \/ y.life # "registered")
         /\ e[Utility].pc # "replacing" /\ Conclude(x, [y EXCEPT !.rid = y.rt], TRUE)
  BY DEF ConnectOk, Calm
<1>4. y \in Entries /\ Owned(e[x], y) /\ Wired(e[x], y)
  BY <1>1, Zero, Zenon DEF Entries, Owned, Wired
<1>5. Flying(e[x], y) /\ y.pc = e[x].pc
  BY <1>1, Zenon DEF Entries, Flying
<1>6. y.sock = "open" /\ y.timer = e[x].timer
  BY <1>1, Zenon DEF Entries
<1> HIDE DEF y
<1>7. /\ e[x].has /\ ~e[x].timer /\ e[x].life \in {"new", "registered"} /\ e[x].pc \in {"idle", "connecting"}
      /\ ~e[x].leaked
  BY <1>1, <1>2, Fields DEF Shape, Alive
<1>8. Ends(y) /\ y.has
  BY <1>4, <1>6, <1>7 DEF Ends, Owned, Wired
<1>9. CASE (y.pc = "idle" \/ x = Utility) /\ Conclude(x, y, TRUE)
  <2>1. x = Utility => y.queued = {} /\ y.life = "new"
    BY <1>2, <1>4, <1>5 DEF Spare, Owned, Flying
  <2>2. e[x].pc = "idle" => Shape(y)
    BY <1>2, <1>4, <1>5, <1>6, <1>7 DEF Shape, Owned, Wired, Flying, Alive, Going
  <2>3. x \in Channels /\ e[x].pc = "idle" => Follows(y, rt)
    BY <1>2, <1>4, <1>5, <1>6, <1>7 DEF Follows, Owned, Wired, Flying, Alive, Going
  <2>4. x \in Channels => e[x].pc = "idle"
    BY <1>5, <1>9, ConstantAssumption
  <2>5. x # Utility => "register" \notin e[x].joined
    BY <1>2, <1>5, <1>9 DEF Shape
  <2> QED BY <1>1, <1>4, <1>8, <1>9, <2>1, <2>2, <2>3, <2>4, <2>5, ConcludeKeeps
<1>10. CASE /\ ~(y.pc = "idle" \/ x = Utility) /\ (y.stale \/ y.life # "registered")
            /\ Conclude(x, IF y.has THEN Disconnect(y) ELSE y, FALSE)
  <2> DEFINE w == Disconnect(y)
  <2>1. Conclude(x, w, FALSE)
    BY <1>8, <1>10
  <2>2. /\ w \in Entries /\ Owned(y, w) /\ Wired(y, w) /\ Flying(y, w) /\ ~Alive(w)
    BY <1>4, DisconnectIs
  <2> HIDE DEF w
  <2>3. Ends(w)
    BY <1>8, <2>2 DEF Ends, Owned, Wired, Alive
  <2>4. x \in Channels /\ Follows(e[x], rt) /\ e[x].pc # "idle"
    BY <1>2, <1>5, <1>10 DEF All
  <2>5. w.life # "new" /\ w.rid <= rt /\ (w.rid = rt /\ rt # 0 => w.url = rt)
    BY <1>4, <2>2, <2>4 DEF Follows, Owned, Wired
  <2> QED BY <1>1, <1>10, <2>1, <2>2, <2>3, <2>4, <2>5, ConcludeKeeps
<1>11. CASE /\ ~(y.pc = "idle" \/ x = Utility) /\ ~(y.stale \/ y.life # "registered")
            /\ e[Utility].pc # "replacing" /\ Conclude(x, [y EXCEPT !.rid = y.rt], TRUE)
  <2> DEFINE w == [y EXCEPT !.rid = y.rt]
  <2>0. y.rt \in 0..MaxRuntimes
    BY <1>4, Fields
  <2>1. Conclude(x, w, TRUE)
    BY <1>11
  <2>2. w \in Entries /\ w.life = y.life /\ w.leaked = y.leaked /\ Wired(y, w) /\ w.rid = y.rt
    BY <1>4, <2>0, Zenon DEF Entries, Wired
  <2>3. w.sock = y.sock /\ w.timer = y.timer /\ w.queued = y.queued
    BY <1>4, Zenon DEF Entries
  <2> HIDE DEF w
  <2>4. Ends(w)
    BY <1>6, <1>7, <1>8, <2>2, <2>3 DEF Ends, Wired, Alive
  <2>5. x \in Channels /\ Follows(e[x], rt) /\ e[x].pc = "connecting"
    BY <1>2, <1>5, <1>7, <1>11 DEF All
  <2>6. w.rid = rt /\ w.url = rt
    BY <1>4, <1>5, <1>11, <2>2, <2>5 DEF Follows, Wired, Flying
  <2>7. w.life # "new" /\ w.rid <= rt
    BY <1>1, <1>11, <2>2, <2>6
  <2> QED BY <1>1, <1>11, <2>1, <2>2, <2>4, <2>5, <2>6, <2>7, ConcludeKeeps
<1> QED BY <1>3, <1>9, <1>10, <1>11

(* What fails on the way to an earlier runtime has somebody who waits.     *)
LEMMA ConnectFailsKeeps == ASSUME Inv, Mishaps \subseteq {"terminal"}, NEW x \in All, ConnectFails(x) PROVE Inv'
<1> DEFINE z == Broken(e[x])
           y == [z EXCEPT !.leaked = z.leaked \/ FALSE]
<1>1. rt \in 0..MaxRuntimes /\ e[x] \in Entries
  BY Calmness
<1>2. Steady
  BY Calmness DEF ConnectFails
<1>3. /\ Shape(e[x]) /\ (x \in Channels => Follows(e[x], rt)) /\ (x = Utility => Spare(e[x]))
      /\ e[x].sock = "hello"
  BY DEF Inv, Spare, ConnectFails
<1>4. Conclude(x, y, FALSE)
  BY DEF ConnectFails
<1>5. /\ z \in Entries /\ Owned(e[x], z) /\ Wired(e[x], z) /\ Flying(e[x], z) /\ z.pc = e[x].pc
      /\ z.sock = "none" /\ z.timer = (e[x].tries < MaxAttempts) /\ z.tries = e[x].tries
  BY <1>1, BrokenIs
<1> HIDE DEF z
<1>6. y \in Entries
  <2>1. (z.leaked \/ FALSE) \in BOOLEAN
    OBVIOUS
  <2> QED BY <1>5, <2>1, Zenon DEF Entries
<1>7. y.life = z.life /\ y.rid = z.rid /\ Wired(z, y) /\ Flying(z, y)
  BY <1>5, Zenon DEF Entries, Wired, Flying
<1>8. y.pc = z.pc /\ y.sock = z.sock /\ y.timer = z.timer /\ y.tries = z.tries
  BY <1>5, Zenon DEF Entries
<1>9. ~y.leaked
  <2>1. ~z.leaked
    BY <1>3, <1>5 DEF Shape, Owned
  <2>2. y.leaked = (z.leaked \/ FALSE)
    BY <1>5, Zenon DEF Entries
  <2> QED BY <2>1, <2>2
<1> HIDE DEF y
<1>10. e[x].has /\ e[x].life \in {"new", "registered"} /\ e[x].pc \in {"idle", "connecting"}
  BY <1>1, <1>3, Fields DEF Shape, Alive
<1>11. /\ y.life = e[x].life /\ y.rid = e[x].rid /\ y.has /\ y.url = e[x].url /\ Flying(e[x], y)
       /\ y.pc = e[x].pc /\ y.sock = "none" /\ (y.timer => y.tries < MaxAttempts)
  BY <1>5, <1>7, <1>8, <1>10 DEF Owned, Wired, Flying
<1>12. Ends(y)
  BY <1>9, <1>10, <1>11 DEF Ends
<1>13. x = Utility => y.queued = {} /\ y.life = "new"
  BY <1>3, <1>11 DEF Spare, Flying
<1>14. e[x].pc = "idle" => Shape(y)
  BY <1>3, <1>9, <1>10, <1>11 DEF Shape, Flying, Alive, Going
<1>15. x \in Channels /\ e[x].pc = "idle" => Follows(y, rt)
  BY <1>3, <1>10, <1>11 DEF Follows, Flying, Alive, Going
<1>16. x \in Channels /\ e[x].pc # "idle" =>
         /\ y.life # "new" /\ y.rid <= rt /\ (y.rid = rt /\ rt # 0 => y.url = rt)
         /\ Alive(y) /\ (y.queued = {} \/ Refused(y, rt)) => y.url = rt
  BY <1>3, <1>10, <1>11 DEF Follows, Refused, Flying, Going
<1> QED BY <1>1, <1>2, <1>4, <1>6, <1>12, <1>13, <1>14, <1>15, <1>16, ConcludeKeeps

LEMMA AbandonedFailsKeeps == ASSUME Inv, NEW x \in All, AbandonedFails(x) PROVE Inv'
<1>1. Steady /\ rt \in 0..MaxRuntimes /\ e[x] \in Entries /\ Conclude(x, e[x], FALSE) /\ e[x].pc = "abandoned"
  BY Calmness DEF AbandonedFails
<1>2. Shape(e[x]) /\ (x \in Channels => Follows(e[x], rt)) /\ (x = Utility => Spare(e[x]))
  BY DEF Inv, Spare
<1>3. ~Alive(e[x]) /\ Ends(e[x])
  BY <1>1, <1>2 DEF Shape, Ends
<1>4. x \in Channels => e[x].life # "new" /\ e[x].rid <= rt /\ (e[x].rid = rt /\ rt # 0 => e[x].url = rt)
  BY <1>1, <1>2 DEF Follows
<1>5. x = Utility => e[x].queued = {} /\ e[x].life = "new"
  BY <1>2 DEF Spare
<1> QED BY <1>1, <1>2, <1>3, <1>4, <1>5, ConcludeKeeps

LEMMA ReplacedKeeps == ASSUME Inv, NEW x \in All, Replaced(x) PROVE Inv'
<1> DEFINE z == [e[x] EXCEPT !.url = e[x].rt]
           w == Open(z, "connect")
           y == [w EXCEPT !.pc = "connecting"]
<1>1. /\ Steady /\ rt \in 0..MaxRuntimes /\ e[x] \in Entries /\ e[x].pc = "replacing" /\ bind \in Outcomes
      /\ e \in [All -> Entries]
  BY Calmness DEF Replaced
<1>2. Shape(e[x]) /\ (x \in Channels => Follows(e[x], rt)) /\ (x = Utility => Spare(e[x]))
  BY DEF Inv, Spare
<1>3. e[x].has /\ e[x].sock = "none" /\ ~e[x].timer /\ e[x].life \in {"new", "registered"}
  BY <1>1, <1>2, Fields DEF Shape, Going, Alive
<1>4. e[x].rt \in 0..MaxRuntimes
  BY <1>1, Fields
<1>5. z \in Entries /\ Owned(e[x], z) /\ z.has = e[x].has /\ z.url = e[x].rt
  BY <1>1, <1>4, Zenon DEF Entries, Owned
<1>6. Flying(e[x], z) /\ z.sock = e[x].sock
  BY <1>1, <1>4, Zenon DEF Entries, Flying
<1>7. IF w.has THEN e' = [e EXCEPT ![x] = y] /\ UNCHANGED bind ELSE Conclude(x, w, FALSE)
  BY DEF Replaced
<1> HIDE DEF z
<1>8. /\ w \in Entries /\ Owned(z, w) /\ Wired(z, w) /\ Flying(z, w) /\ w.sock = "hello" /\ ~w.timer
  BY <1>3, <1>5, <1>6, OpenIs
<1> HIDE DEF w
<1>9. y \in Entries /\ Owned(w, y) /\ Wired(w, y) /\ Flying(w, y)
  BY <1>8, Zenon DEF Entries, Owned, Wired, Flying
<1>10. y.pc = "connecting" /\ y.sock = w.sock /\ y.timer = w.timer
  BY <1>8, Zenon DEF Entries
<1> HIDE DEF y
<1>11. e' = [e EXCEPT ![x] = y] /\ bind' \in Outcomes
  BY <1>1, <1>3, <1>5, <1>7, <1>8 DEF Wired
<1>12. /\ Owned(e[x], y) /\ y.has /\ y.url = e[x].rt /\ Flying(e[x], y)
       /\ y.sock = "hello" /\ ~y.timer
  BY <1>3, <1>5, <1>6, <1>8, <1>9, <1>10 DEF Owned, Wired, Flying
<1>13. Shape(y)
  BY <1>2, <1>3, <1>10, <1>12 DEF Shape, Owned, Alive, Going
<1>14. x \in Channels => Follows(y, rt)
  <2>1. e[x].rid \in 0..MaxRuntimes
    BY <1>1, Fields
  <2> QED BY <1>1, <1>2, <1>4, <1>10, <1>12, <2>1 DEF Follows, Owned, Flying, Going
<1>15. x = Utility => Spare(y)
  BY <1>2, <1>12, <1>13 DEF Spare, Owned, Flying
<1> QED BY <1>1, <1>9, <1>11, <1>13, <1>14, <1>15, ForOne

LEMMA ClosedKeeps == ASSUME Inv, NEW x \in All, Closed(x) PROVE Inv'
<1> DEFINE y == Broken(e[x])
<1>1. rt \in 0..MaxRuntimes /\ e[x] \in Entries /\ e \in [All -> Entries]
  BY Calmness
<1>2. Steady /\ bind' \in Outcomes /\ e' = [e EXCEPT ![x] = y] /\ e[x].sock = "open"
  BY <1>1, Calmness DEF Closed
<1>3. Shape(e[x]) /\ (x \in Channels => Follows(e[x], rt)) /\ (x = Utility => Spare(e[x]))
  BY DEF Inv, Spare
<1>4. /\ y \in Entries /\ Owned(e[x], y) /\ Wired(e[x], y) /\ Flying(e[x], y) /\ y.pc = e[x].pc
      /\ y.sock = "none" /\ y.timer = (e[x].tries < MaxAttempts) /\ y.tries = e[x].tries
  BY <1>1, BrokenIs
<1> HIDE DEF y
<1>5. e[x].has /\ e[x].life \in {"new", "registered"} /\ e[x].pc = "idle"
  BY <1>1, <1>2, <1>3, Fields DEF Shape, Alive
<1>6. Shape(y)
  BY <1>3, <1>4, <1>5 DEF Shape, Owned, Wired, Flying, Alive, Going
<1>7. x \in Channels => Follows(y, rt)
  BY <1>2, <1>3, <1>4, <1>5 DEF Follows, Owned, Wired, Flying, Alive, Going
<1>8. x = Utility => Spare(y)
  BY <1>3, <1>4, <1>6 DEF Spare, Owned, Flying
<1> QED BY <1>2, <1>4, <1>6, <1>7, <1>8, ForOne

LEMMA ClosedForGoodKeeps == ASSUME Inv, NEW x \in All, ClosedForGood(x) PROVE Inv'
<1> DEFINE y == [e[x] EXCEPT !.sock = "deaf"]
<1>1. rt \in 0..MaxRuntimes /\ e[x] \in Entries /\ e \in [All -> Entries]
  BY Calmness
<1>2. Steady /\ bind' \in Outcomes /\ e' = [e EXCEPT ![x] = y] /\ e[x].sock = "open"
  BY <1>1, Calmness DEF ClosedForGood
<1>3. Shape(e[x]) /\ (x \in Channels => Follows(e[x], rt)) /\ (x = Utility => Spare(e[x]))
  BY DEF Inv, Spare
<1>4. y \in Entries /\ Owned(e[x], y) /\ Wired(e[x], y) /\ Flying(e[x], y)
  BY <1>1, Zenon DEF Entries, Owned, Wired, Flying
<1>5. y.pc = e[x].pc /\ y.sock = "deaf" /\ y.timer = e[x].timer
  BY <1>1, Zenon DEF Entries
<1> HIDE DEF y
<1>6. e[x].has /\ ~e[x].timer /\ e[x].life \in {"new", "registered"} /\ e[x].pc = "idle"
  BY <1>1, <1>2, <1>3, Fields DEF Shape, Alive
<1>7. Shape(y)
  BY <1>3, <1>4, <1>5, <1>6 DEF Shape, Owned, Wired, Flying, Alive, Going
<1>8. x \in Channels => Follows(y, rt)
  BY <1>2, <1>3, <1>4, <1>5, <1>6 DEF Follows, Owned, Wired, Flying, Alive, Going
<1>9. x = Utility => Spare(y)
  BY <1>3, <1>4, <1>7 DEF Spare, Owned, Flying
<1> QED BY <1>2, <1>4, <1>7, <1>8, <1>9, ForOne

LEMMA RetryFiresKeeps == ASSUME Inv, NEW x \in All, RetryFires(x) PROVE Inv'
<1> DEFINE y == Open(e[x], "retry")
<1>1. rt \in 0..MaxRuntimes /\ e[x] \in Entries /\ e \in [All -> Entries]
  BY Calmness
<1>2. Steady /\ bind' \in Outcomes /\ e' = [e EXCEPT ![x] = y] /\ e[x].timer
  BY <1>1, Calmness DEF RetryFires
<1>3. Shape(e[x]) /\ (x \in Channels => Follows(e[x], rt)) /\ (x = Utility => Spare(e[x]))
  BY DEF Inv, Spare
<1>4. /\ e[x].sock = "none" /\ e[x].tries < MaxAttempts /\ e[x].has
      /\ e[x].life \in {"new", "registered"} /\ e[x].pc = "idle"
  BY <1>1, <1>2, <1>3, Fields DEF Shape, Alive
<1>5. /\ y \in Entries /\ Owned(e[x], y) /\ Wired(e[x], y) /\ Flying(e[x], y) /\ y.pc = e[x].pc
      /\ y.sock = "hello" /\ ~y.timer
  BY <1>1, <1>4, OpenIs
<1> HIDE DEF y
<1>6. Shape(y)
  BY <1>3, <1>4, <1>5 DEF Shape, Owned, Wired, Flying, Alive, Going
<1>7. x \in Channels => Follows(y, rt)
  BY <1>2, <1>3, <1>4, <1>5 DEF Follows, Owned, Wired, Flying, Alive, Going
<1>8. x = Utility => Spare(y)
  BY <1>3, <1>5, <1>6 DEF Spare, Owned, Flying
<1> QED BY <1>2, <1>5, <1>6, <1>7, <1>8, ForOne

-----------------------------------------------------------------------------
(* The runtime process, and all steps.                                     *)

LEMMA SpawnKeeps == ASSUME Inv, Spawn PROVE Inv'
<1>1. /\ rt \in 0..MaxRuntimes /\ spent \in Spents /\ bind \in Outcomes /\ spent.runtimes \in 0..MaxRuntimes
      /\ e \in [All -> Entries] /\ Utility \in All
  BY Calmness DEF All
<1>2. /\ spent.runtimes + 1 \in 0..MaxRuntimes /\ up' = spent.runtimes + 1 /\ rt' = rt /\ e' = e /\ bind' = bind
      /\ spent' = [spent EXCEPT !.runtimes = spent.runtimes + 1, !.binds = 0]
  BY <1>1, ConstantAssumption DEF Spawn
<1>3. 0 \in 0..MaxBinds
  BY ConstantAssumption
<1>4. spent' \in Spents /\ spent'.runtimes = spent.runtimes + 1
  BY <1>1, <1>2, <1>3, Zenon DEF Spents
<1>5. rt' <= spent'.runtimes /\ up' \in {0, spent'.runtimes}
  BY <1>1, <1>2, <1>4 DEF Inv
<1>6. Spare(e'[Utility]) /\ \A x \in All : Shape(e'[x])
  BY <1>1, <1>2 DEF Inv, Spare
<1>7. \A c \in Channels : Follows(e'[c], rt')
  BY <1>2 DEF Inv
<1> QED BY <1>1, <1>2, <1>4, <1>5, <1>6, <1>7, ForAll

LEMMA ExitKeeps == ASSUME Inv, Exit PROVE Inv'
<1>1. /\ rt \in 0..MaxRuntimes /\ spent \in Spents /\ bind \in Outcomes /\ e \in [All -> Entries] /\ Utility \in All
      /\ up \in 0..MaxRuntimes
  BY Calmness DEF All
<1>2. up' = 0 /\ rt' = rt /\ e' = e /\ bind' = bind
  BY DEF Exit
<1>3. spent' \in Spents /\ spent'.runtimes = spent.runtimes
  <2>1. UNCHANGED spent \/ Fault
    BY DEF Exit
  <2>2. CASE Fault
    <3>1. spent.faults + 1 \in 0..MaxFaults /\ spent' = [spent EXCEPT !.faults = spent.faults + 1]
      BY <1>1, <2>2, ConstantAssumption DEF Fault, Spents
    <3> QED BY <1>1, <3>1, Zenon DEF Spents
  <2> QED BY <1>1, <2>1, <2>2
<1>4. Spare(e'[Utility]) /\ \A x \in All : Shape(e'[x])
  BY <1>1, <1>2 DEF Inv, Spare
<1>5. \A c \in Channels : Follows(e'[c], rt')
  BY <1>2 DEF Inv
<1>6. rt' <= spent'.runtimes /\ up' \in {0, spent'.runtimes}
  BY <1>2, <1>3 DEF Inv
<1> QED BY <1>1, <1>2, <1>3, <1>4, <1>5, <1>6, Zero, ForAll

LEMMA InitInv == Init => Inv
<1> SUFFICES ASSUME Init PROVE Inv
  OBVIOUS
<1>1. NoEntry \in Entries
  BY Zero, Zenon DEF NoEntry, Entries
<1>2. Shape(NoEntry) /\ Follows(NoEntry, 0)
  BY DEF NoEntry, Shape, Follows, Alive, Going
<1>3. e \in [All -> Entries] /\ \A x \in All : e[x] = NoEntry
  BY <1>1 DEF Init
<1>4. spent \in Spents /\ spent.runtimes = 0
  BY ConstantAssumption DEF Init, Spents
<1>5. \A x \in All : e[x].pc = "idle" => e[x].joined = {} /\ e[x].queued = {}
  BY <1>3 DEF NoEntry
<1>6. \A x \in All : e[x].timer => e[x].sock = "none"
  BY <1>3 DEF NoEntry
<1>7. TypeOK
  BY <1>3, <1>4, <1>5, <1>6, Zero DEF Init, TypeOK
<1>8. e[Utility].queued = {} /\ e[Utility].life = "new"
  BY <1>3 DEF All, NoEntry
<1>9. rt <= spent.runtimes /\ up \in {0, spent.runtimes} /\ rt = 0
  BY <1>4 DEF Init
<1>10. (\A x \in All : Shape(e[x])) /\ (\A c \in Channels : Follows(e[c], rt))
  BY <1>2, <1>3, <1>9 DEF All
<1> QED BY <1>7, <1>8, <1>9, <1>10 DEF Inv

LEMMA NextInv == ASSUME Mishaps \subseteq {"terminal"} PROVE Inv /\ [Next]_vars => Inv'
<1> SUFFICES ASSUME Inv, [Next]_vars PROVE Inv'
  OBVIOUS
<1>1. ASSUME NEW c \in Channels, Register(c) \/ Ask(c) \/ Unregister(c) \/ Unregistered(c) PROVE Inv'
  BY <1>1, RegisterKeeps, AskKeeps, UnregisterKeeps, UnregisteredKeeps
<1>2. CASE AskUtility \/ BindRuntime \/ BindSucceeds \/ BindFails \/ DisconnectRuntime
  BY <1>2, AskUtilityKeeps, BindRuntimeKeeps, BindSucceedsKeeps, BindFailsKeeps, DisconnectRuntimeKeeps
<1>3. ASSUME NEW x \in All, ConnectOk(x) \/ ConnectFails(x) \/ AbandonedFails(x) \/ Replaced(x) PROVE Inv'
  BY <1>3, ConnectOkKeeps, ConnectFailsKeeps, AbandonedFailsKeeps, ReplacedKeeps
<1>4. ASSUME NEW x \in All, Closed(x) \/ ClosedForGood(x) \/ RetryFires(x) PROVE Inv'
  BY <1>4, ClosedKeeps, ClosedForGoodKeeps, RetryFiresKeeps
<1>5. CASE Spawn \/ Exit
  BY <1>5, SpawnKeeps, ExitKeeps
<1>6. CASE UNCHANGED vars
  <2>1. TypeOK' /\ (\A x \in All : Shape(e'[x])) /\ (\A c \in Channels : Follows(e'[c], rt'))
    BY <1>6 DEF Inv, TypeOK, vars
  <2> QED BY <1>6, <2>1 DEF Inv, vars
<1> QED BY <1>1, <1>2, <1>3, <1>4, <1>5, <1>6 DEF Next

(* The invariant holds for ever, whatever fails and however many runtimes  *)
(* come and go: connectEntry, ensure and bindRuntime of the registry.      *)
THEOREM InvAlways == ASSUME Mishaps \subseteq {"terminal"} PROVE Spec => []Inv
<1>1. Inv /\ [Next]_vars => Inv'
  BY NextInv
<1> QED BY InitInv, <1>1, PTL DEF Spec

(* A channel at rest is connected to the bound runtime or to none, and one *)
(* that is closed holds nothing: no socket, no timer, nothing that only    *)
(* the runtime still knows.                                                *)
THEOREM SoundAlways == ASSUME Mishaps \subseteq {"terminal"} PROVE Spec => []Sound
<1>1. Inv => Sound
  <2> SUFFICES ASSUME Inv PROVE Sound
    OBVIOUS
  <2>1. NoStale
    BY DEF Inv, NoStale, Registered, Follows, Alive
  <2>2. NoOrphan
    BY DEF Inv, NoOrphan, Shape, Alive
  <2> QED BY <2>1, <2>2 DEF Inv, Sound
<1> QED BY <1>1, InvAlways, PTL

=============================================================================
