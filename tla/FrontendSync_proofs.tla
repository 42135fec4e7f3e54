------------------------- MODULE FrontendSync_proofs -------------------------
(* Proofs about FrontendSync, for any number of patches, instances, lost   *)
(* connections, failures and timers.                                       *)
EXTENDS FrontendSync, FiniteSetTheorems, SequenceTheorems, WellFoundedInduction, TLAPS

-----------------------------------------------------------------------------
(* The inductive invariant.                                                *)

ReplyTypes == {"negotiated", "bootstrapped", "replayed", "resync-required", "failed"}
Cuts == {"bootstrapped", "replayed"}
Subscribing == sync \in {"subscribing", "resubscribing"}

IsReply(m) == m.type \in ReplyTypes
Fresh(m) == IsReply(m) /\ m.current
IsPatch(m) == m.type = "patch"

(* Without a connection nothing is on its way and nobody waits.            *)
Cut ==
  ~conn =>
    /\ up = <<>> /\ answer = Silence /\ down = <<>> /\ buffer = {}
    /\ ~cutover /\ ~caps /\ sync = "none" /\ ~restoring /\ ~srv.subscribed

(* Requests are answered in their order: behind a request or an answer of  *)
(* this epoch there is no other.                                           *)
InOrder ==
  /\ \A i \in 1..Len(up) : up[i].current => i = Len(up)
  /\ Fresh(answer) => up = <<>>
  /\ \A i \in 1..Len(down) : Fresh(down[i]) =>
       /\ up = <<>> /\ answer = Silence
       /\ \A j \in (i + 1)..Len(down) : ~IsReply(down[j])

(* What is on its way is what the controller waits for.                    *)
Expected ==
  /\ sync = "none" =>
       /\ \A i \in 1..Len(up) : ~up[i].current
       /\ ~Fresh(answer)
       /\ \A i \in 1..Len(down) : ~Fresh(down[i])
  /\ sync = "negotiating" =>
       /\ \A i \in 1..Len(up) : up[i].current => up[i].type = "negotiate"
       /\ ~Fresh(answer)
       /\ \A i \in 1..Len(down) : Fresh(down[i]) => down[i].type \in {"negotiated", "failed"}
  /\ Subscribing =>
       /\ cutover
       /\ \A i \in 1..Len(up) : up[i].current /\ up[i].type = "subscribe"
       /\ IsReply(answer) => Fresh(answer)
       /\ \A i \in 1..Len(down) : IsReply(down[i]) => Fresh(down[i]) /\ down[i].type # "negotiated"
  /\ answer.type # "negotiated"

(* Patches are those of the running instance, oldest first.                *)
Sequenced ==
  /\ \A i \in 1..Len(down) : IsPatch(down[i]) =>
       /\ down[i].instance = srv.instance /\ down[i].sequence <= srv.head
       /\ \A j \in (i + 1)..Len(down) : IsPatch(down[j]) => down[i].sequence < down[j].sequence
  /\ \A p \in buffer :
       /\ p.instance = srv.instance /\ p.sequence <= srv.head
       /\ \A i \in 1..Len(down) : IsPatch(down[i]) => p.sequence < down[i].sequence

(* A cut is not older than the store, and a replay begins before it ends.  *)
CutSound(m) ==
  Fresh(m) /\ m.type \in Cuts =>
    /\ m.sequence <= srv.head
    /\ m.type = "replayed" => m.base <= m.sequence
    /\ store.instance = srv.instance => store.sequence <= m.sequence

Replicated ==
  /\ store.content = [i \in 1..store.sequence |-> i]
  /\ store.instance <= srv.instance
  /\ store.instance = srv.instance => store.sequence <= srv.head
  /\ CutSound(answer)
  /\ \A i \in 1..Len(down) : CutSound(down[i])

(* The lifecycle follows the synchronisation unless something fails.       *)
Admitted == CapabilitiesFresh /\ (caps => sync = "none")

Led ==
  /\ sync # "none" => life # "live"
  /\ spent.malformed = 0 => \A i \in 1..Len(down) : down[i].type # "malformed"
  /\ Untroubled =>
       /\ ~illegal /\ Progressing
       /\ Subscribing => life \in {"bootstrapping", "replaying"}

(* While no patch is skipped, what is newer than the cut, or than the      *)
(* store of a live view, is buffered or on its way.                        *)
Whole == spent.gaps = 0 /\ spent.malformed = 0
Coming(n) == \E i \in 1..Len(down) : down[i] = Patch(srv.instance, n)

Covered(m) ==
  Fresh(m) /\ m.type \in Cuts =>
    /\ srv.subscribed
    /\ \A n \in (m.sequence + 1)..srv.head : Patch(srv.instance, n) \in buffer \/ Coming(n)

Complete ==
  Whole =>
    /\ Covered(answer)
    /\ \A i \in 1..Len(down) : Covered(down[i])
    /\ life = "live" /\ conn /\ ~restoring =>
         /\ srv.subscribed /\ ~cutover /\ store.instance = srv.instance
         /\ \A n \in (store.sequence + 1)..srv.head : Coming(n)

Inv == TypeOK /\ Cut /\ InOrder /\ Expected /\ Sequenced /\ Replicated /\ Admitted /\ Led /\ Complete

-----------------------------------------------------------------------------
(* Messages and sequences of them.                                         *)

Msgs == Patches \cup Replies \cup Malformed

LEMMA MsgIs ==
  ASSUME NEW m \in Msgs
  PROVE  \/ m \in Patches /\ IsPatch(m) /\ ~IsReply(m) /\ m.instance \in 1..MaxInstance /\ m.sequence \in 1..MaxHead
         \/ /\ m \in Replies /\ IsReply(m) /\ ~IsPatch(m) /\ m.current \in BOOLEAN
            /\ m.base \in 0..MaxHead /\ m.sequence \in 0..MaxHead
         \/ m \in Malformed /\ m.type = "malformed" /\ ~IsReply(m) /\ ~IsPatch(m)
<1>1. CASE m \in Patches
  BY <1>1 DEF Patches, IsPatch, IsReply, ReplyTypes
<1>2. CASE m \in Replies
  BY <1>2 DEF Replies, IsPatch, IsReply, ReplyTypes
<1>3. CASE m \in Malformed
  BY <1>3 DEF Malformed, IsPatch, IsReply, ReplyTypes
<1> QED BY <1>1, <1>2, <1>3 DEF Msgs

LEMMA SilenceIs == Silence.type = "silence" /\ ~IsReply(Silence) /\ ~Fresh(Silence) /\ Silence \notin Replies
BY DEF Silence, IsReply, Fresh, ReplyTypes, Replies

LEMMA RequestIs ==
  ASSUME NEW m \in Requests
  PROVE  m.type \in {"negotiate", "subscribe"} /\ m.current \in BOOLEAN /\ m.resume \in {NoResume} \cup 0..MaxHead
BY DEF Requests

LEMMA StaleRequest ==
  ASSUME NEW m \in Requests
  PROVE  Stale(m) \in Requests /\ ~Stale(m).current
<1>1. Stale(m) = [m EXCEPT !.current = FALSE]
  BY DEF Stale, Requests
<1> QED BY <1>1, Zenon DEF Requests

LEMMA StaleReply ==
  ASSUME NEW m \in Replies
  PROVE  Stale(m) \in Replies /\ ~Stale(m).current /\ Stale(m).type = m.type
<1>1. Stale(m) = [m EXCEPT !.current = FALSE]
  BY DEF Stale, Replies
<1> QED BY <1>1, Zenon DEF Replies

LEMMA StaleOther ==
  ASSUME NEW m, m \in Patches \/ m \in Malformed \/ m = Silence
  PROVE  Stale(m) = m
BY DEF Stale, Patches, Malformed, Silence

(* An answer, and a message to the client, once its epoch has ended.       *)
LEMMA StaleIs ==
  /\ \A m \in Replies \cup {Silence} :
       Stale(m) \in Replies \cup {Silence} /\ ~Fresh(Stale(m)) /\ Stale(m).type = m.type
  /\ \A m \in Msgs :
       /\ Stale(m) \in Msgs /\ ~Fresh(Stale(m)) /\ Stale(m).type = m.type
       /\ IsPatch(m) => Stale(m) = m
<1>1. \A m \in Replies \cup {Silence} :
        Stale(m) \in Replies \cup {Silence} /\ ~Fresh(Stale(m)) /\ Stale(m).type = m.type
  BY StaleReply, StaleOther, SilenceIs DEF Fresh
<1>2. ASSUME NEW m \in Msgs
      PROVE  /\ Stale(m) \in Msgs /\ ~Fresh(Stale(m)) /\ Stale(m).type = m.type
             /\ IsPatch(m) => Stale(m) = m
  BY MsgIs, StaleReply, StaleOther DEF Fresh, Msgs
<1> QED BY <1>1, <1>2

LEMMA TailIs ==
  ASSUME NEW S, NEW s \in Seq(S), s # <<>>
  PROVE  /\ Tail(s) \in Seq(S) /\ Len(s) \in Nat /\ Len(s) > 0 /\ Len(Tail(s)) = Len(s) - 1
         /\ Head(s) = s[1] /\ Head(s) \in S
         /\ \A i \in 1..Len(Tail(s)) : Tail(s)[i] = s[i + 1] /\ i + 1 \in 1..Len(s)
OBVIOUS

LEMMA AppendIs ==
  ASSUME NEW S, NEW s \in Seq(S), NEW m \in S
  PROVE  /\ Append(s, m) \in Seq(S) /\ Len(s) \in Nat /\ Len(Append(s, m)) = Len(s) + 1
         /\ Append(s, m)[Len(s) + 1] = m
         /\ \A i \in 1..Len(s) : Append(s, m)[i] = s[i]
OBVIOUS

LEMMA StaleAllIs ==
  ASSUME NEW S, NEW s \in Seq(S), \A m \in S : Stale(m) \in S
  PROVE  /\ StaleAll(s) \in Seq(S) /\ Len(StaleAll(s)) = Len(s)
         /\ \A i \in 1..Len(s) : StaleAll(s)[i] = Stale(s[i]) /\ s[i] \in S
<1>1. DOMAIN s = 1..Len(s) /\ Len(s) \in Nat /\ \A i \in 1..Len(s) : s[i] \in S
  OBVIOUS
<1>2. StaleAll(s) = [i \in 1..Len(s) |-> Stale(s[i])]
  BY <1>1 DEF StaleAll
<1> QED BY <1>1, <1>2

-----------------------------------------------------------------------------
(* The store.                                                              *)

Stores == [instance : 0..MaxInstance, sequence : 0..MaxHead, content : Seq(Nat)]
Count(n) == [i \in 1..n |-> i]

LEMMA CountIs ==
  ASSUME NEW n \in Nat
  PROVE  /\ Count(n) \in Seq(Nat) /\ Append(Count(n), n + 1) = Count(n + 1)
         /\ \A m \in Nat : m >= n => Count(n) \o [i \in 1..(m - n) |-> n + i] = Count(m)
<1>1. Count(n) \in Seq(Nat) /\ Len(Count(n)) = n
  BY DEF Count
<1>2. Append(Count(n), n + 1) = Count(n + 1)
  BY <1>1 DEF Count
<1>3. ASSUME NEW m \in Nat, m >= n
      PROVE  Count(n) \o [i \in 1..(m - n) |-> n + i] = Count(m)
  <2> DEFINE t == [i \in 1..(m - n) |-> n + i]
  <2>1. t \in Seq(Nat) /\ Len(t) = m - n /\ \A i \in 1..(m - n) : t[i] = n + i
    BY <1>3
  <2> HIDE DEF t
  <2>2. /\ Count(n) \o t \in Seq(Nat) /\ Len(Count(n) \o t) = m
        /\ \A i \in 1..m : (Count(n) \o t)[i] = IF i <= n THEN Count(n)[i] ELSE t[i - n]
    <3>1. Len(Count(n)) + Len(t) = m
      BY <1>1, <1>3, <2>1
    <3>2. /\ Count(n) \o t \in Seq(Nat) /\ Len(Count(n) \o t) = Len(Count(n)) + Len(t)
          /\ \A i \in 1..(Len(Count(n)) + Len(t)) :
               (Count(n) \o t)[i] = IF i <= Len(Count(n)) THEN Count(n)[i] ELSE t[i - Len(Count(n))]
      BY <1>1, <2>1, ConcatProperties
    <3> HIDE DEF Count
    <3> QED BY <1>1, <3>1, <3>2
  <2>3. \A i \in 1..m : (Count(n) \o t)[i] = i
    BY <1>3, <2>1, <2>2 DEF Count
  <2>4. Count(m) \in Seq(Nat) /\ Len(Count(m)) = m /\ \A i \in 1..m : Count(m)[i] = i
    BY <1>3 DEF Count
  <2>5. Count(n) \o t = Count(m)
    BY <2>2, <2>3, <2>4, SeqEqual
  <2> QED BY <2>5 DEF t
<1> QED BY <1>1, <1>2, <1>3

(* There is a first gap, for a runtime makes no more than MaxHead patches. *)
LEMMA ReachedIs ==
  ASSUME NEW st \in Stores, NEW patches \in SUBSET Patches
  PROVE  LET n == Reached(st, patches)
         IN /\ n \in st.sequence..MaxHead /\ n \in 0..MaxHead
            /\ \A k \in (st.sequence + 1)..n : Patch(st.instance, k) \in patches
            /\ Patch(st.instance, n + 1) \notin patches
<1> DEFINE T == {n \in Nat : n >= st.sequence /\ Patch(st.instance, n + 1) \notin patches}
<1>1. st.sequence \in 0..MaxHead /\ MaxHead \in Nat
  BY ConstantAssumption DEF Stores
<1>2. \A k \in Nat : Patch(st.instance, k) \in patches => k <= MaxHead
  BY DEF Patch, Patches
<1>3. MaxHead \in T
  BY <1>1, <1>2
<1>4. PICK n \in T : \A m \in T : ~(<<m, n>> \in OpToRel(<, Nat))
  <2>1. IsWellFoundedOn(OpToRel(<, Nat), Nat)
    BY NatLessThanWellFounded
  <2> QED BY <1>3, <2>1, WFMin
<1>5. /\ n \in Nat /\ n >= st.sequence /\ Patch(st.instance, n + 1) \notin patches
      /\ \A m \in T : ~(m < n)
  BY <1>4 DEF OpToRel
<1>6. ASSUME NEW k \in (st.sequence + 1)..n PROVE Patch(st.instance, k) \in patches
  <2>1. k - 1 \in Nat /\ k - 1 >= st.sequence /\ k - 1 < n /\ (k - 1) + 1 = k
    BY <1>1, <1>5, <1>6
  <2> QED BY <1>5, <2>1
<1>7. n \in st.sequence..MaxHead
  BY <1>1, <1>3, <1>5
<1>8. \E m \in st.sequence..MaxHead :
        /\ \A k \in (st.sequence + 1)..m : Patch(st.instance, k) \in patches
        /\ Patch(st.instance, m + 1) \notin patches
  BY <1>5, <1>6, <1>7
<1>9. LET m == Reached(st, patches)
      IN /\ m \in st.sequence..MaxHead
         /\ \A k \in (st.sequence + 1)..m : Patch(st.instance, k) \in patches
         /\ Patch(st.instance, m + 1) \notin patches
  BY <1>8 DEF Reached
<1> QED BY <1>1, <1>9

(* One patch more, or the same store.                                      *)
LEMMA AppliedIs ==
  ASSUME NEW st \in Stores, st.content = Count(st.sequence), NEW p \in Patches
  PROVE  LET new == Applied(st, p)
         IN IF ~NeedsResync(st, p) /\ p.sequence > st.sequence
            THEN /\ new \in Stores /\ new.instance = st.instance /\ p.instance = st.instance
                 /\ new.sequence = st.sequence + 1 /\ p.sequence = st.sequence + 1
                 /\ new.content = Count(st.sequence + 1)
            ELSE new = st
<1>1. /\ st.instance \in 0..MaxInstance /\ st.sequence \in 0..MaxHead
      /\ p.instance \in 1..MaxInstance /\ p.sequence \in 1..MaxHead /\ MaxHead \in Nat
  BY ConstantAssumption DEF Stores, Patches
<1>2. CASE ~(~NeedsResync(st, p) /\ p.sequence > st.sequence)
  BY <1>1, <1>2 DEF Applied
<1>3. CASE ~NeedsResync(st, p) /\ p.sequence > st.sequence
  <2> DEFINE c == Append(st.content, p.sequence)
             new == [st EXCEPT !.sequence = p.sequence, !.content = c]
  <2>1. p.instance = st.instance /\ p.sequence = st.sequence + 1
    BY <1>1, <1>3 DEF NeedsResync
  <2>2. c = Count(st.sequence + 1) /\ c \in Seq(Nat)
    <3>1. st.sequence \in Nat /\ st.sequence + 1 \in Nat
      BY <1>1
    <3>2. Append(Count(st.sequence), st.sequence + 1) = Count(st.sequence + 1)
      BY <3>1, CountIs
    <3>3. Count(st.sequence + 1) \in Seq(Nat)
      BY <3>1, CountIs
    <3> QED BY <2>1, <3>2, <3>3
  <2>3. Applied(st, p) = new
    BY <1>1, <1>3 DEF Applied
  <2> HIDE DEF c
  <2>4. p.sequence \in 0..MaxHead
    BY <1>1
  <2>5. new \in Stores /\ new.instance = st.instance /\ new.sequence = p.sequence /\ new.content = c
    BY <2>2, <2>4, Zenon DEF Stores
  <2> QED BY <1>3, <2>1, <2>2, <2>3, <2>5
<1> QED BY <1>2, <1>3

(* The store ends where the first gap begins.                              *)
LEMMA AppliedAllIs ==
  ASSUME NEW st \in Stores, st.content = Count(st.sequence), NEW patches \in SUBSET Patches
  PROVE  LET new == AppliedAll(st, patches)
         IN /\ new \in Stores /\ new.instance = st.instance /\ new.content = Count(new.sequence)
            /\ new.sequence >= st.sequence /\ new.sequence \in 0..MaxHead
            /\ \A k \in (st.sequence + 1)..new.sequence : Patch(st.instance, k) \in patches
            /\ Patch(st.instance, new.sequence + 1) \notin patches
<1> DEFINE n == Reached(st, patches)
           c == st.content \o [i \in 1..(n - st.sequence) |-> st.sequence + i]
           new == [st EXCEPT !.sequence = n, !.content = c]
<1>1. st.sequence \in 0..MaxHead /\ MaxHead \in Nat
  BY ConstantAssumption DEF Stores
<1>2. /\ n \in st.sequence..MaxHead /\ n \in 0..MaxHead
      /\ \A k \in (st.sequence + 1)..n : Patch(st.instance, k) \in patches
      /\ Patch(st.instance, n + 1) \notin patches
  BY ReachedIs
<1>3. AppliedAll(st, patches) = new
  BY DEF AppliedAll
<1> HIDE DEF n
<1>4. c = Count(n) /\ c \in Seq(Nat)
  <2>1. st.sequence \in Nat /\ n \in Nat /\ n >= st.sequence
    BY <1>1, <1>2
  <2>2. Count(st.sequence) \o [i \in 1..(n - st.sequence) |-> st.sequence + i] = Count(n)
    BY <2>1, CountIs
  <2>3. Count(n) \in Seq(Nat)
    BY <2>1, CountIs
  <2> QED BY <2>2, <2>3
<1> HIDE DEF c
<1>5. new \in Stores /\ new.instance = st.instance /\ new.sequence = n /\ new.content = c
  BY <1>2, <1>4, Zenon DEF Stores
<1> HIDE DEF new
<1> QED BY <1>1, <1>2, <1>3, <1>4, <1>5

LEMMA TimersForIs == ASSUME NEW st, NEW patches \in SUBSET Patches PROVE TimersFor(st, patches) \in Nat
<1> DEFINE pairs == (1..MaxInstance) \X (1..MaxHead)
           f == [p \in Patches |-> <<p.instance, p.sequence>>]
           late == {p \in patches : NeedsResync([st EXCEPT !.sequence = Reached(st, patches)], p)}
<1>1. IsFiniteSet(1..MaxInstance) /\ IsFiniteSet(1..MaxHead)
  BY ConstantAssumption, FS_Interval
<1>2. IsFiniteSet(pairs)
  BY <1>1, FS_Product
<1>3. ASSUME NEW p \in Patches, NEW q \in Patches, p.instance = q.instance, p.sequence = q.sequence
      PROVE  p = q
  BY <1>3 DEF Patches
<1>4. \A p \in Patches : <<p.instance, p.sequence>> \in pairs
  BY DEF Patches
<1>5. f \in Injection(Patches, pairs)
  BY <1>3, <1>4 DEF Injection, IsInjective
<1>6. IsFiniteSet(Patches)
  BY <1>2, <1>5, FS_Injection
<1>7. late \in SUBSET Patches /\ TimersFor(st, patches) = Cardinality(late)
  BY DEF TimersFor
<1> HIDE DEF late
<1>8. IsFiniteSet(late)
  BY <1>6, <1>7, FS_Subset
<1> QED BY <1>7, <1>8, FS_CardinalityType

LEMMA AddTimersIs == ASSUME timers \in 0..MaxTimers, NEW n \in Nat, AddTimers(n) PROVE timers' \in 0..MaxTimers
BY ConstantAssumption DEF AddTimers

-----------------------------------------------------------------------------
(* Facts that the steps keep needing.                                      *)

LEMMA Typed ==
  ASSUME TypeOK
  PROVE  /\ srv.instance \in 1..MaxInstance /\ srv.head \in 0..MaxHead /\ srv.subscribed \in BOOLEAN
         /\ store \in Stores /\ store.instance \in 0..MaxInstance /\ store.sequence \in 0..MaxHead
         /\ up \in Seq(Requests) /\ Len(up) \in Nat /\ \A i \in 1..Len(up) : up[i] \in Requests
         /\ down \in Seq(Msgs) /\ Len(down) \in Nat /\ \A i \in 1..Len(down) : down[i] \in Msgs
         /\ answer \in Replies \cup {Silence} /\ buffer \subseteq Patches
         /\ MaxHead \in Nat /\ MaxInstance \in Nat /\ MaxTimers \in Nat /\ MaxTroubles \in Nat
<1>1. srv.instance \in 1..MaxInstance /\ srv.head \in 0..MaxHead /\ srv.subscribed \in BOOLEAN
  BY DEF TypeOK
<1>2. store \in Stores /\ store.instance \in 0..MaxInstance /\ store.sequence \in 0..MaxHead
  BY DEF TypeOK, Stores
<1>3. up \in Seq(Requests) /\ down \in Seq(Msgs) /\ answer \in Replies \cup {Silence} /\ buffer \subseteq Patches
  BY DEF TypeOK, Msgs
<1> QED BY <1>1, <1>2, <1>3, ConstantAssumption

LEMMA SpentIs ==
  ASSUME TypeOK
  PROVE  /\ spent.drops \in 0..MaxDrops /\ spent.gaps \in 0..MaxGaps /\ spent.asked \in 0..MaxAsked
         /\ spent.malformed \in 0..MaxTroubles /\ spent.late \in 0..MaxTroubles
         /\ spent.failures \in 0..MaxTroubles
BY DEF TypeOK

(* A trouble is counted, and is never forgotten.                           *)
LEMMA TroubleIs ==
  ASSUME TypeOK, NEW kind \in {"malformed", "late", "failures"}, Trouble(kind)
  PROVE  /\ spent' \in [drops : 0..MaxDrops, gaps : 0..MaxGaps, asked : 0..MaxAsked,
                        malformed : 0..MaxTroubles, late : 0..MaxTroubles, failures : 0..MaxTroubles]
         /\ spent'[kind] > 0 /\ spent'.gaps = spent.gaps
         /\ \A k \in {"malformed", "late", "failures"} : k # kind => spent'[k] = spent[k]
<1>1. /\ spent.malformed \in Nat /\ spent.late \in Nat /\ spent.failures \in Nat /\ MaxTroubles \in Nat
      /\ spent.malformed + spent.late + spent.failures < MaxTroubles
  BY SpentIs, ConstantAssumption DEF Trouble
<1>2. spent' = [spent EXCEPT ![kind] = spent[kind] + 1]
  BY DEF Trouble
<1> DEFINE Spents == [drops : 0..MaxDrops, gaps : 0..MaxGaps, asked : 0..MaxAsked,
                      malformed : 0..MaxTroubles, late : 0..MaxTroubles, failures : 0..MaxTroubles]
<1>3. spent \in Spents
  BY DEF TypeOK
<1>4. spent[kind] + 1 \in 0..MaxTroubles /\ spent[kind] + 1 > 0
  BY <1>1
<1> DEFINE v == spent[kind] + 1
<1> HIDE DEF v
<1>5. v \in 0..MaxTroubles /\ v > 0 /\ spent' = [spent EXCEPT ![kind] = v]
  BY <1>2, <1>4 DEF v
<1>6. CASE kind = "malformed"
  <2>1. spent' \in Spents
    BY <1>3, <1>5, <1>6, Zenon
  <2>2. spent'.malformed = v /\ spent'.gaps = spent.gaps /\ spent'.late = spent.late
        /\ spent'.failures = spent.failures
    BY <1>3, <1>5, <1>6, Zenon
  <2> QED BY <2>1, <2>2, <1>5, <1>6
<1>7. CASE kind = "late"
  <2>1. spent' \in Spents
    BY <1>3, <1>5, <1>7, Zenon
  <2>2. spent'.late = v /\ spent'.gaps = spent.gaps /\ spent'.malformed = spent.malformed
        /\ spent'.failures = spent.failures
    BY <1>3, <1>5, <1>7, Zenon
  <2> QED BY <2>1, <2>2, <1>5, <1>7
<1>8. CASE kind = "failures"
  <2>1. spent' \in Spents
    BY <1>3, <1>5, <1>8, Zenon
  <2>2. spent'.failures = v /\ spent'.gaps = spent.gaps /\ spent'.late = spent.late
        /\ spent'.malformed = spent.malformed
    BY <1>3, <1>5, <1>8, Zenon
  <2> QED BY <2>1, <2>2, <1>5, <1>8
<1> QED BY <1>6, <1>7, <1>8

-----------------------------------------------------------------------------
(* Steps that leave nothing on its way.                                    *)

Silent == up = <<>> /\ answer = Silence /\ down = <<>> /\ buffer = {}

LEMMA SilentStep ==
  ASSUME Inv, TypeOK', Silent', sync' = "none", ~caps', ~cutover',
         conn' => restoring', ~conn' => ~restoring' /\ ~srv'.subscribed,
         illegal' = illegal, store' = store, store.instance <= srv'.instance,
         store.instance = srv'.instance => store.sequence <= srv'.head,
         spent'.malformed = spent.malformed, spent'.failures = spent.failures, spent'.late = spent.late
  PROVE  Inv'
<1>1. /\ Len(up') = 0 /\ \A i \in 1..Len(up') : FALSE
      /\ Len(down') = 0 /\ \A i \in 1..Len(down') : FALSE
      /\ buffer' = {} /\ answer' = Silence
  BY DEF Silent
<1>2. /\ answer'.type = "silence" /\ ~IsReply(answer') /\ ~Fresh(answer')
  BY <1>1, SilenceIs
<1>3. Cut'
  BY DEF Cut, Silent
<1>4. InOrder'
  BY <1>1, <1>2 DEF InOrder, Fresh, IsReply
<1>5. Expected'
  BY <1>1, <1>2 DEF Expected, Subscribing, Fresh, IsReply
<1>6. Sequenced'
  BY <1>1 DEF Sequenced
<1>7. Replicated'
  <2>1. CutSound(answer)'
    BY <1>2 DEF CutSound, Fresh, IsReply
  <2>2. \A i \in 1..Len(down') : CutSound(down[i])'
    BY <1>1
  <2> QED BY <2>1, <2>2 DEF Inv, Replicated
<1>8. Admitted'
  BY DEF Admitted, CapabilitiesFresh
<1>9. Led'
  BY <1>1 DEF Inv, Led, Untroubled, Progressing, Subscribing
<1>10. Complete'
  <2>1. Covered(answer)'
    BY <1>2 DEF Covered, Fresh, IsReply
  <2>2. ~(conn' /\ ~restoring')
    OBVIOUS
  <2> QED BY <1>1, <2>1, <2>2 DEF Complete
<1> QED BY <1>3, <1>4, <1>5, <1>6, <1>7, <1>8, <1>9, <1>10 DEF Inv

LEMMA ConnectStep == ASSUME Inv, Connect PROVE Inv'
<1>1. /\ ~conn /\ conn' /\ restoring' /\ bound' /\ life' \in LifecycleStates
      /\ UNCHANGED <<srv, network, client, sync, caps, store, timers, illegal, spent>>
  BY DEF Connect, Inv, TypeOK, LifecycleStates
<1>2. Silent' /\ ~cutover' /\ ~caps' /\ sync' = "none"
  BY <1>1 DEF Inv, Cut, Silent, network, client
<1>3. TypeOK'
  <2>1. TypeOK
    BY DEF Inv
  <2> QED BY <1>1, <2>1 DEF TypeOK, network, client
<1>4. store.instance <= srv'.instance /\ (store.instance = srv'.instance => store.sequence <= srv'.head)
  BY <1>1 DEF Inv, Replicated
<1> QED BY <1>1, <1>2, <1>3, <1>4, SilentStep

(* The network, the client and the controller's synchronisation are gone. *)
LEMMA GoneTyped ==
  ASSUME TypeOK, Silent', srv' = [srv EXCEPT !.subscribed = FALSE], conn' = FALSE, restoring' = FALSE,
         cutover' = FALSE, caps' = FALSE, sync' = "none", bound' \in BOOLEAN, life' \in LifecycleStates,
         UNCHANGED <<store, timers, illegal>>,
         spent' \in [drops : 0..MaxDrops, gaps : 0..MaxGaps, asked : 0..MaxAsked,
                     malformed : 0..MaxTroubles, late : 0..MaxTroubles, failures : 0..MaxTroubles]
  PROVE  TypeOK' /\ srv'.instance = srv.instance /\ srv'.head = srv.head /\ ~srv'.subscribed
<1>1. srv \in [instance : 1..MaxInstance, head : 0..MaxHead, subscribed : BOOLEAN]
  BY DEF TypeOK
<1>2. srv' \in [instance : 1..MaxInstance, head : 0..MaxHead, subscribed : BOOLEAN]
  BY <1>1, Zenon
<1>3. srv'.instance = srv.instance /\ srv'.head = srv.head /\ ~srv'.subscribed
  BY <1>1, Zenon
<1>4. /\ up' \in Seq(Requests) /\ answer' \in Replies \cup {Silence}
      /\ down' \in Seq(Patches \cup Replies \cup Malformed) /\ buffer' \subseteq Patches
  BY DEF Silent
<1> QED BY <1>2, <1>3, <1>4 DEF TypeOK, SyncStates

LEMMA DropStep == ASSUME Inv, Drop PROVE Inv'
<1>1. /\ Silent' /\ srv' = [srv EXCEPT !.subscribed = FALSE] /\ conn' = FALSE /\ restoring' = FALSE
      /\ cutover' = FALSE /\ caps' = FALSE /\ sync' = "none" /\ UNCHANGED <<store, timers, illegal>>
      /\ spent' = [spent EXCEPT !.drops = spent.drops + 1] /\ spent.drops < MaxDrops
  BY DEF Drop, Silent
<1>2. TypeOK
  BY DEF Inv
<1>3. bound' \in BOOLEAN /\ life' \in LifecycleStates
  BY <1>2 DEF Drop, TypeOK, LifecycleStates
<1>4. spent.drops + 1 \in 0..MaxDrops
  BY <1>1, <1>2, SpentIs, ConstantAssumption
<1> DEFINE v == spent.drops + 1
<1> HIDE DEF v
<1>5. v \in 0..MaxDrops /\ spent' = [spent EXCEPT !.drops = v]
  BY <1>1, <1>4 DEF v
<1>6. spent \in [drops : 0..MaxDrops, gaps : 0..MaxGaps, asked : 0..MaxAsked,
                 malformed : 0..MaxTroubles, late : 0..MaxTroubles, failures : 0..MaxTroubles]
  BY <1>2 DEF TypeOK
<1>7. spent' \in [drops : 0..MaxDrops, gaps : 0..MaxGaps, asked : 0..MaxAsked,
                  malformed : 0..MaxTroubles, late : 0..MaxTroubles, failures : 0..MaxTroubles]
  BY <1>5, <1>6, Zenon
<1>8. spent'.malformed = spent.malformed /\ spent'.failures = spent.failures /\ spent'.late = spent.late
  BY <1>5, <1>6, Zenon
<1>9. TypeOK' /\ srv'.instance = srv.instance /\ srv'.head = srv.head /\ ~srv'.subscribed
  BY <1>1, <1>2, <1>3, <1>7, GoneTyped
<1>10. store.instance <= srv.instance /\ (store.instance = srv.instance => store.sequence <= srv.head)
  BY DEF Inv, Replicated
<1> QED BY <1>1, <1>8, <1>9, <1>10, SilentStep

LEMMA CloseStep == ASSUME Inv, Close PROVE Inv'
<1>1. /\ Silent' /\ srv' = [srv EXCEPT !.subscribed = FALSE] /\ conn' = FALSE /\ restoring' = FALSE
      /\ cutover' = FALSE /\ caps' = FALSE /\ sync' = "none" /\ UNCHANGED <<store, timers, illegal>>
      /\ spent' = spent /\ bound' \in BOOLEAN /\ life' \in LifecycleStates
  BY DEF Close, Silent, LifecycleStates
<1>2. TypeOK
  BY DEF Inv
<1>3. spent' \in [drops : 0..MaxDrops, gaps : 0..MaxGaps, asked : 0..MaxAsked,
                  malformed : 0..MaxTroubles, late : 0..MaxTroubles, failures : 0..MaxTroubles]
  BY <1>1, <1>2 DEF TypeOK
<1>4. TypeOK' /\ srv'.instance = srv.instance /\ srv'.head = srv.head /\ ~srv'.subscribed
  BY <1>1, <1>2, <1>3, GoneTyped
<1>5. store.instance <= srv.instance /\ (store.instance = srv.instance => store.sequence <= srv.head)
  BY DEF Inv, Replicated
<1> QED BY <1>1, <1>4, <1>5, SilentStep

(* The store never shows an instance that has not run yet.                 *)
LEMMA ReplaceStep == ASSUME Inv, Replace PROVE Inv'
<1>1. /\ ~conn /\ srv.instance < MaxInstance
      /\ srv' = [instance |-> srv.instance + 1, head |-> 0, subscribed |-> FALSE]
      /\ UNCHANGED <<link, network, client, controller, store, spent>>
  BY DEF Replace
<1>2. /\ Silent' /\ ~cutover' /\ ~caps' /\ sync' = "none" /\ ~restoring' /\ ~conn'
      /\ ~srv'.subscribed /\ illegal' = illegal /\ store' = store /\ spent' = spent
  BY <1>1 DEF Inv, Cut, Silent, link, network, client, controller
<1>3. TypeOK
  BY DEF Inv
<1>4. srv.instance \in 1..MaxInstance /\ MaxHead \in Nat /\ MaxInstance \in Nat /\ store.instance \in 0..MaxInstance
  BY <1>3, Typed
<1>5. /\ srv' \in [instance : 1..MaxInstance, head : 0..MaxHead, subscribed : BOOLEAN]
      /\ srv'.instance = srv.instance + 1
  BY <1>1, <1>4
<1>6. TypeOK'
  BY <1>1, <1>3, <1>5 DEF TypeOK, link, network, client, controller
<1>7. store.instance < srv'.instance
  BY <1>4, <1>5 DEF Inv, Replicated
<1>8. store.instance <= srv'.instance /\ store.instance # srv'.instance
  BY <1>4, <1>5, <1>7
<1> QED BY <1>2, <1>6, <1>8, SilentStep
-----------------------------------------------------------------------------
(* A synchronisation begins: nothing that was asked before is answered in  *)
(* this epoch, and what is on its way stays where it is.                   *)

Spents == [drops : 0..MaxDrops, gaps : 0..MaxGaps, asked : 0..MaxAsked,
           malformed : 0..MaxTroubles, late : 0..MaxTroubles, failures : 0..MaxTroubles]

(* d is down, or down without its first message.                           *)
Rest(d, off) ==
  /\ off \in {0, 1} /\ d \in Seq(Msgs) /\ Len(d) \in Nat /\ Len(d) + off = Len(down)
  /\ \A i \in 1..Len(d) : d[i] = down[i + off] /\ i + off \in 1..Len(down)

LEMMA RestIs ==
  ASSUME TypeOK
  PROVE  Rest(down, 0) /\ (down # <<>> => Rest(Tail(down), 1))
<1>1. down \in Seq(Msgs) /\ Len(down) \in Nat
  BY Typed
<1>2. Rest(down, 0)
  BY <1>1 DEF Rest
<1>3. CASE down # <<>>
  <2>1. /\ Tail(down) \in Seq(Msgs) /\ Len(down) \in Nat /\ Len(down) > 0 /\ Len(Tail(down)) = Len(down) - 1
        /\ \A i \in 1..Len(Tail(down)) : Tail(down)[i] = down[i + 1] /\ i + 1 \in 1..Len(down)
    BY <1>1, <1>3, TailIs
  <2> QED BY <1>2, <2>1 DEF Rest
<1> QED BY <1>2, <1>3

(* Every message of an ended epoch.                                        *)
LEMMA StaleRest ==
  ASSUME TypeOK, NEW d, NEW off, Rest(d, off)
  PROVE  /\ StaleAll(d) \in Seq(Msgs) /\ Len(StaleAll(d)) = Len(d)
         /\ \A i \in 1..Len(d) :
              /\ StaleAll(d)[i] \in Msgs /\ ~Fresh(StaleAll(d)[i]) /\ StaleAll(d)[i].type = down[i + off].type
              /\ IsPatch(down[i + off]) => StaleAll(d)[i] = down[i + off]
              /\ i + off \in 1..Len(down)
         /\ StaleAll(up) \in Seq(Requests) /\ Len(StaleAll(up)) = Len(up)
         /\ \A i \in 1..Len(up) : StaleAll(up)[i] \in Requests /\ ~StaleAll(up)[i].current
         /\ Stale(answer) \in Replies \cup {Silence} /\ ~Fresh(Stale(answer)) /\ Stale(answer).type = answer.type
<1>1. \A m \in Msgs : Stale(m) \in Msgs
  BY StaleIs
<1>2. \A m \in Requests : Stale(m) \in Requests
  BY StaleRequest
<1>3. d \in Seq(Msgs) /\ Len(d) \in Nat /\ \A i \in 1..Len(d) : d[i] = down[i + off] /\ i + off \in 1..Len(down)
  BY DEF Rest
<1>4. /\ StaleAll(d) \in Seq(Msgs) /\ Len(StaleAll(d)) = Len(d)
      /\ \A i \in 1..Len(d) : StaleAll(d)[i] = Stale(d[i]) /\ d[i] \in Msgs
  BY <1>1, <1>3, StaleAllIs
<1>5. up \in Seq(Requests) /\ answer \in Replies \cup {Silence}
  BY Typed
<1>6. /\ StaleAll(up) \in Seq(Requests) /\ Len(StaleAll(up)) = Len(up)
      /\ \A i \in 1..Len(up) : StaleAll(up)[i] = Stale(up[i]) /\ up[i] \in Requests
  BY <1>2, <1>5, StaleAllIs
<1>7. \A i \in 1..Len(up) : StaleAll(up)[i] \in Requests /\ ~StaleAll(up)[i].current
  BY <1>6, StaleRequest
<1>8. ASSUME NEW i \in 1..Len(d)
      PROVE  /\ StaleAll(d)[i] \in Msgs /\ ~Fresh(StaleAll(d)[i]) /\ StaleAll(d)[i].type = down[i + off].type
             /\ IsPatch(down[i + off]) => StaleAll(d)[i] = down[i + off]
             /\ i + off \in 1..Len(down)
  BY <1>3, <1>4, StaleIs
<1>9. Stale(answer) \in Replies \cup {Silence} /\ ~Fresh(Stale(answer)) /\ Stale(answer).type = answer.type
  BY <1>5, StaleIs
<1> QED BY <1>4, <1>6, <1>7, <1>8, <1>9

LEMMA SequencedRest ==
  ASSUME Inv, NEW d, NEW off, Rest(d, off), Len(down') = Len(d),
         \A i \in 1..Len(d) :
           down'[i].type = down[i + off].type /\ (IsPatch(down[i + off]) => down'[i] = down[i + off]),
         srv' = srv, buffer' \subseteq buffer
  PROVE  Sequenced'
<1>1. /\ Len(d) \in Nat /\ Len(down) \in Nat /\ Len(d) + off = Len(down) /\ off \in {0, 1}
      /\ \A i \in 1..Len(d) : i + off \in 1..Len(down)
  BY DEF Rest
<1>2. ASSUME NEW i \in 1..Len(down'), IsPatch(down'[i])
      PROVE  /\ down'[i].instance = srv'.instance /\ down'[i].sequence <= srv'.head
             /\ \A j \in (i + 1)..Len(down') : IsPatch(down'[j]) => down'[i].sequence < down'[j].sequence
             /\ \A p \in buffer : p.sequence < down'[i].sequence
  <2>1. i + off \in 1..Len(down) /\ IsPatch(down[i + off]) /\ down'[i] = down[i + off]
    BY <1>1, <1>2 DEF IsPatch
  <2>2. /\ down[i + off].instance = srv.instance /\ down[i + off].sequence <= srv.head
        /\ \A j \in (i + off + 1)..Len(down) : IsPatch(down[j]) => down[i + off].sequence < down[j].sequence
        /\ \A p \in buffer : p.sequence < down[i + off].sequence
    BY <2>1 DEF Inv, Sequenced
  <2>3. ASSUME NEW j \in (i + 1)..Len(down'), IsPatch(down'[j])
        PROVE  down'[i].sequence < down'[j].sequence
    <3>1. j \in 1..Len(d) /\ j + off \in (i + off + 1)..Len(down)
      BY <1>1, <1>2, <2>3
    <3>2. IsPatch(down[j + off]) /\ down'[j] = down[j + off]
      BY <2>3, <3>1 DEF IsPatch
    <3> QED BY <2>1, <2>2, <3>1, <3>2
  <2> QED BY <2>1, <2>2, <2>3
<1>3. \A p \in buffer : p.instance = srv.instance /\ p.sequence <= srv.head
  BY DEF Inv, Sequenced
<1> QED BY <1>2, <1>3 DEF Sequenced

LEMMA BeginStep ==
  ASSUME Inv, conn, conn' = conn, NEW d, NEW off, Rest(d, off), BeginFrom(up, answer, d),
         srv' = srv, store' = store, buffer' = buffer, illegal' = illegal,
         bound' \in BOOLEAN, restoring' \in BOOLEAN, timers' \in 0..MaxTimers, spent' \in Spents,
         Untroubled' => Untroubled, spent'.malformed = spent.malformed
  PROVE  Inv'
<1>1. TypeOK
  BY DEF Inv
<1> DEFINE u == StaleAll(up)
           r == Request("negotiate", NoResume)
<1>2. /\ caps' = FALSE /\ sync' = "negotiating" /\ up' = Append(u, r) /\ answer' = Stale(answer)
      /\ down' = StaleAll(d) /\ cutover' = FALSE /\ life' = "negotiating"
  BY DEF BeginFrom
<1>3. r \in Requests /\ r.type = "negotiate" /\ r.current
  BY DEF Request, Requests
<1>4. u \in Seq(Requests) /\ Len(u) = Len(up) /\ \A i \in 1..Len(up) : u[i] \in Requests /\ ~u[i].current
  BY <1>1, StaleRest
<1>5. /\ down' \in Seq(Msgs) /\ Len(down') = Len(d)
      /\ \A i \in 1..Len(d) :
           /\ down'[i] \in Msgs /\ ~Fresh(down'[i]) /\ down'[i].type = down[i + off].type
           /\ IsPatch(down[i + off]) => down'[i] = down[i + off]
           /\ i + off \in 1..Len(down)
  BY <1>1, <1>2, StaleRest
<1>6. answer' \in Replies \cup {Silence} /\ ~Fresh(answer') /\ answer'.type = answer.type
  BY <1>1, <1>2, StaleRest
<1> HIDE DEF u, r
<1>7. /\ up' \in Seq(Requests) /\ Len(up) \in Nat /\ Len(up') = Len(up) + 1
      /\ up'[Len(up) + 1] = r /\ \A i \in 1..Len(up) : up'[i] = u[i]
  <2>1. Len(up) \in Nat
    BY <1>1, Typed
  <2>2. /\ Append(u, r) \in Seq(Requests) /\ Len(u) \in Nat /\ Len(Append(u, r)) = Len(u) + 1
        /\ Append(u, r)[Len(u) + 1] = r /\ \A i \in 1..Len(u) : Append(u, r)[i] = u[i]
    BY <1>3, <1>4, AppendIs
  <2> QED BY <1>2, <1>4, <2>1, <2>2
<1>8. \A i \in 1..Len(up') : up'[i].current => i = Len(up') /\ up'[i] = r
  BY <1>4, <1>7
<1>9. Len(d) \in Nat /\ Len(down) \in Nat /\ Len(d) + off = Len(down) /\ off \in {0, 1}
  BY DEF Rest
<1>10. TypeOK'
  BY <1>1, <1>2, <1>5, <1>6, <1>7 DEF TypeOK, LifecycleStates, SyncStates, Msgs, Spents
<1>11. Cut'
  BY DEF Cut
<1>12. InOrder'
  BY <1>5, <1>6, <1>8 DEF InOrder
<1>13. Expected'
  <2>1. answer.type # "negotiated"
    BY DEF Inv, Expected
  <2> QED BY <1>2, <1>3, <1>5, <1>6, <1>8, <2>1 DEF Expected, Subscribing
<1>14. Sequenced'
  BY <1>5, SequencedRest
<1>15. Replicated'
  BY <1>5, <1>6 DEF Inv, Replicated, CutSound
<1>16. Admitted'
  BY <1>2 DEF Admitted, CapabilitiesFresh
<1>17. Led'
  <2>1. spent'.malformed = 0 => \A i \in 1..Len(down') : down'[i].type # "malformed"
    BY <1>5 DEF Inv, Led
  <2> QED BY <1>2, <2>1 DEF Inv, Led, Progressing, Subscribing
<1>18. Complete'
  BY <1>2, <1>5, <1>6 DEF Complete, Covered
<1> QED BY <1>10, <1>11, <1>12, <1>13, <1>14, <1>15, <1>16, <1>17, <1>18 DEF Inv

LEMMA RestoreStep == ASSUME Inv, Restore PROVE Inv'
<1>1. TypeOK
  BY DEF Inv
<1>2. /\ restoring /\ restoring' = FALSE
      /\ UNCHANGED <<srv, conn, bound, buffer, store, timers, illegal, spent>>
  BY DEF Restore
<1>3. conn
  BY <1>2 DEF Inv, Cut
<1>4. CASE sync = "none"
  <2>1. BeginFrom(up, answer, down)
    BY <1>4 DEF Restore, Begin
  <2>2. Rest(down, 0)
    BY <1>1, RestIs
  <2>3. bound' \in BOOLEAN /\ timers' \in 0..MaxTimers /\ spent' \in Spents /\ (Untroubled' => Untroubled)
    BY <1>1, <1>2 DEF TypeOK, Spents, Untroubled
  <2> QED BY <1>2, <1>3, <2>1, <2>2, <2>3, BeginStep
<1>5. CASE sync # "none"
  <2>1. UNCHANGED <<life, sync, caps, network, cutover>>
    BY <1>5 DEF Restore
  <2>2. life # "live"
    BY <1>5 DEF Inv, Led
  <2>3. TypeOK'
    BY <1>1, <1>2, <2>1 DEF TypeOK, network
  <2>4. Cut' /\ InOrder' /\ Expected' /\ Sequenced' /\ Replicated' /\ Admitted'
    BY <1>2, <1>3, <2>1 DEF Inv, Cut, InOrder, Expected, Sequenced, Replicated, Admitted, Subscribing,
                            CutSound, CapabilitiesFresh, network
  <2>5. Led'
    BY <1>2, <1>5, <2>1 DEF Inv, Led, Untroubled, Progressing, Subscribing, network
  <2>6. Complete'
    BY <1>2, <2>1, <2>2 DEF Inv, Complete, Whole, Covered, Coming, network
  <2> QED BY <2>3, <2>4, <2>5, <2>6 DEF Inv
<1> QED BY <1>4, <1>5
LEMMA AskStep == ASSUME Inv, Ask PROVE Inv'
<1>1. TypeOK
  BY DEF Inv
<1>2. /\ conn /\ BeginFrom(up, answer, down) /\ UNCHANGED <<srv, link, buffer, store, timers, illegal>>
      /\ spent' = [spent EXCEPT !.asked = spent.asked + 1] /\ spent.asked < MaxAsked
  BY DEF Ask, Begin
<1>3. Rest(down, 0)
  BY <1>1, RestIs
<1>4. spent.asked + 1 \in 0..MaxAsked
  BY <1>1, <1>2, SpentIs, ConstantAssumption
<1> DEFINE v == spent.asked + 1
<1> HIDE DEF v
<1>5. v \in 0..MaxAsked /\ spent' = [spent EXCEPT !.asked = v]
  BY <1>2, <1>4 DEF v
<1>6. spent \in Spents
  BY <1>1 DEF TypeOK, Spents
<1>7. spent' \in Spents
  BY <1>5, <1>6, Zenon DEF Spents
<1>8. spent'.malformed = spent.malformed /\ spent'.failures = spent.failures /\ spent'.late = spent.late
  BY <1>5, <1>6, Zenon DEF Spents
<1>9. Untroubled' => Untroubled
  BY <1>8 DEF Untroubled
<1>10. conn' = conn /\ bound' \in BOOLEAN /\ restoring' \in BOOLEAN /\ timers' \in 0..MaxTimers
  BY <1>1, <1>2 DEF TypeOK, link
<1> QED BY <1>2, <1>3, <1>7, <1>8, <1>9, <1>10, BeginStep

(* A timer in time finds a lifecycle that may resynchronise; one that does *)
(* not is counted as late.                                                 *)
LEMMA FireTimerStep == ASSUME Inv, FireTimer PROVE Inv'
<1>1. TypeOK
  BY DEF Inv
<1>2. timers > 0 /\ timers' = timers - 1 /\ UNCHANGED <<srv, link, buffer, store>>
  BY DEF FireTimer
<1>3. timers' \in 0..MaxTimers
  <2>1. timers \in 0..MaxTimers /\ MaxTimers \in Nat
    BY <1>1, Typed DEF TypeOK
  <2> QED BY <1>2, <2>1
<1>4. /\ spent' \in Spents /\ (Untroubled' => Untroubled /\ life \in Quiet)
      /\ spent'.malformed = spent.malformed /\ spent'.gaps = spent.gaps
  <2>1. CASE life \in Quiet /\ UNCHANGED spent
    BY <1>1, <2>1 DEF TypeOK, Spents, Untroubled
  <2>2. CASE Trouble("late")
    <3>1. spent' \in Spents /\ spent'["late"] > 0
      BY <1>1, <2>2, TroubleIs DEF Spents
    <3>2. spent'["malformed"] = spent["malformed"] /\ spent'.gaps = spent.gaps
      BY <1>1, <2>2, TroubleIs
    <3>3. spent'.late # 0
      BY <3>1 DEF Spents
    <3> QED BY <3>1, <3>2, <3>3 DEF Untroubled
  <2> QED BY <2>1, <2>2 DEF FireTimer
<1>5. life \in Quiet => Legal(life, "resynchronizing")
  BY DEF Quiet, Legal, Transitions
<1>6. CASE ~Legal(life, "resynchronizing")
  <2>1. illegal' = TRUE /\ UNCHANGED <<life, sync, caps, network, cutover>>
    BY <1>6 DEF FireTimer
  <2>2. ~Untroubled'
    BY <1>4, <1>5, <1>6
  <2>3. TypeOK'
    BY <1>1, <1>2, <1>3, <1>4, <2>1 DEF TypeOK, network, link, Spents
  <2>4. Cut' /\ InOrder' /\ Expected' /\ Sequenced' /\ Replicated' /\ Admitted'
    BY <1>2, <2>1 DEF Inv, Cut, InOrder, Expected, Sequenced, Replicated, Admitted, Subscribing,
                      CutSound, CapabilitiesFresh, network, link
  <2>5. Led'
    BY <1>2, <1>4, <2>1, <2>2 DEF Inv, Led, network
  <2>6. Complete'
    BY <1>2, <1>4, <2>1 DEF Inv, Complete, Whole, Covered, Coming, network, link
  <2> QED BY <2>3, <2>4, <2>5, <2>6 DEF Inv
<1>7. CASE Legal(life, "resynchronizing") /\ conn /\ sync = "none"
  <2>1. BeginFrom(up, answer, down) /\ illegal' = illegal
    BY <1>7 DEF FireTimer, Begin
  <2>2. Rest(down, 0)
    BY <1>1, RestIs
  <2>3. conn' = conn /\ bound' \in BOOLEAN /\ restoring' \in BOOLEAN /\ srv' = srv /\ store' = store /\ buffer' = buffer
    BY <1>1, <1>2 DEF TypeOK, link
  <2> QED BY <1>3, <1>4, <1>7, <2>1, <2>2, <2>3, BeginStep
<1>8. CASE Legal(life, "resynchronizing") /\ ~(conn /\ sync = "none")
  <2>1. life' = "resynchronizing" /\ UNCHANGED <<sync, caps, network, cutover, illegal>>
    BY <1>8 DEF FireTimer
  <2>2. ~caps
    BY <1>8 DEF Inv, Admitted, Cut
  <2>3. TypeOK'
    BY <1>1, <1>2, <1>3, <1>4, <2>1 DEF TypeOK, network, link, Spents, LifecycleStates
  <2>4. Cut' /\ InOrder' /\ Expected' /\ Sequenced' /\ Replicated'
    BY <1>2, <2>1 DEF Inv, Cut, InOrder, Expected, Sequenced, Replicated, Subscribing, CutSound, network, link
  <2>5. Admitted'
    BY <2>1, <2>2 DEF Admitted, CapabilitiesFresh
  <2>6. Led'
    <3>1. Untroubled' => ~illegal /\ ~Subscribing
      BY <1>4 DEF Inv, Led, Quiet
    <3>2. Progressing'
      BY <1>2, <1>8, <2>1 DEF Progressing, link
    <3> QED BY <1>2, <1>4, <2>1, <3>1, <3>2 DEF Inv, Led, Subscribing, network
  <2>7. Complete'
    BY <1>2, <1>4, <2>1 DEF Inv, Complete, Whole, Covered, Coming, network, link
  <2> QED BY <2>3, <2>4, <2>5, <2>6, <2>7 DEF Inv
<1> QED BY <1>6, <1>7, <1>8

-----------------------------------------------------------------------------
(* Messages at the client.                                                 *)

LEMMA HandleProtocolErrorStep == ASSUME Inv, HandleProtocolError PROVE Inv'
<1>1. TypeOK
  BY DEF Inv
<1>2. /\ conn /\ down # <<>> /\ Head(down).type = "malformed" /\ UNCHANGED <<srv, link, buffer, store, timers, spent>>
  BY DEF HandleProtocolError, Received
<1>3. Rest(Tail(down), 1)
  BY <1>1, <1>2, RestIs
<1>4. /\ conn' = conn /\ bound' \in BOOLEAN /\ restoring' \in BOOLEAN /\ timers' \in 0..MaxTimers
      /\ spent' \in Spents /\ (Untroubled' => Untroubled)
  BY <1>1, <1>2 DEF TypeOK, link, Spents, Untroubled
<1>5. CASE Legal(life, "resynchronizing")
  <2>1. BeginFrom(up, answer, Tail(down)) /\ illegal' = illegal
    BY <1>5 DEF HandleProtocolError
  <2> QED BY <1>2, <1>3, <1>4, <2>1, BeginStep
<1>6. CASE ~Legal(life, "resynchronizing")
  <2> DEFINE d == Tail(down)
  <2>1. /\ caps' = FALSE /\ sync' = "none" /\ up' = StaleAll(up) /\ answer' = Stale(answer)
        /\ down' = StaleAll(d) /\ cutover' = FALSE /\ life' = life /\ illegal' = TRUE
    BY <1>6 DEF HandleProtocolError
  <2> HIDE DEF d
  <2>2. Rest(d, 1)
    BY <1>3 DEF d
  <2>3. /\ down' \in Seq(Msgs) /\ Len(down') = Len(d)
        /\ \A i \in 1..Len(d) :
             /\ down'[i] \in Msgs /\ ~Fresh(down'[i]) /\ down'[i].type = down[i + 1].type
             /\ IsPatch(down[i + 1]) => down'[i] = down[i + 1]
             /\ i + 1 \in 1..Len(down)
    BY <1>1, <2>1, <2>2, StaleRest
  <2>4. /\ up' \in Seq(Requests) /\ Len(up') = Len(up) /\ \A i \in 1..Len(up) : up'[i] \in Requests /\ ~up'[i].current
        /\ answer' \in Replies \cup {Silence} /\ ~Fresh(answer') /\ answer'.type = answer.type
    BY <1>1, <2>1, <2>2, StaleRest
  <2>5. spent.malformed # 0
    <3>1. 1 \in 1..Len(down) /\ down[1].type = "malformed"
      BY <1>1, <1>2, Typed, TailIs
    <3> QED BY <3>1 DEF Inv, Led
  <2>6. TypeOK'
    BY <1>1, <1>2, <2>1, <2>3, <2>4 DEF TypeOK, SyncStates, Msgs, link
  <2>7. Cut' /\ InOrder' /\ Expected'
    <3>1. answer.type # "negotiated"
      BY DEF Inv, Expected
    <3> QED BY <1>2, <1>4, <2>1, <2>3, <2>4, <3>1 DEF Cut, InOrder, Expected, Subscribing
  <2>8. Sequenced'
    BY <1>2, <2>2, <2>3, SequencedRest
  <2>9. Replicated'
    BY <1>2, <2>3, <2>4 DEF Inv, Replicated, CutSound
  <2>10. Admitted'
    BY <2>1 DEF Admitted, CapabilitiesFresh
  <2>11. Led' /\ Complete'
    BY <1>2, <2>1, <2>5 DEF Led, Complete, Whole, Untroubled
  <2> QED BY <2>6, <2>7, <2>8, <2>9, <2>10, <2>11 DEF Inv
<1> QED BY <1>5, <1>6

(* The first message is taken from the connection.                         *)
LEMMA TakenIs ==
  ASSUME TypeOK, down # <<>>, down' = Tail(down)
  PROVE  /\ down' \in Seq(Msgs) /\ Len(down') \in Nat /\ Len(down) \in Nat /\ Len(down') + 1 = Len(down)
         /\ \A i \in 1..Len(down') : down'[i] = down[i + 1] /\ i + 1 \in 1..Len(down) /\ down'[i] \in Msgs
         /\ Head(down) = down[1] /\ 1 \in 1..Len(down) /\ Head(down) \in Msgs
         /\ Rest(Tail(down), 1)
<1>1. down \in Seq(Msgs)
  BY Typed
<1>2. /\ Tail(down) \in Seq(Msgs) /\ Len(down) \in Nat /\ Len(down) > 0 /\ Len(Tail(down)) = Len(down) - 1
      /\ Head(down) = down[1] /\ Head(down) \in Msgs
      /\ \A i \in 1..Len(Tail(down)) : Tail(down)[i] = down[i + 1] /\ i + 1 \in 1..Len(down)
  BY <1>1, TailIs
<1>3. \A i \in 1..Len(down) : down[i] \in Msgs
  BY Typed
<1>4. Rest(Tail(down), 1)
  BY RestIs
<1> QED BY <1>2, <1>3, <1>4

(* An answer of this epoch is the last: nothing else is asked or answered. *)
LEMMA FreshHead ==
  ASSUME Inv, down # <<>>, down' = Tail(down), Fresh(Head(down))
  PROVE  /\ up = <<>> /\ Len(up) = 0 /\ answer = Silence /\ sync # "none" /\ ~caps /\ life # "live"
         /\ \A i \in 1..Len(down') : ~IsReply(down'[i])
         /\ sync = "negotiating" => Head(down).type \in {"negotiated", "failed"}
         /\ Subscribing => Head(down).type # "negotiated"
<1>1. TypeOK
  BY DEF Inv
<1>2. /\ Head(down) = down[1] /\ 1 \in 1..Len(down) /\ Fresh(down[1]) /\ IsReply(down[1])
      /\ Len(down') + 1 = Len(down) /\ Len(down') \in Nat
      /\ \A i \in 1..Len(down') : down'[i] = down[i + 1]
  BY <1>1, TakenIs DEF Fresh
<1>3. up = <<>> /\ answer = Silence /\ \A j \in 2..Len(down) : ~IsReply(down[j])
  BY <1>2 DEF Inv, InOrder
<1>4. \A i \in 1..Len(down') : ~IsReply(down'[i])
  BY <1>2, <1>3
<1>5. sync # "none" /\ (sync = "negotiating" => down[1].type \in {"negotiated", "failed"})
  BY <1>2 DEF Inv, Expected
<1>6. Subscribing => down[1].type # "negotiated"
  BY <1>2 DEF Inv, Expected
<1>7. ~caps /\ life # "live"
  BY <1>5 DEF Inv, Admitted, Led
<1> QED BY <1>2, <1>3, <1>4, <1>5, <1>6, <1>7

(* A message that is no patch is taken and changes nothing else, except    *)
(* that it may end the buffering when nobody waits for a cut.              *)
LEMMA IgnoredStep ==
  ASSUME Inv, conn, down # <<>>, ~IsPatch(Head(down)), down' = Tail(down),
         cutover' = cutover \/ (~Subscribing /\ cutover' = FALSE),
         UNCHANGED <<srv, link, up, answer, buffer, controller, store, spent>>
  PROVE  Inv'
<1>1. TypeOK
  BY DEF Inv
<1>2. /\ down' \in Seq(Msgs) /\ Len(down') \in Nat /\ Len(down) \in Nat /\ Len(down') + 1 = Len(down)
      /\ \A i \in 1..Len(down') : down'[i] = down[i + 1] /\ i + 1 \in 1..Len(down)
      /\ Head(down) = down[1] /\ 1 \in 1..Len(down) /\ Rest(Tail(down), 1)
  BY <1>1, TakenIs
<1>3. TypeOK'
  BY <1>1, <1>2 DEF TypeOK, Msgs, link, controller
<1>4. Cut'
  BY DEF Cut, link
<1>5. InOrder'
  <2>1. ASSUME NEW i \in 1..Len(down'), Fresh(down'[i])
        PROVE  up = <<>> /\ answer = Silence /\ \A j \in (i + 1)..Len(down') : ~IsReply(down'[j])
    <3>1. i + 1 \in 1..Len(down) /\ Fresh(down[i + 1])
      BY <1>2, <2>1
    <3>2. up = <<>> /\ answer = Silence /\ \A j \in (i + 1 + 1)..Len(down) : ~IsReply(down[j])
      BY <3>1 DEF Inv, InOrder
    <3>3. ASSUME NEW j \in (i + 1)..Len(down') PROVE ~IsReply(down'[j])
      <4>1. j + 1 \in (i + 1 + 1)..Len(down) /\ down'[j] = down[j + 1]
        BY <1>2, <2>1
      <4> QED BY <3>2, <4>1
    <3> QED BY <3>2, <3>3
  <2> QED BY <2>1 DEF Inv, InOrder
<1>6. Expected'
  BY <1>2 DEF Inv, Expected, Subscribing, controller
<1>7. Sequenced'
  BY <1>2, SequencedRest
<1>8. Replicated'
  BY <1>2 DEF Inv, Replicated, CutSound
<1>9. Admitted'
  BY DEF Inv, Admitted, CapabilitiesFresh, controller, link
<1>10. Led'
  BY <1>2 DEF Inv, Led, Untroubled, Progressing, Subscribing, controller, link
<1>11. Complete'
  <2>1. \A n : Coming(n) => Coming(n)'
    <3>1. ASSUME NEW n, NEW i \in 1..Len(down), down[i] = Patch(srv.instance, n)
          PROVE  \E j \in 1..Len(down') : down'[j] = Patch(srv.instance, n)
      <4>1. i # 1
        BY <1>2, <3>1 DEF IsPatch, Patch
      <4>2. i - 1 \in 1..Len(down') /\ down'[i - 1] = down[i]
        BY <1>2, <4>1
      <4> QED BY <3>1, <4>2
    <3> QED BY <3>1 DEF Coming
  <2>2. Whole' => Whole
    BY DEF Whole
  <2>3. Whole => Covered(answer)' /\ \A i \in 1..Len(down') : Covered(down[i])'
    BY <1>2, <2>1 DEF Inv, Complete, Covered
  <2> QED BY <2>1, <2>2, <2>3 DEF Inv, Complete, link, controller
<1> QED BY <1>3, <1>4, <1>5, <1>6, <1>7, <1>8, <1>9, <1>10, <1>11 DEF Inv
(* The controller gives up what it waited for.                             *)
LEMMA AbandonStep ==
  ASSUME Inv, conn, down # <<>>, Fresh(Head(down)), down' = Tail(down),
         life' = "degraded", sync' = "none", caps' \in BOOLEAN, caps' => caps, cutover' \in BOOLEAN,
         UNCHANGED <<srv, link, up, answer, buffer, store, timers, illegal, spent>>
  PROVE  Inv'
<1>1. TypeOK
  BY DEF Inv
<1>2. /\ down' \in Seq(Msgs) /\ Len(down') \in Nat /\ Len(down) \in Nat /\ Len(down') + 1 = Len(down)
      /\ \A i \in 1..Len(down') : down'[i] = down[i + 1] /\ i + 1 \in 1..Len(down)
      /\ Rest(Tail(down), 1)
  BY <1>1, TakenIs
<1>3. /\ Len(up) = 0 /\ answer = Silence /\ ~caps /\ \A i \in 1..Len(down') : ~IsReply(down'[i])
  BY FreshHead
<1>4. ~Fresh(answer) /\ \A i \in 1..Len(down') : ~Fresh(down'[i])
  BY <1>3, SilenceIs DEF Fresh
<1>5. TypeOK'
  BY <1>1, <1>2, <1>3 DEF TypeOK, Msgs, link, LifecycleStates, SyncStates
<1>6. Cut' /\ InOrder' /\ Expected'
  BY <1>3, <1>4, SilenceIs DEF Inv, Cut, InOrder, Expected, Subscribing, link
<1>7. Sequenced'
  BY <1>2, SequencedRest
<1>8. Replicated'
  BY <1>4 DEF Inv, Replicated, CutSound
<1>9. Admitted'
  BY <1>3 DEF Admitted, CapabilitiesFresh
<1>10. Led'
  <2>1. spent'.malformed = 0 => \A i \in 1..Len(down') : down'[i].type # "malformed"
    BY <1>2 DEF Inv, Led
  <2> QED BY <2>1 DEF Inv, Led, Untroubled, Progressing, Subscribing
<1>11. Complete'
  BY <1>4 DEF Complete, Covered
<1> QED BY <1>5, <1>6, <1>7, <1>8, <1>9, <1>10, <1>11 DEF Inv

(* The controller asks for the subscription that it then waits for.        *)
LEMMA SubscribeStep ==
  ASSUME Inv, conn, down # <<>>, Fresh(Head(down)), down' = Tail(down),
         NEW resume \in {NoResume} \cup 0..MaxHead, up' = Append(up, Request("subscribe", resume)),
         life' \in {"bootstrapping", "replaying"}, sync' \in {"subscribing", "resubscribing"}, cutover' = TRUE,
         UNCHANGED <<srv, link, answer, buffer, caps, store, timers, illegal, spent>>
  PROVE  Inv'
<1>1. TypeOK
  BY DEF Inv
<1>2. /\ down' \in Seq(Msgs) /\ Len(down') \in Nat /\ Len(down) \in Nat /\ Len(down') + 1 = Len(down)
      /\ \A i \in 1..Len(down') : down'[i] = down[i + 1] /\ i + 1 \in 1..Len(down)
      /\ Rest(Tail(down), 1)
  BY <1>1, TakenIs
<1>3. /\ Len(up) = 0 /\ answer = Silence /\ ~caps /\ \A i \in 1..Len(down') : ~IsReply(down'[i])
  BY FreshHead
<1>4. ~Fresh(answer) /\ \A i \in 1..Len(down') : ~Fresh(down'[i])
  BY <1>3, SilenceIs DEF Fresh
<1> DEFINE r == Request("subscribe", resume)
<1>5. r \in Requests /\ r.type = "subscribe" /\ r.current
  BY DEF Request, Requests
<1> HIDE DEF r
<1>6. up' \in Seq(Requests) /\ Len(up') = 1 /\ \A i \in 1..Len(up') : i = 1 /\ up'[i] = r
  <2>1. up \in Seq(Requests) /\ up' = Append(up, r)
    BY <1>1, Typed DEF r
  <2>2. Append(up, r) \in Seq(Requests) /\ Len(Append(up, r)) = Len(up) + 1 /\ Append(up, r)[Len(up) + 1] = r
    BY <1>5, <2>1, AppendIs
  <2> QED BY <1>3, <2>1, <2>2
<1>7. TypeOK'
  BY <1>1, <1>2, <1>3, <1>6 DEF TypeOK, Msgs, link, LifecycleStates, SyncStates
<1>8. Cut' /\ InOrder'
  BY <1>4, <1>6 DEF Cut, InOrder, link
<1>9. Expected'
  BY <1>3, <1>4, <1>5, <1>6, SilenceIs DEF Expected, Subscribing
<1>10. Sequenced'
  BY <1>2, SequencedRest
<1>11. Replicated'
  BY <1>4 DEF Inv, Replicated, CutSound
<1>12. Admitted'
  BY <1>3 DEF Admitted, CapabilitiesFresh
<1>13. Led'
  <2>1. spent'.malformed = 0 => \A i \in 1..Len(down') : down'[i].type # "malformed"
    BY <1>2 DEF Inv, Led
  <2> QED BY <2>1 DEF Inv, Led, Untroubled, Progressing, Subscribing
<1>14. Complete'
  BY <1>4 DEF Complete, Covered
<1> QED BY <1>7, <1>8, <1>9, <1>10, <1>11, <1>12, <1>13, <1>14 DEF Inv

LEMMA HandleNegotiatedStep == ASSUME Inv, HandleNegotiated PROVE Inv'
<1>1. /\ conn /\ down # <<>> /\ Head(down).type = "negotiated" /\ down' = Tail(down)
      /\ UNCHANGED <<srv, link, answer, buffer, caps, store, timers, illegal, spent>>
  BY DEF HandleNegotiated, Received
<1>2. IsReply(Head(down)) /\ ~IsPatch(Head(down))
  BY <1>1 DEF IsReply, IsPatch, ReplyTypes
<1>3. CASE Head(down).current
  <2> DEFINE resume == IF store.instance = srv.instance THEN store.sequence ELSE NoResume
  <2>1. /\ up' = Append(up, Request("subscribe", resume)) /\ sync' = "subscribing" /\ cutover' = TRUE
        /\ life' \in {"bootstrapping", "replaying"}
    BY <1>3 DEF HandleNegotiated
  <2>2. resume \in {NoResume} \cup 0..MaxHead
    BY Typed DEF Inv
  <2>3. Fresh(Head(down))
    BY <1>2, <1>3 DEF Fresh
  <2> HIDE DEF resume
  <2> QED BY <1>1, <2>1, <2>2, <2>3, SubscribeStep
<1>4. CASE ~Head(down).current
  <2>1. UNCHANGED <<life, up, cutover, sync>>
    BY <1>4 DEF HandleNegotiated
  <2> QED BY <1>1, <1>2, <2>1, IgnoredStep DEF controller
<1> QED BY <1>3, <1>4

LEMMA HandleResyncRequiredStep == ASSUME Inv, HandleResyncRequired PROVE Inv'
<1>1. /\ conn /\ down # <<>> /\ Head(down).type = "resync-required" /\ down' = Tail(down)
      /\ UNCHANGED <<srv, link, answer, buffer, caps, store, timers, illegal, spent>>
  BY DEF HandleResyncRequired, Received
<1>2. IsReply(Head(down)) /\ ~IsPatch(Head(down))
  BY <1>1 DEF IsReply, IsPatch, ReplyTypes
<1>3. CASE Head(down).current /\ sync = "subscribing"
  <2>1. /\ up' = Append(up, Request("subscribe", NoResume)) /\ sync' = "resubscribing" /\ cutover' = TRUE
        /\ life' \in {"bootstrapping", "replaying"}
    BY <1>3 DEF HandleResyncRequired
  <2>2. Fresh(Head(down))
    BY <1>2, <1>3 DEF Fresh
  <2> QED BY <1>1, <2>1, <2>2, SubscribeStep
<1>4. CASE Head(down).current /\ sync # "subscribing"
  <2>1. life' = "degraded" /\ cutover' = FALSE /\ sync' = "none" /\ up' = up
    BY <1>4 DEF HandleResyncRequired
  <2>2. Fresh(Head(down))
    BY <1>2, <1>4 DEF Fresh
  <2>3. caps' \in BOOLEAN /\ (caps' => caps)
    BY <1>1, Zenon DEF Inv, TypeOK
  <2>4. cutover' \in BOOLEAN
    BY <2>1
  <2> QED BY <1>1, <2>1, <2>2, <2>3, <2>4, AbandonStep
<1>5. CASE ~Head(down).current
  <2>1. cutover' = FALSE /\ UNCHANGED <<life, up, sync>>
    BY <1>5 DEF HandleResyncRequired
  <2>2. 1 \in 1..Len(down) /\ Head(down) = down[1]
    BY <1>1, TakenIs DEF Inv
  <2>3. ~Subscribing
    BY <1>2, <1>5, <2>2 DEF Inv, Expected, Fresh
  <2> QED BY <1>1, <1>2, <2>1, <2>3, IgnoredStep DEF controller
<1> QED BY <1>3, <1>4, <1>5

LEMMA HandleFailedStep == ASSUME Inv, HandleFailed PROVE Inv'
<1>1. /\ conn /\ down # <<>> /\ Head(down).type = "failed" /\ down' = Tail(down)
      /\ UNCHANGED <<srv, link, up, answer, client, store, timers, illegal, spent>>
  BY DEF HandleFailed, Received
<1>2. IsReply(Head(down)) /\ ~IsPatch(Head(down))
  BY <1>1 DEF IsReply, IsPatch, ReplyTypes
<1>3. CASE Head(down).current
  <2>1. life' = "degraded" /\ caps' = FALSE /\ sync' = "none"
    BY <1>3 DEF HandleFailed
  <2>2. Fresh(Head(down)) /\ cutover' \in BOOLEAN
    BY <1>1, <1>2, <1>3 DEF Fresh, Inv, TypeOK, client
  <2> QED BY <1>1, <2>1, <2>2, AbandonStep DEF client
<1>4. CASE ~Head(down).current
  <2>1. UNCHANGED <<life, caps, sync>>
    BY <1>4 DEF HandleFailed
  <2> QED BY <1>1, <1>2, <2>1, IgnoredStep DEF controller, client
<1> QED BY <1>3, <1>4
-----------------------------------------------------------------------------
(* Patches at the client.                                                  *)

LEMMA BufferPatchStep == ASSUME Inv, BufferPatch PROVE Inv'
<1>1. TypeOK
  BY DEF Inv
<1>2. /\ conn /\ down # <<>> /\ Head(down).type = "patch" /\ cutover
      /\ buffer' = buffer \cup {Head(down)} /\ down' = Tail(down)
      /\ UNCHANGED <<srv, link, up, answer, cutover, controller, store, spent>>
  BY DEF BufferPatch, Received
<1>3. /\ down' \in Seq(Msgs) /\ Len(down') \in Nat /\ Len(down) \in Nat /\ Len(down') + 1 = Len(down)
      /\ \A i \in 1..Len(down') : down'[i] = down[i + 1] /\ i + 1 \in 1..Len(down)
      /\ Head(down) = down[1] /\ 1 \in 1..Len(down) /\ Head(down) \in Msgs /\ Rest(Tail(down), 1)
  BY <1>1, <1>2, TakenIs
<1>4. Head(down) \in Patches /\ IsPatch(down[1])
  <2>1. IsPatch(Head(down))
    BY <1>2 DEF IsPatch
  <2>2. ~IsReply(Head(down)) /\ Head(down).type # "malformed"
    BY <1>2 DEF IsReply, ReplyTypes
  <2> QED BY <1>3, <2>1, <2>2, MsgIs
<1>5. TypeOK'
  <2>1. buffer' \subseteq Patches
    BY <1>1, <1>2, <1>4 DEF TypeOK
  <2> QED BY <1>1, <1>2, <1>3, <2>1 DEF TypeOK, Msgs, link, controller
<1>6. Cut'
  BY <1>2 DEF Cut, link
<1>7. InOrder'
  <2>1. ASSUME NEW i \in 1..Len(down'), Fresh(down'[i])
        PROVE  up = <<>> /\ answer = Silence /\ \A j \in (i + 1)..Len(down') : ~IsReply(down'[j])
    <3>1. i + 1 \in 1..Len(down) /\ Fresh(down[i + 1])
      BY <1>3, <2>1
    <3>2. up = <<>> /\ answer = Silence /\ \A j \in (i + 1 + 1)..Len(down) : ~IsReply(down[j])
      BY <3>1 DEF Inv, InOrder
    <3>3. ASSUME NEW j \in (i + 1)..Len(down') PROVE ~IsReply(down'[j])
      <4>1. j + 1 \in (i + 1 + 1)..Len(down) /\ down'[j] = down[j + 1]
        BY <1>3, <2>1
      <4> QED BY <3>2, <4>1
    <3> QED BY <3>2, <3>3
  <2> QED BY <1>2, <2>1 DEF Inv, InOrder
<1>8. Expected'
  BY <1>2, <1>3 DEF Inv, Expected, Subscribing, controller
<1>9. Sequenced'
  <2>1. Sequenced
    BY DEF Inv
  <2>2. ASSUME NEW i \in 1..Len(down'), IsPatch(down'[i])
        PROVE  /\ down'[i].instance = srv'.instance /\ down'[i].sequence <= srv'.head
               /\ \A j \in (i + 1)..Len(down') : IsPatch(down'[j]) => down'[i].sequence < down'[j].sequence
               /\ \A p \in buffer' : p.sequence < down'[i].sequence
    <3>1. i + 1 \in 1..Len(down) /\ i + 1 \in (1 + 1)..Len(down) /\ IsPatch(down[i + 1]) /\ down'[i] = down[i + 1]
      BY <1>3, <2>2
    <3>2. /\ down[i + 1].instance = srv.instance /\ down[i + 1].sequence <= srv.head
          /\ \A j \in (i + 1 + 1)..Len(down) : IsPatch(down[j]) => down[i + 1].sequence < down[j].sequence
          /\ \A p \in buffer : p.sequence < down[i + 1].sequence
      BY <2>1, <3>1 DEF Sequenced
    <3>3. down[1].sequence < down[i + 1].sequence
      BY <1>3, <1>4, <2>1, <3>1 DEF Sequenced
    <3>4. ASSUME NEW j \in (i + 1)..Len(down'), IsPatch(down'[j])
          PROVE  down'[i].sequence < down'[j].sequence
      <4>1. j + 1 \in (i + 1 + 1)..Len(down) /\ down'[j] = down[j + 1]
        BY <1>3, <2>2
      <4> QED BY <3>1, <3>2, <3>4, <4>1
    <3>5. \A p \in buffer' : p.sequence < down'[i].sequence
      BY <1>2, <1>3, <3>1, <3>2, <3>3
    <3> QED BY <1>2, <3>1, <3>2, <3>4, <3>5
  <2>3. \A p \in buffer' : p.instance = srv.instance /\ p.sequence <= srv.head
    BY <1>2, <1>3, <1>4, <2>1 DEF Sequenced
  <2> QED BY <1>2, <2>2, <2>3 DEF Sequenced
<1>10. Replicated'
  BY <1>2, <1>3 DEF Inv, Replicated, CutSound
<1>11. Admitted'
  BY <1>2 DEF Inv, Admitted, CapabilitiesFresh, controller, link
<1>12. Led'
  BY <1>2, <1>3 DEF Inv, Led, Untroubled, Progressing, Subscribing, controller, link
<1>13. Complete'
  <2>1. ASSUME NEW n, Coming(n) PROVE Coming(n)' \/ Patch(srv.instance, n) \in buffer'
    <3>1. PICK i \in 1..Len(down) : down[i] = Patch(srv.instance, n)
      BY <2>1 DEF Coming
    <3>2. CASE i = 1
      BY <1>2, <1>3, <3>1, <3>2
    <3>3. CASE i # 1
      <4>1. i - 1 \in 1..Len(down') /\ down'[i - 1] = down[i]
        BY <1>3, <3>3
      <4> QED BY <1>2, <3>1, <4>1 DEF Coming
    <3> QED BY <3>2, <3>3
  <2>2. buffer \subseteq buffer'
    BY <1>2
  <2>3. Whole' => Whole
    BY <1>2 DEF Whole
  <2>4. Whole => Covered(answer)' /\ \A i \in 1..Len(down') : Covered(down[i])'
    BY <1>2, <1>3, <2>1, <2>2 DEF Inv, Complete, Covered
  <2>5. Whole => ~(life' = "live" /\ conn' /\ ~restoring')
    BY <1>2 DEF Inv, Complete, link, controller
  <2> QED BY <2>3, <2>4, <2>5 DEF Complete
<1> QED BY <1>5, <1>6, <1>7, <1>8, <1>9, <1>10, <1>11, <1>12, <1>13 DEF Inv
(* The store stays, or catches up with the running instance.               *)
Advanced ==
  \/ store' = store
  \/ /\ store'.instance = srv.instance
     /\ store.instance = srv.instance => store'.sequence >= store.sequence

(* A patch that is not buffered meets a store that no cut is on its way to. *)
LEMMA NoCut ==
  ASSUME Inv, ~cutover
  PROVE  /\ ~(Fresh(answer) /\ answer.type \in Cuts)
         /\ \A i \in 1..Len(down) : ~(Fresh(down[i]) /\ down[i].type \in Cuts)
<1>1. sync \in {"none", "negotiating"}
  BY DEF Inv, TypeOK, SyncStates, Expected, Subscribing
<1>2. ~Fresh(answer) /\ \A i \in 1..Len(down) : Fresh(down[i]) => down[i].type \in {"negotiated", "failed"}
  BY <1>1 DEF Inv, Expected
<1> QED BY <1>2 DEF Cuts

(* A patch of the running instance, applied if it is the next one.         *)
LEMMA HandlePatchIs ==
  ASSUME Inv, HandlePatch
  PROVE  /\ Head(down) = down[1] /\ 1 \in 1..Len(down) /\ Head(down) \in Patches /\ IsPatch(Head(down))
         /\ down' \in Seq(Msgs) /\ Len(down') \in Nat /\ Len(down) \in Nat /\ Len(down') + 1 = Len(down)
         /\ \A i \in 1..Len(down') : down'[i] = down[i + 1] /\ i + 1 \in 1..Len(down)
         /\ Rest(Tail(down), 1) /\ timers' \in 0..MaxTimers
         /\ Head(down).instance = srv.instance /\ Head(down).sequence <= srv.head
         /\ store' \in Stores /\ store'.instance = store.instance /\ store'.content = Count(store'.sequence)
         /\ IF ~NeedsResync(store, Head(down)) /\ Head(down).sequence > store.sequence
            THEN /\ store.instance = srv.instance
                 /\ store'.sequence = store.sequence + 1 /\ Head(down).sequence = store.sequence + 1
            ELSE store' = store
<1>1. TypeOK
  BY DEF Inv
<1> DEFINE p == Head(down)
           new == Applied(store, p)
<1>2. /\ conn /\ down # <<>> /\ p.type = "patch" /\ ~cutover /\ store' = new /\ down' = Tail(down)
      /\ AddTimers(IF NeedsResync(store, p) THEN 1 ELSE 0)
      /\ UNCHANGED <<srv, link, up, answer, client, life, sync, caps, illegal, spent>>
  BY DEF HandlePatch, Received
<1>3. /\ down' \in Seq(Msgs) /\ Len(down') \in Nat /\ Len(down) \in Nat /\ Len(down') + 1 = Len(down)
      /\ \A i \in 1..Len(down') : down'[i] = down[i + 1] /\ i + 1 \in 1..Len(down)
      /\ p = down[1] /\ 1 \in 1..Len(down) /\ p \in Msgs /\ Rest(Tail(down), 1)
  BY <1>1, <1>2, TakenIs
<1>4. p \in Patches /\ IsPatch(p)
  <2>1. IsPatch(p)
    BY <1>2 DEF IsPatch
  <2>2. ~IsReply(p) /\ p.type # "malformed"
    BY <1>2 DEF IsReply, ReplyTypes
  <2> QED BY <1>3, <2>1, <2>2, MsgIs
<1>5. store \in Stores /\ store.content = Count(store.sequence) /\ store.sequence \in 0..MaxHead
  BY <1>1, Typed DEF Inv, Replicated, Count
<1>6. IF ~NeedsResync(store, p) /\ p.sequence > store.sequence
      THEN /\ store' \in Stores /\ store'.instance = store.instance /\ p.instance = store.instance
           /\ store'.sequence = store.sequence + 1 /\ p.sequence = store.sequence + 1
           /\ store'.content = Count(store.sequence + 1)
      ELSE store' = store
  <2>1. LET z == Applied(store, p)
        IN IF ~NeedsResync(store, p) /\ p.sequence > store.sequence
           THEN /\ z \in Stores /\ z.instance = store.instance /\ p.instance = store.instance
                /\ z.sequence = store.sequence + 1 /\ p.sequence = store.sequence + 1
                /\ z.content = Count(store.sequence + 1)
           ELSE z = store
    BY <1>4, <1>5, AppliedIs
  <2> QED BY <1>2, <2>1
<1>7. store' \in Stores /\ store'.instance = store.instance /\ store'.content = Count(store'.sequence)
  BY <1>5, <1>6
<1>8. timers' \in 0..MaxTimers
  <2>1. (IF NeedsResync(store, p) THEN 1 ELSE 0) \in Nat
    OBVIOUS
  <2> QED BY <1>1, <1>2, <2>1, AddTimersIs DEF TypeOK
<1>9. p.instance = srv.instance /\ p.sequence <= srv.head
  BY <1>3, <1>4 DEF Inv, Sequenced
<1> QED BY <1>3, <1>4, <1>6, <1>7, <1>8, <1>9

LEMMA HandlePatchStep == ASSUME Inv, HandlePatch PROVE Inv' /\ Advanced
<1>1. TypeOK
  BY DEF Inv
<1> DEFINE p == Head(down)
<1>2. /\ conn /\ ~cutover /\ down' = Tail(down) /\ down # <<>>
      /\ UNCHANGED <<srv, link, up, answer, client, life, sync, caps, illegal, spent>>
  BY DEF HandlePatch, Received
<1>3. /\ p = down[1] /\ 1 \in 1..Len(down) /\ p \in Patches /\ IsPatch(p)
      /\ down' \in Seq(Msgs) /\ Len(down') \in Nat /\ Len(down) \in Nat /\ Len(down') + 1 = Len(down)
      /\ \A i \in 1..Len(down') : down'[i] = down[i + 1] /\ i + 1 \in 1..Len(down)
      /\ Rest(Tail(down), 1) /\ timers' \in 0..MaxTimers
      /\ p.instance = srv.instance /\ p.sequence <= srv.head
      /\ store' \in Stores /\ store'.instance = store.instance /\ store'.content = Count(store'.sequence)
      /\ IF ~NeedsResync(store, p) /\ p.sequence > store.sequence
         THEN /\ store.instance = srv.instance
              /\ store'.sequence = store.sequence + 1 /\ p.sequence = store.sequence + 1
         ELSE store' = store
  BY HandlePatchIs
<1> HIDE DEF p
<1>10. TypeOK'
  BY <1>1, <1>2, <1>3 DEF TypeOK, Msgs, Stores, link, client
<1>11. Cut'
  BY <1>2 DEF Cut, link
<1>12. InOrder'
  <2>1. ASSUME NEW i \in 1..Len(down'), Fresh(down'[i])
        PROVE  up = <<>> /\ answer = Silence /\ \A j \in (i + 1)..Len(down') : ~IsReply(down'[j])
    <3>1. i + 1 \in 1..Len(down) /\ Fresh(down[i + 1])
      BY <1>3, <2>1
    <3>2. up = <<>> /\ answer = Silence /\ \A j \in (i + 1 + 1)..Len(down) : ~IsReply(down[j])
      BY <3>1 DEF Inv, InOrder
    <3>3. ASSUME NEW j \in (i + 1)..Len(down') PROVE ~IsReply(down'[j])
      <4>1. j + 1 \in (i + 1 + 1)..Len(down) /\ down'[j] = down[j + 1]
        BY <1>3, <2>1
      <4> QED BY <3>2, <4>1
    <3> QED BY <3>2, <3>3
  <2> QED BY <1>2, <2>1 DEF Inv, InOrder
<1>13. Expected'
  BY <1>2, <1>3 DEF Inv, Expected, Subscribing, client
<1>14. Sequenced'
  BY <1>2, <1>3, SequencedRest DEF client
<1>15. /\ ~(Fresh(answer') /\ answer'.type \in Cuts)
       /\ \A i \in 1..Len(down') : ~(Fresh(down'[i]) /\ down'[i].type \in Cuts)
  BY <1>2, <1>3, NoCut
<1>16. Replicated'
  <2>1. store.instance = srv.instance => store'.sequence <= srv.head
    BY <1>3 DEF Inv, Replicated
  <2> QED BY <1>2, <1>3, <1>15, <2>1 DEF Inv, Replicated, CutSound, Count
<1>17. Admitted'
  BY <1>2, <1>3 DEF Inv, Admitted, CapabilitiesFresh, link
<1>18. Led'
  BY <1>2, <1>3 DEF Inv, Led, Untroubled, Progressing, Subscribing, link
<1>19. Complete'
  <2>1. ASSUME Whole', life' = "live", conn', ~restoring'
        PROVE  /\ srv'.subscribed /\ ~cutover' /\ store'.instance = srv'.instance
               /\ \A n \in (store'.sequence + 1)..srv'.head : Coming(n)'
    <3>1. /\ srv.subscribed /\ store.instance = srv.instance
          /\ \A n \in (store.sequence + 1)..srv.head : Coming(n)
      BY <1>2, <2>1 DEF Inv, Complete, Whole, link
    <3>2. store.sequence \in 0..MaxHead /\ srv.head \in 0..MaxHead /\ p.sequence \in 1..MaxHead /\ MaxHead \in Nat
      BY <1>1, <1>3, Typed DEF Patches
    <3>3. p.sequence <= store.sequence + 1
      <4>1. SUFFICES ASSUME p.sequence > store.sequence + 1 PROVE FALSE
        BY <3>2
      <4>2. Coming(store.sequence + 1)
        <5>1. store.sequence + 1 \in (store.sequence + 1)..srv.head
          BY <1>3, <3>2, <4>1
        <5> QED BY <3>1, <5>1
      <4>3. PICK i \in 1..Len(down) : down[i] = Patch(srv.instance, store.sequence + 1)
        BY <4>2 DEF Coming
      <4>4. IsPatch(down[i]) /\ down[i].sequence = store.sequence + 1
        BY <4>3 DEF IsPatch, Patch
      <4>5. i # 1
        BY <1>3, <3>2, <4>1, <4>4
      <4>6. i \in (1 + 1)..Len(down)
        BY <1>3, <4>5
      <4>7. down[1].sequence < down[i].sequence
        BY <1>3, <4>4, <4>6 DEF Inv, Sequenced
      <4> QED BY <1>3, <3>2, <4>1, <4>4, <4>7
    <3>4. store'.sequence >= store.sequence /\ store'.sequence >= p.sequence /\ store'.sequence \in Nat
      <4>1. ~NeedsResync(store, p)
        BY <1>3, <3>1, <3>2, <3>3 DEF NeedsResync
      <4> QED BY <1>3, <3>2, <3>3, <4>1
    <3>5. ASSUME NEW n \in (store'.sequence + 1)..srv.head PROVE Coming(n)'
      <4>1. n \in (store.sequence + 1)..srv.head /\ n # p.sequence
        BY <3>2, <3>4, <3>5
      <4>2. PICK i \in 1..Len(down) : down[i] = Patch(srv.instance, n)
        BY <3>1, <4>1 DEF Coming
      <4>3. i # 1
        BY <1>3, <4>1, <4>2 DEF Patch
      <4>4. i - 1 \in 1..Len(down') /\ down'[i - 1] = down[i]
        BY <1>3, <4>3
      <4> QED BY <1>2, <4>2, <4>4 DEF Coming
    <3> QED BY <1>2, <1>3, <3>1, <3>5 DEF client
  <2>2. Covered(answer)' /\ \A i \in 1..Len(down') : Covered(down[i])'
    BY <1>15 DEF Covered
  <2> QED BY <2>1, <2>2 DEF Complete
<1>20. Advanced
  <2>1. store.sequence \in Nat
    BY <1>1, Typed
  <2> QED BY <1>3, <2>1 DEF Advanced
<1> QED BY <1>10, <1>11, <1>12, <1>13, <1>14, <1>16, <1>17, <1>18, <1>19, <1>20 DEF Inv

(* The store holds the cut, and the patches that were buffered since or    *)
(* are on their way take it to the head of the runtime.                    *)
LEMMA GoLiveStep ==
  ASSUME Inv, conn, down # <<>>, Fresh(Head(down)), Head(down).type \in Cuts, NEW st \in Stores,
         st.instance = srv.instance, st.content = Count(st.sequence), st.sequence = Head(down).sequence,
         GoLive(st), UNCHANGED <<srv, link, spent>>
  PROVE  Inv' /\ Advanced
<1>1. TypeOK
  BY DEF Inv
<1> DEFINE m == Head(down)
           new == AppliedAll(st, buffer)
<1>2. /\ store' = new /\ AddTimers(TimersFor(st, buffer)) /\ cutover' = FALSE /\ buffer' = {} /\ sync' = "none"
      /\ down' = Tail(down) /\ UNCHANGED <<up, answer>>
      /\ IF Legal(life, "live")
         THEN life' = "live" /\ caps' = TRUE /\ UNCHANGED illegal
         ELSE life' = "degraded" /\ caps' = FALSE /\ illegal' = TRUE
  BY DEF GoLive
<1>3. /\ down' \in Seq(Msgs) /\ Len(down') \in Nat /\ Len(down) \in Nat /\ Len(down') + 1 = Len(down)
      /\ \A i \in 1..Len(down') : down'[i] = down[i + 1] /\ i + 1 \in 1..Len(down)
      /\ m = down[1] /\ 1 \in 1..Len(down) /\ Rest(Tail(down), 1)
  BY <1>1, <1>2, TakenIs
<1>4. /\ Len(up) = 0 /\ answer = Silence /\ sync # "none"
      /\ \A i \in 1..Len(down') : ~IsReply(down'[i])
      /\ sync = "negotiating" => m.type \in {"negotiated", "failed"}
  BY <1>2, FreshHead
<1>5. Subscribing
  BY <1>1, <1>4 DEF TypeOK, SyncStates, Subscribing, Cuts
<1>6. ~Fresh(answer) /\ \A i \in 1..Len(down') : ~Fresh(down'[i])
  BY <1>4, SilenceIs DEF Fresh
<1>7. /\ store' \in Stores /\ store'.instance = srv.instance /\ store'.content = Count(store'.sequence)
      /\ store'.sequence >= st.sequence /\ store'.sequence \in 0..MaxHead
      /\ \A k \in (st.sequence + 1)..store'.sequence : Patch(srv.instance, k) \in buffer
      /\ Patch(srv.instance, store'.sequence + 1) \notin buffer
  <2>1. buffer \in SUBSET Patches
    BY <1>1, Typed
  <2>2. LET z == AppliedAll(st, buffer)
        IN /\ z \in Stores /\ z.instance = st.instance /\ z.content = Count(z.sequence)
           /\ z.sequence >= st.sequence /\ z.sequence \in 0..MaxHead
           /\ \A k \in (st.sequence + 1)..z.sequence : Patch(st.instance, k) \in buffer
           /\ Patch(st.instance, z.sequence + 1) \notin buffer
    BY <2>1, AppliedAllIs
  <2> QED BY <1>2, <2>2
<1>8. timers' \in 0..MaxTimers
  <2>1. TimersFor(st, buffer) \in Nat
    BY <1>1, Typed, TimersForIs
  <2> QED BY <1>1, <1>2, <2>1, AddTimersIs DEF TypeOK
<1>9. st.sequence <= srv.head /\ st.sequence \in 0..MaxHead /\ srv.head \in 0..MaxHead /\ MaxHead \in Nat
  <2>1. CutSound(m) /\ Fresh(m) /\ m.type \in Cuts
    BY <1>3 DEF Inv, Replicated
  <2> QED BY <1>1, <2>1, Typed DEF CutSound, Stores
<1> HIDE DEF m, new
<1>10. store'.sequence <= srv.head
  <2>1. CASE store'.sequence = st.sequence
    BY <1>9, <2>1
  <2>2. CASE store'.sequence # st.sequence
    <3>1. store'.sequence \in (st.sequence + 1)..store'.sequence
      BY <1>7, <1>9, <2>2
    <3>2. Patch(srv.instance, store'.sequence) \in buffer
      BY <1>7, <3>1
    <3>3. Patch(srv.instance, store'.sequence).sequence <= srv.head
      BY <3>2 DEF Inv, Sequenced
    <3> QED BY <3>3 DEF Patch
  <2> QED BY <2>1, <2>2
<1>11. TypeOK'
  BY <1>1, <1>2, <1>3, <1>7, <1>8 DEF TypeOK, Msgs, Stores, link, LifecycleStates, SyncStates
<1>12. Cut' /\ InOrder' /\ Expected'
  BY <1>2, <1>4, <1>6, SilenceIs DEF Inv, Cut, InOrder, Expected, Subscribing, link
<1>13. Sequenced'
  BY <1>2, <1>3, SequencedRest
<1>14. Replicated'
  BY <1>2, <1>6, <1>7, <1>10, <1>1, Typed DEF Replicated, CutSound, Count
<1>15. Admitted'
  BY <1>2, <1>7 DEF Admitted, CapabilitiesFresh, link
<1>16. Led'
  <2>1. spent'.malformed = 0 => \A i \in 1..Len(down') : down'[i].type # "malformed"
    BY <1>3 DEF Inv, Led
  <2>2. Untroubled => Legal(life, "live")
    BY <1>5 DEF Inv, Led, Legal, Transitions
  <2>3. Untroubled' => ~illegal'
    BY <1>2, <2>2 DEF Inv, Led, Untroubled
  <2> QED BY <1>2, <2>1, <2>3 DEF Led, Progressing, Subscribing
<1>17. Complete'
  <2>1. ASSUME Whole'
        PROVE  srv.subscribed /\ \A n \in (store'.sequence + 1)..srv.head : Coming(n)'
    <3>1. /\ srv.subscribed
          /\ \A n \in (st.sequence + 1)..srv.head : Patch(srv.instance, n) \in buffer \/ Coming(n)
      BY <1>3, <2>1 DEF Inv, Complete, Covered, Whole, m
    <3>2. ASSUME NEW n \in (store'.sequence + 1)..srv.head PROVE Patch(srv.instance, n) \notin buffer
      <4>1. SUFFICES ASSUME Patch(srv.instance, n) \in buffer PROVE FALSE
        OBVIOUS
      <4> DEFINE k == store'.sequence + 1
      <4>2. k \in (st.sequence + 1)..srv.head /\ k <= n /\ k \in Nat /\ n \in Nat
        BY <1>7, <1>9, <3>2
      <4>3. Coming(k)
        BY <1>7, <3>1, <4>2
      <4>4. PICK i \in 1..Len(down) : down[i] = Patch(srv.instance, k)
        BY <4>3 DEF Coming
      <4>5. Patch(srv.instance, n).sequence < down[i].sequence
        BY <4>1, <4>4 DEF Inv, Sequenced, IsPatch, Patch
      <4> QED BY <4>2, <4>4, <4>5 DEF Patch
    <3>3. ASSUME NEW n \in (store'.sequence + 1)..srv.head PROVE Coming(n)'
      <4>1. n \in (st.sequence + 1)..srv.head
        BY <1>7, <1>9, <3>3
      <4>2. PICK i \in 1..Len(down) : down[i] = Patch(srv.instance, n)
        BY <3>1, <3>2, <4>1 DEF Coming
      <4>3. i # 1
        <5>1. IsReply(down[1])
          BY <1>3 DEF Fresh, m
        <5> QED BY <4>2, <5>1 DEF Patch, IsReply, ReplyTypes
      <4>4. i - 1 \in 1..Len(down') /\ down'[i - 1] = down[i]
        BY <1>3, <4>3
      <4> QED BY <4>2, <4>4 DEF Coming
    <3> QED BY <3>1, <3>3
  <2>2. Covered(answer)' /\ \A i \in 1..Len(down') : Covered(down[i])'
    BY <1>2, <1>6 DEF Covered
  <2> QED BY <1>2, <1>7, <2>1, <2>2 DEF Complete
<1>18. Advanced
  <2>1. CutSound(m) /\ Fresh(m) /\ m.type \in Cuts /\ st.sequence = m.sequence
    BY <1>3 DEF Inv, Replicated, m
  <2>2. store.sequence \in Nat
    BY <1>1, Typed
  <2> QED BY <1>7, <1>9, <2>1, <2>2 DEF Advanced, CutSound
<1> QED BY <1>11, <1>12, <1>13, <1>14, <1>15, <1>16, <1>17, <1>18 DEF Inv
(* A bootstrap is the runtime's state at the cut.                          *)
LEMMA HandleBootstrappedStep == ASSUME Inv, HandleBootstrapped PROVE Inv' /\ Advanced
<1>1. conn /\ down # <<>> /\ Head(down).type = "bootstrapped" /\ UNCHANGED <<srv, link, spent>>
  BY DEF HandleBootstrapped, Received
<1>2. IsReply(Head(down)) /\ ~IsPatch(Head(down)) /\ Head(down).type \in Cuts
  BY <1>1 DEF IsReply, IsPatch, ReplyTypes, Cuts
<1>3. CASE Head(down).current
  <2> DEFINE n == Head(down).sequence
             st == Bootstrap(srv.instance, n)
  <2>1. GoLive(st)
    BY <1>3 DEF HandleBootstrapped
  <2>2. n \in 0..MaxHead /\ srv.instance \in 1..MaxInstance
    <3>1. TypeOK
      BY DEF Inv
    <3>2. down \in Seq(Msgs)
      BY <3>1, Typed
    <3>3. Head(down) \in Msgs
      BY <1>1, <3>2, TailIs
    <3> QED BY <1>2, <3>1, <3>3, MsgIs, Typed
  <2> HIDE DEF n
  <2>3. n \in Nat
    BY <2>2
  <2>4. Count(n) \in Seq(Nat)
    BY <2>3, CountIs
  <2>5. st = [instance |-> srv.instance, sequence |-> n, content |-> Count(n)]
    BY DEF Bootstrap, Count
  <2>6. st \in Stores /\ st.instance = srv.instance /\ st.content = Count(st.sequence) /\ st.sequence = n
    BY <2>2, <2>4, <2>5 DEF Stores
  <2>7. Fresh(Head(down))
    BY <1>2, <1>3 DEF Fresh
  <2> HIDE DEF st
  <2> QED BY <1>1, <1>2, <2>1, <2>6, <2>7, GoLiveStep DEF n
<1>4. CASE ~Head(down).current
  <2>1. Ignore
    BY <1>4 DEF HandleBootstrapped
  <2> QED BY <1>1, <1>2, <2>1, IgnoredStep DEF Ignore, controller, client, Advanced
<1> QED BY <1>3, <1>4

(* A replay that begins where the store is takes it to the cut.            *)
LEMMA ReplayIs ==
  ASSUME TypeOK, store.content = Count(store.sequence), store.instance = srv.instance,
         NEW n \in 0..MaxHead, store.sequence <= n
  PROVE  LET st == AppliedAll(store, {Patch(srv.instance, k) : k \in (store.sequence + 1)..n})
         IN st \in Stores /\ st.instance = srv.instance /\ st.content = Count(st.sequence) /\ st.sequence = n
<1> DEFINE patches == {Patch(srv.instance, k) : k \in (store.sequence + 1)..n}
           st == AppliedAll(store, patches)
<1>1. /\ srv.instance \in 1..MaxInstance /\ store \in Stores /\ store.sequence \in 0..MaxHead /\ MaxHead \in Nat
  BY Typed
<1>2. patches \in SUBSET Patches
  <2>1. \A k \in (store.sequence + 1)..n : k \in 1..MaxHead
    BY <1>1
  <2> QED BY <1>1, <2>1 DEF Patch, Patches
<1>3. \A k \in Nat : Patch(srv.instance, k) \in patches <=> k \in (store.sequence + 1)..n
  BY DEF Patch
<1> HIDE DEF patches
<1>4. /\ st \in Stores /\ st.instance = store.instance /\ st.content = Count(st.sequence)
      /\ st.sequence >= store.sequence /\ st.sequence \in 0..MaxHead
      /\ \A k \in (store.sequence + 1)..st.sequence : Patch(store.instance, k) \in patches
      /\ Patch(store.instance, st.sequence + 1) \notin patches
  <2>1. LET z == AppliedAll(store, patches)
        IN /\ z \in Stores /\ z.instance = store.instance /\ z.content = Count(z.sequence)
           /\ z.sequence >= store.sequence /\ z.sequence \in 0..MaxHead
           /\ \A k \in (store.sequence + 1)..z.sequence : Patch(store.instance, k) \in patches
           /\ Patch(store.instance, z.sequence + 1) \notin patches
    BY <1>1, <1>2, AppliedAllIs
  <2> QED BY <2>1
<1> HIDE DEF st
<1>5. st.sequence + 1 > n
  <2>1. st.sequence + 1 \notin (store.sequence + 1)..n
    BY <1>3, <1>4
  <2> QED BY <1>1, <1>4, <2>1
<1>6. st.sequence <= n
  <2>1. CASE st.sequence = store.sequence
    BY <2>1
  <2>2. CASE st.sequence # store.sequence
    <3>1. st.sequence \in (store.sequence + 1)..st.sequence
      BY <1>1, <1>4, <2>2
    <3>2. st.sequence \in (store.sequence + 1)..n
      BY <1>3, <1>4, <3>1
    <3> QED BY <3>2
  <2> QED BY <2>1, <2>2
<1>7. st.sequence = n
  BY <1>4, <1>5, <1>6
<1> QED BY <1>4, <1>7 DEF st, patches

LEMMA HandleReplayedStep == ASSUME Inv, HandleReplayed PROVE Inv' /\ Advanced
<1> DEFINE m == Head(down)
           starts == store.instance = srv.instance /\ store.sequence = m.base
           st == AppliedAll(store, {Patch(srv.instance, n) : n \in (m.base + 1)..m.sequence})
<1>1. conn /\ down # <<>> /\ m.type = "replayed" /\ UNCHANGED <<srv, link, spent>>
  BY DEF HandleReplayed, Received
<1>2. IsReply(m) /\ ~IsPatch(m) /\ m.type \in Cuts
  BY <1>1 DEF IsReply, IsPatch, ReplyTypes, Cuts
<1>3. TypeOK
  BY DEF Inv
<1>4. CASE ~m.current
  <2>1. Ignore
    BY <1>4 DEF HandleReplayed
  <2> QED BY <1>1, <1>2, <2>1, IgnoredStep DEF Ignore, controller, client, Advanced
<1>5. CASE m.current /\ starts
  <2>1. GoLive(st) /\ Fresh(m)
    BY <1>2, <1>5 DEF HandleReplayed, Fresh
  <2>2. m.sequence \in 0..MaxHead /\ m = down[1] /\ 1 \in 1..Len(down)
    <3>1. down \in Seq(Msgs)
      BY <1>3, Typed
    <3>2. m \in Msgs /\ m = down[1] /\ 1 \in 1..Len(down)
      BY <1>1, <3>1, TailIs
    <3> QED BY <1>2, <3>2, MsgIs
  <2>3. CutSound(m)
    BY <2>2 DEF Inv, Replicated
  <2>4. store.sequence <= m.sequence
    BY <1>2, <1>5, <2>1, <2>3 DEF CutSound
  <2>5. store.content = Count(store.sequence)
    BY DEF Inv, Replicated, Count
  <2>6. st \in Stores /\ st.instance = srv.instance /\ st.content = Count(st.sequence) /\ st.sequence = m.sequence
    <3>1. LET z == AppliedAll(store, {Patch(srv.instance, k) : k \in (store.sequence + 1)..m.sequence})
          IN z \in Stores /\ z.instance = srv.instance /\ z.content = Count(z.sequence) /\ z.sequence = m.sequence
      BY <1>3, <1>5, <2>2, <2>4, <2>5, ReplayIs
    <3> QED BY <1>5, <3>1
  <2> HIDE DEF st
  <2> QED BY <1>1, <1>2, <2>1, <2>6, GoLiveStep
<1>6. CASE m.current /\ ~starts
  <2>1. /\ life' = "degraded" /\ caps' = FALSE /\ sync' = "none" /\ down' = Tail(down)
        /\ UNCHANGED <<up, answer, client, store, timers, illegal>>
    BY <1>6 DEF HandleReplayed
  <2>2. Fresh(m) /\ cutover' \in BOOLEAN
    BY <1>2, <1>3, <1>6, <2>1 DEF Fresh, TypeOK, client
  <2> QED BY <1>1, <2>1, <2>2, AbandonStep DEF client, Advanced
<1> QED BY <1>4, <1>5, <1>6
-----------------------------------------------------------------------------
(* The runtime.                                                            *)

LEMMA SentIs ==
  ASSUME TypeOK, NEW m \in Msgs, down' = Append(down, m)
  PROVE  /\ down' \in Seq(Msgs) /\ Len(down) \in Nat /\ Len(down') = Len(down) + 1
         /\ down'[Len(down) + 1] = m /\ \A i \in 1..Len(down) : down'[i] = down[i] /\ i \in 1..Len(down')
         /\ \A i \in 1..Len(down') : i \in 1..Len(down) \/ i = Len(down) + 1
<1>1. down \in Seq(Msgs)
  BY Typed
<1>2. /\ Append(down, m) \in Seq(Msgs) /\ Len(down) \in Nat /\ Len(Append(down, m)) = Len(down) + 1
      /\ Append(down, m)[Len(down) + 1] = m /\ \A i \in 1..Len(down) : Append(down, m)[i] = down[i]
  BY <1>1, AppendIs
<1> QED BY <1>2

(* An answer goes behind the patches that were sent before it.             *)
LEMMA AnswerSent ==
  ASSUME Inv, NEW m \in Replies, down' = Append(down, m), srv' = srv, buffer' = buffer
  PROVE  Sequenced' /\ (\A n : Coming(n) => Coming(n)')
<1>1. m \in Msgs /\ ~IsPatch(m)
  BY MsgIs DEF Msgs, Replies, IsPatch
<1>2. /\ Len(down) \in Nat /\ Len(down') = Len(down) + 1
      /\ down'[Len(down) + 1] = m /\ \A i \in 1..Len(down) : down'[i] = down[i] /\ i \in 1..Len(down')
      /\ \A i \in 1..Len(down') : i \in 1..Len(down) \/ i = Len(down) + 1
  BY <1>1, SentIs DEF Inv
<1>3. Sequenced'
  <2>1. ASSUME NEW i \in 1..Len(down'), IsPatch(down'[i])
        PROVE  /\ down'[i].instance = srv.instance /\ down'[i].sequence <= srv.head
               /\ \A j \in (i + 1)..Len(down') : IsPatch(down'[j]) => down'[i].sequence < down'[j].sequence
               /\ \A p \in buffer : p.sequence < down'[i].sequence
    <3>1. i \in 1..Len(down) /\ down'[i] = down[i] /\ IsPatch(down[i])
      BY <1>1, <1>2, <2>1
    <3>2. /\ down[i].instance = srv.instance /\ down[i].sequence <= srv.head
          /\ \A j \in (i + 1)..Len(down) : IsPatch(down[j]) => down[i].sequence < down[j].sequence
          /\ \A p \in buffer : p.sequence < down[i].sequence
      BY <3>1 DEF Inv, Sequenced
    <3>3. ASSUME NEW j \in (i + 1)..Len(down'), IsPatch(down'[j])
          PROVE  down'[i].sequence < down'[j].sequence
      <4>1. j \in 1..Len(down')
        BY <3>1, <3>3
      <4>2. j \in 1..Len(down) /\ down'[j] = down[j]
        BY <1>1, <1>2, <3>3, <4>1
      <4>3. j \in (i + 1)..Len(down)
        BY <1>2, <3>3, <4>2
      <4> QED BY <3>1, <3>2, <3>3, <4>2, <4>3
    <3> QED BY <3>1, <3>2, <3>3
  <2>2. \A p \in buffer : p.instance = srv.instance /\ p.sequence <= srv.head
    BY DEF Inv, Sequenced
  <2> QED BY <2>1, <2>2 DEF Sequenced
<1>4. ASSUME NEW n, Coming(n) PROVE Coming(n)'
  BY <1>2, <1>4 DEF Coming
<1> QED BY <1>3, <1>4

(* The next request; nothing of its epoch is on its way to the client.     *)
LEMMA TakeIs ==
  ASSUME Inv, NEW type, Take(type)
  PROVE  /\ conn /\ answer = Silence /\ Head(up) = up[1] /\ Head(up).type = type /\ Head(up) \in Requests
         /\ 1 \in 1..Len(up)
         /\ \A i \in 1..Len(down) : ~Fresh(down[i])
         /\ up' \in Seq(Requests) /\ Len(up') \in Nat /\ Len(up') + 1 = Len(up)
         /\ \A i \in 1..Len(up') : up'[i] = up[i + 1] /\ i + 1 \in 1..Len(up)
         /\ Head(up).current => up' = <<>> /\ Len(up') = 0
<1>1. up \in Seq(Requests) /\ up # <<>> /\ up' = Tail(up) /\ conn /\ answer = Silence /\ Head(up).type = type
  BY Typed DEF Inv, Take
<1>2. /\ Tail(up) \in Seq(Requests) /\ Len(up) \in Nat /\ Len(up) > 0 /\ Len(Tail(up)) = Len(up) - 1
      /\ Head(up) = up[1] /\ Head(up) \in Requests
      /\ \A i \in 1..Len(Tail(up)) : Tail(up)[i] = up[i + 1] /\ i + 1 \in 1..Len(up)
  BY <1>1, TailIs
<1>3. \A i \in 1..Len(down) : ~Fresh(down[i])
  BY <1>1 DEF Inv, InOrder
<1>4. Head(up).current => Len(up) = 1
  <2>1. 1 \in 1..Len(up)
    BY <1>2
  <2>2. up[1].current => 1 = Len(up)
    BY <2>1 DEF Inv, InOrder
  <2> QED BY <1>2, <2>2
<1>5. Len(up') = 0 => up' = <<>>
  BY <1>1, <1>2
<1> QED BY <1>1, <1>2, <1>3, <1>4, <1>5

(* The requests that are left.                                             *)
LEMMA LeftIs ==
  ASSUME Inv, NEW type, Take(type), sync' = sync
  PROVE  /\ \A i \in 1..Len(up') : up'[i].current => i = Len(up')
         /\ sync = "none" => \A i \in 1..Len(up') : ~up'[i].current
         /\ sync = "negotiating" => \A i \in 1..Len(up') : up'[i].current => up'[i].type = "negotiate"
         /\ Subscribing => \A i \in 1..Len(up') : up'[i].current /\ up'[i].type = "subscribe"
         /\ sync = "none" => ~Head(up).current
         /\ sync = "negotiating" /\ Head(up).current => Head(up).type = "negotiate"
         /\ Subscribing => Head(up).current /\ Head(up).type = "subscribe"
<1>1. /\ Head(up) = up[1] /\ 1 \in 1..Len(up) /\ Len(up') \in Nat /\ Len(up') + 1 = Len(up)
      /\ \A i \in 1..Len(up') : up'[i] = up[i + 1] /\ i + 1 \in 1..Len(up)
  BY TakeIs
<1>2. \A i \in 1..Len(up) : up[i].current => i = Len(up)
  BY DEF Inv, InOrder
<1>3. /\ sync = "none" => \A i \in 1..Len(up) : ~up[i].current
      /\ sync = "negotiating" => \A i \in 1..Len(up) : up[i].current => up[i].type = "negotiate"
      /\ Subscribing => \A i \in 1..Len(up) : up[i].current /\ up[i].type = "subscribe"
  BY DEF Inv, Expected
<1>4. \A i \in 1..Len(up') : up'[i].current => i = Len(up')
  BY <1>1, <1>2
<1> QED BY <1>1, <1>3, <1>4

LEMMA AnswerNegotiationStep == ASSUME Inv, AnswerNegotiation PROVE Inv'
<1>1. TypeOK
  BY DEF Inv
<1>2. /\ Take("negotiate") /\ UNCHANGED <<srv, link, answer, client, controller, store>>
      /\ \/ down' = Append(down, Reply("negotiated", Head(up), 0, 0)) /\ UNCHANGED spent
         \/ down' = Append(down, Reply("failed", Head(up), 0, 0)) /\ Trouble("failures")
  BY DEF AnswerNegotiation
<1>3. /\ conn /\ answer = Silence /\ Head(up).type = "negotiate" /\ Head(up) \in Requests
      /\ \A i \in 1..Len(down) : ~Fresh(down[i])
      /\ up' \in Seq(Requests) /\ Len(up') \in Nat
      /\ Head(up).current => up' = <<>> /\ Len(up') = 0
  BY <1>2, TakeIs
<1>4. /\ \A i \in 1..Len(up') : up'[i].current => i = Len(up')
      /\ sync = "none" => \A i \in 1..Len(up') : ~up'[i].current
      /\ sync = "negotiating" => \A i \in 1..Len(up') : up'[i].current => up'[i].type = "negotiate"
      /\ sync = "none" => ~Head(up).current
      /\ ~Subscribing
  <2>1. sync' = sync
    BY <1>2 DEF controller
  <2> QED BY <1>2, <1>3, <2>1, LeftIs
<1>5. PICK m \in Replies : /\ down' = Append(down, m) /\ m.type \in {"negotiated", "failed"}
                           /\ m.current = Head(up).current
  <2>1. Head(up).current \in BOOLEAN /\ 0 \in 0..MaxHead
    BY <1>1, <1>3, RequestIs, Typed
  <2>2. \A t \in {"negotiated", "failed"} :
          /\ Reply(t, Head(up), 0, 0) \in Replies /\ Reply(t, Head(up), 0, 0).type = t
          /\ Reply(t, Head(up), 0, 0).current = Head(up).current
    BY <2>1 DEF Reply, Replies
  <2> QED BY <1>2, <2>2
<1>6. /\ spent' \in Spents /\ (Untroubled' => Untroubled)
      /\ spent'.malformed = spent.malformed /\ spent'.gaps = spent.gaps
  <2>1. CASE UNCHANGED spent
    BY <1>1, <2>1 DEF TypeOK, Spents, Untroubled
  <2>2. CASE Trouble("failures")
    <3>1. spent' \in Spents /\ spent'["failures"] > 0
      BY <1>1, <2>2, TroubleIs DEF Spents
    <3>2. spent'["malformed"] = spent["malformed"] /\ spent'.gaps = spent.gaps
      BY <1>1, <2>2, TroubleIs
    <3>3. spent'.failures # 0
      BY <3>1 DEF Spents
    <3> QED BY <3>1, <3>2, <3>3 DEF Untroubled
  <2> QED BY <1>2, <2>1, <2>2
<1>7. m \in Msgs /\ IsReply(m) /\ m.type # "malformed" /\ (Fresh(m) <=> m.current)
  BY <1>5 DEF Msgs, IsReply, ReplyTypes, Fresh
<1>8. /\ down' \in Seq(Msgs) /\ Len(down) \in Nat /\ Len(down') = Len(down) + 1
      /\ down'[Len(down) + 1] = m /\ \A i \in 1..Len(down) : down'[i] = down[i] /\ i \in 1..Len(down')
      /\ \A i \in 1..Len(down') : i \in 1..Len(down) \/ i = Len(down) + 1
  BY <1>1, <1>5, <1>7, SentIs
<1>9. Sequenced' /\ (\A n : Coming(n) => Coming(n)')
  BY <1>2, <1>5, AnswerSent DEF client
<1>10. ~Fresh(answer') /\ ~IsReply(answer') /\ answer'.type # "negotiated"
  BY <1>2, <1>3, SilenceIs
<1>11. \A i \in 1..Len(down') : Fresh(down'[i]) => i = Len(down') /\ down'[i] = m /\ Head(up).current
  BY <1>3, <1>5, <1>7, <1>8
<1>12. TypeOK'
  BY <1>1, <1>2, <1>3, <1>6, <1>8 DEF TypeOK, Msgs, Spents, link, client, controller
<1>13. Cut'
  BY <1>2, <1>3 DEF Cut, link
<1>14. InOrder'
  BY <1>2, <1>3, <1>4, <1>8, <1>10, <1>11 DEF InOrder
<1>15. Expected'
  BY <1>2, <1>4, <1>5, <1>10, <1>11 DEF Expected, Subscribing, controller
<1>16. Replicated'
  <2>1. CutSound(answer)' /\ \A i \in 1..Len(down') : CutSound(down[i])'
    BY <1>5, <1>10, <1>11 DEF CutSound, Cuts
  <2> QED BY <1>2, <2>1 DEF Inv, Replicated
<1>17. Admitted'
  BY <1>2 DEF Inv, Admitted, CapabilitiesFresh, link, controller
<1>18. Led'
  <2>1. spent'.malformed = 0 => \A i \in 1..Len(down') : down'[i].type # "malformed"
    BY <1>6, <1>7, <1>8 DEF Inv, Led
  <2> QED BY <1>2, <1>6, <2>1 DEF Inv, Led, Progressing, Subscribing, link, controller
<1>19. Complete'
  <2>1. Covered(answer)' /\ \A i \in 1..Len(down') : Covered(down[i])'
    BY <1>5, <1>10, <1>11 DEF Covered, Cuts
  <2>2. Whole' => Whole
    BY <1>6 DEF Whole
  <2> QED BY <1>2, <1>9, <2>1, <2>2 DEF Inv, Complete, link, client, controller
<1> QED BY <1>9, <1>12, <1>13, <1>14, <1>15, <1>16, <1>17, <1>18, <1>19 DEF Inv

LEMMA SendAnswerStep == ASSUME Inv, SendAnswer PROVE Inv'
<1>1. TypeOK
  BY DEF Inv
<1>2. /\ answer # Silence /\ down' = Append(down, answer) /\ answer' = Silence
      /\ UNCHANGED <<srv, link, up, client, controller, store, spent>>
  BY DEF SendAnswer
<1>3. answer \in Replies /\ answer \in Msgs /\ IsReply(answer) /\ answer.type # "malformed"
  BY <1>1, <1>2, Typed DEF Msgs, Replies, IsReply, ReplyTypes
<1>4. conn
  BY <1>2 DEF Inv, Cut
<1>5. \A i \in 1..Len(down) : ~Fresh(down[i])
  BY <1>2 DEF Inv, InOrder
<1>6. /\ down' \in Seq(Msgs) /\ Len(down) \in Nat /\ Len(down') = Len(down) + 1
      /\ down'[Len(down) + 1] = answer /\ \A i \in 1..Len(down) : down'[i] = down[i] /\ i \in 1..Len(down')
      /\ \A i \in 1..Len(down') : i \in 1..Len(down) \/ i = Len(down) + 1
  BY <1>1, <1>2, <1>3, SentIs
<1>7. Sequenced' /\ (\A n : Coming(n) => Coming(n)')
  BY <1>2, <1>3, AnswerSent DEF client
<1>8. ~Fresh(answer') /\ ~IsReply(answer') /\ answer'.type # "negotiated"
  BY <1>2, SilenceIs
<1>9. \A i \in 1..Len(down') : Fresh(down'[i]) => i = Len(down') /\ down'[i] = answer /\ Fresh(answer)
  BY <1>5, <1>6
<1>10. TypeOK'
  BY <1>1, <1>2, <1>6 DEF TypeOK, Msgs, link, client, controller
<1>11. Cut'
  BY <1>2, <1>4 DEF Cut, link
<1>12. InOrder'
  BY <1>2, <1>6, <1>8, <1>9 DEF Inv, InOrder
<1>13. Expected'
  <2>1. Subscribing => Fresh(answer) /\ \A i \in 1..Len(down) : ~IsReply(down[i])
    BY <1>3, <1>5 DEF Inv, Expected
  <2>2. sync \in {"none", "negotiating"} => ~Fresh(answer)
    BY DEF Inv, Expected
  <2>3. answer.type # "negotiated"
    BY DEF Inv, Expected
  <2> QED BY <1>2, <1>5, <1>6, <1>8, <1>9, <2>1, <2>2, <2>3 DEF Inv, Expected, Subscribing, client, controller
<1>14. Replicated'
  <2>1. CutSound(answer)' /\ \A i \in 1..Len(down') : CutSound(down[i])'
    BY <1>2, <1>8, <1>9 DEF Inv, Replicated, CutSound
  <2> QED BY <1>2, <2>1 DEF Inv, Replicated
<1>15. Admitted'
  BY <1>2 DEF Inv, Admitted, CapabilitiesFresh, link, controller
<1>16. Led'
  <2>1. spent'.malformed = 0 => \A i \in 1..Len(down') : down'[i].type # "malformed"
    BY <1>2, <1>3, <1>6 DEF Inv, Led
  <2> QED BY <1>2, <2>1 DEF Inv, Led, Untroubled, Progressing, Subscribing, link, controller
<1>17. Complete'
  <2>1. Whole => Covered(answer)' /\ \A i \in 1..Len(down') : Covered(down[i])'
    BY <1>2, <1>7, <1>8, <1>9 DEF Inv, Complete, Covered, client
  <2>2. Whole' => Whole
    BY <1>2 DEF Whole
  <2> QED BY <1>2, <1>7, <2>1, <2>2 DEF Inv, Complete, link, client, controller
<1> QED BY <1>7, <1>10, <1>11, <1>12, <1>13, <1>14, <1>15, <1>16, <1>17 DEF Inv
(* The cut is where the runtime is; patches follow it from then on.        *)
LEMMA TakeCutStep == ASSUME Inv, TakeCut PROVE Inv'
<1>1. TypeOK
  BY DEF Inv
<1> DEFINE request == Head(up)
<1>2. /\ Take("subscribe") /\ srv' = [srv EXCEPT !.subscribed = TRUE]
      /\ UNCHANGED <<link, down, client, controller, store>>
  BY DEF TakeCut
<1>3. /\ conn /\ request.type = "subscribe" /\ request \in Requests
      /\ \A i \in 1..Len(down) : ~Fresh(down[i])
      /\ up' \in Seq(Requests) /\ Len(up') \in Nat
      /\ request.current => up' = <<>> /\ Len(up') = 0
  BY <1>2, TakeIs
<1>4. /\ \A i \in 1..Len(up') : up'[i].current => i = Len(up')
      /\ sync = "none" => \A i \in 1..Len(up') : ~up'[i].current
      /\ sync = "negotiating" => \A i \in 1..Len(up') : up'[i].current => up'[i].type = "negotiate"
      /\ Subscribing => \A i \in 1..Len(up') : up'[i].current /\ up'[i].type = "subscribe"
      /\ sync \in {"none", "negotiating"} => ~request.current
      /\ Subscribing => request.current
  <2>1. sync' = sync
    BY <1>2 DEF controller
  <2> QED BY <1>2, <1>3, <2>1, LeftIs
<1>5. /\ srv' \in [instance : 1..MaxInstance, head : 0..MaxHead, subscribed : BOOLEAN]
      /\ srv'.instance = srv.instance /\ srv'.head = srv.head /\ srv'.subscribed
  <2>1. srv \in [instance : 1..MaxInstance, head : 0..MaxHead, subscribed : BOOLEAN]
    BY <1>1 DEF TypeOK
  <2> QED BY <1>2, <2>1, Zenon
<1>6. /\ request.current \in BOOLEAN /\ 0 \in 0..MaxHead /\ srv.head \in 0..MaxHead
      /\ request.resume \in {NoResume} \cup 0..MaxHead /\ srv.head \in Nat
  BY <1>1, <1>3, RequestIs, Typed
<1>7. /\ answer' \in Replies /\ answer'.current = request.current /\ answer'.type # "negotiated"
      /\ answer'.type \in Cuts =>
           /\ answer'.sequence = srv.head
           /\ answer'.type = "replayed" => answer'.base <= srv.head
      /\ spent' = spent \/ Trouble("failures")
  <2>1. ASSUME NEW t \in ReplyTypes, NEW b \in 0..MaxHead, NEW n \in 0..MaxHead
        PROVE  /\ Reply(t, request, b, n) \in Replies /\ Reply(t, request, b, n).current = request.current
               /\ Reply(t, request, b, n).type = t /\ Reply(t, request, b, n).sequence = n
               /\ Reply(t, request, b, n).base = b
    BY <1>6, <2>1 DEF Reply, Replies, ReplyTypes
  <2>2. CASE answer' = Reply("bootstrapped", request, 0, srv.head) /\ UNCHANGED spent
    BY <1>6, <2>1, <2>2 DEF ReplyTypes
  <2>3. CASE /\ request.resume # NoResume /\ request.resume <= srv.head
             /\ answer' = Reply("replayed", request, request.resume, srv.head) /\ UNCHANGED spent
    <3>1. request.resume \in 0..MaxHead
      BY <1>6, <2>3
    <3> QED BY <1>6, <2>1, <2>3, <3>1 DEF ReplyTypes
  <2>4. CASE answer' = Reply("resync-required", request, 0, 0) /\ UNCHANGED spent
    BY <1>6, <2>1, <2>4 DEF ReplyTypes, Cuts
  <2>5. CASE (\E type \in {"resync-required", "failed"} : answer' = Reply(type, request, 0, 0)) /\ Trouble("failures")
    BY <1>6, <2>1, <2>5 DEF ReplyTypes, Cuts
  <2> QED BY <2>2, <2>3, <2>4, <2>5 DEF TakeCut
<1> HIDE DEF request
<1>8. /\ spent' \in Spents /\ (Untroubled' => Untroubled)
      /\ spent'.malformed = spent.malformed /\ spent'.gaps = spent.gaps
  <2>1. CASE spent' = spent
    BY <1>1, <2>1 DEF TypeOK, Spents, Untroubled
  <2>2. CASE Trouble("failures")
    <3>1. spent' \in Spents /\ spent'["failures"] > 0
      BY <1>1, <2>2, TroubleIs DEF Spents
    <3>2. spent'["malformed"] = spent["malformed"] /\ spent'.gaps = spent.gaps
      BY <1>1, <2>2, TroubleIs
    <3>3. spent'.failures # 0
      BY <3>1 DEF Spents
    <3> QED BY <3>1, <3>2, <3>3 DEF Untroubled
  <2> QED BY <1>7, <2>1, <2>2
<1>9. IsReply(answer') /\ (Fresh(answer') <=> request.current)
  BY <1>7 DEF IsReply, ReplyTypes, Fresh, Replies
<1>10. TypeOK'
  BY <1>1, <1>2, <1>3, <1>5, <1>7, <1>8 DEF TypeOK, Spents, link, client, controller
<1>11. Cut'
  BY <1>2, <1>3 DEF Cut, link
<1>12. InOrder'
  BY <1>2, <1>3, <1>4, <1>9 DEF InOrder
<1>13. Expected'
  <2>1. Subscribing => cutover /\ \A i \in 1..Len(down) : ~IsReply(down[i])
    BY <1>3 DEF Inv, Expected
  <2> QED BY <1>2, <1>3, <1>4, <1>7, <1>9, <2>1 DEF Expected, Subscribing, client, controller
<1>14. Sequenced'
  BY <1>2, <1>5 DEF Inv, Sequenced, client
<1>15. Replicated'
  <2>1. CutSound(answer)'
    <3>1. store.instance = srv.instance => store.sequence <= srv.head
      BY DEF Inv, Replicated
    <3> QED BY <1>2, <1>5, <1>6, <1>7, <3>1 DEF CutSound
  <2>2. \A i \in 1..Len(down') : CutSound(down[i])'
    BY <1>2, <1>3 DEF CutSound
  <2> QED BY <1>2, <1>5, <2>1, <2>2 DEF Inv, Replicated
<1>16. Admitted'
  BY <1>2, <1>5 DEF Inv, Admitted, CapabilitiesFresh, link, controller
<1>17. Led'
  BY <1>2, <1>8 DEF Inv, Led, Progressing, Subscribing, link, controller
<1>18. Complete'
  <2>1. Covered(answer)'
    BY <1>5, <1>6, <1>7 DEF Covered
  <2>2. \A i \in 1..Len(down') : Covered(down[i])'
    BY <1>2, <1>3 DEF Covered
  <2>3. Whole' => Whole
    BY <1>8 DEF Whole
  <2>4. \A n : Coming(n) => Coming(n)'
    BY <1>2, <1>5 DEF Coming
  <2> QED BY <1>2, <1>5, <2>1, <2>2, <2>3, <2>4 DEF Inv, Complete, link, client, controller
<1> QED BY <1>10, <1>11, <1>12, <1>13, <1>14, <1>15, <1>16, <1>17, <1>18 DEF Inv

(* The runtime makes patches: the newest goes to a subscribed view, and    *)
(* what it does not send is skipped or malformed.                          *)
LEMMA MadeStep ==
  ASSUME Inv, srv.head <= srv'.head, srv'.instance = srv.instance, srv'.subscribed = srv.subscribed,
         srv' \in [instance : 1..MaxInstance, head : 0..MaxHead, subscribed : BOOLEAN],
         NEW m \in Patches \cup Malformed,
         IsPatch(m) => m = Patch(srv.instance, srv'.head) /\ srv.head < srv'.head,
         down' = IF conn /\ srv.subscribed THEN Append(down, m) ELSE down,
         spent' \in Spents, Untroubled' => Untroubled,
         spent'.malformed = 0 => spent.malformed = 0 /\ (IsPatch(m) \/ down' = down),
         Whole' => Whole /\ srv'.head = srv.head + 1 /\ IsPatch(m),
         UNCHANGED <<link, up, answer, client, controller, store>>
  PROVE  Inv'
<1>1. TypeOK
  BY DEF Inv
<1>2. srv.head \in Nat /\ srv'.head \in Nat
  BY <1>1, Typed, ConstantAssumption
<1>3. m \in Msgs /\ ~IsReply(m)
  BY DEF Msgs, IsReply, ReplyTypes, Patches, Malformed
<1>4. /\ down' \in Seq(Msgs) /\ Len(down) \in Nat
      /\ \A i \in 1..Len(down) : down'[i] = down[i] /\ i \in 1..Len(down') /\ down[i] \in Msgs
      /\ \A i \in 1..Len(down') : i \in 1..Len(down) \/ (i = Len(down) + 1 /\ down'[i] = m /\ down' # down)
      /\ conn /\ srv.subscribed => Len(down) + 1 \in 1..Len(down') /\ down'[Len(down) + 1] = m
      /\ down' # down => conn /\ srv.subscribed
  <2>1. down \in Seq(Msgs) /\ Len(down) \in Nat /\ \A i \in 1..Len(down) : down[i] \in Msgs
    BY <1>1, Typed
  <2>2. CASE conn /\ srv.subscribed
    <3>1. down' = Append(down, m)
      BY <2>2
    <3>2. Len(down') # Len(down)
      BY <1>1, <1>3, <2>1, <3>1, SentIs
    <3> QED BY <1>1, <1>3, <2>1, <2>2, <3>1, <3>2, SentIs
  <2>3. CASE ~(conn /\ srv.subscribed)
    BY <2>1, <2>3
  <2> QED BY <2>2, <2>3
<1>5. /\ \A i \in 1..Len(down) : Fresh(down[i]) \/ IsPatch(down[i]) => down[i].sequence \in Nat
      /\ \A p \in buffer : p.sequence \in Nat
      /\ Fresh(answer) => answer.sequence \in Nat
  <2>1. \A i \in 1..Len(down) : Fresh(down[i]) \/ IsPatch(down[i]) => down[i].sequence \in Nat
    BY <1>4, MsgIs DEF Fresh
  <2>2. buffer \subseteq Patches /\ answer \in Replies \cup {Silence}
    BY <1>1, Typed
  <2>3. \A p \in buffer : p.sequence \in Nat
    BY <2>2 DEF Patches
  <2>4. Fresh(answer) => answer.sequence \in Nat
    BY <2>2, SilenceIs DEF Replies
  <2> QED BY <2>1, <2>3, <2>4
<1>6. UNCHANGED <<conn, bound, restoring, up, answer, cutover, buffer, life, sync, caps, timers, illegal, store>>
  BY DEF link, client, controller
<1>7. \A i \in 1..Len(down') : IsReply(down'[i]) => i \in 1..Len(down) /\ down'[i] = down[i]
  BY <1>3, <1>4
<1>8. TypeOK'
  BY <1>1, <1>4, <1>6 DEF TypeOK, Spents, Msgs
<1>9. Cut'
  BY <1>4, <1>6 DEF Inv, Cut
<1>10. InOrder'
  <2>1. ASSUME NEW i \in 1..Len(down'), Fresh(down'[i])
        PROVE  up = <<>> /\ answer = Silence /\ \A j \in (i + 1)..Len(down') : ~IsReply(down'[j])
    <3>1. i \in 1..Len(down) /\ Fresh(down[i])
      BY <1>7, <2>1 DEF Fresh
    <3>2. up = <<>> /\ answer = Silence /\ \A j \in (i + 1)..Len(down) : ~IsReply(down[j])
      BY <3>1 DEF Inv, InOrder
    <3>3. ASSUME NEW j \in (i + 1)..Len(down'), IsReply(down'[j]) PROVE FALSE
      <4>1. j \in 1..Len(down')
        BY <3>1, <3>3
      <4>2. j \in (i + 1)..Len(down) /\ IsReply(down[j])
        BY <1>7, <3>1, <3>3, <4>1
      <4> QED BY <3>2, <4>2
    <3> QED BY <3>2, <3>3
  <2> QED BY <1>6, <2>1 DEF Inv, InOrder
<1>11. Expected'
  BY <1>6, <1>7 DEF Inv, Expected, Subscribing, Fresh
<1>12. Sequenced'
  <2>1. Sequenced
    BY DEF Inv
  <2>2. ASSUME NEW i \in 1..Len(down'), IsPatch(down'[i])
        PROVE  /\ down'[i].instance = srv'.instance /\ down'[i].sequence <= srv'.head
               /\ \A j \in (i + 1)..Len(down') : IsPatch(down'[j]) => down'[i].sequence < down'[j].sequence
               /\ \A p \in buffer : p.sequence < down'[i].sequence
    <3>1. CASE i = Len(down) + 1 /\ down'[i] = m
      <4>1. m.instance = srv.instance /\ m.sequence = srv'.head /\ srv.head < srv'.head
        BY <2>2, <3>1 DEF Patch
      <4>2. (i + 1)..Len(down') = {}
        BY <1>4, <3>1
      <4>3. \A p \in buffer : p.sequence < m.sequence
        BY <1>2, <1>5, <2>1, <4>1 DEF Sequenced
      <4> QED BY <1>2, <3>1, <4>1, <4>2, <4>3
    <3>2. CASE i \in 1..Len(down) /\ down'[i] = down[i]
      <4>1. /\ down[i].instance = srv.instance /\ down[i].sequence <= srv.head
            /\ \A j \in (i + 1)..Len(down) : IsPatch(down[j]) => down[i].sequence < down[j].sequence
            /\ \A p \in buffer : p.sequence < down[i].sequence
            /\ down[i].sequence \in Nat
        BY <1>5, <2>1, <2>2, <3>2 DEF Sequenced
      <4>2. ASSUME NEW j \in (i + 1)..Len(down'), IsPatch(down'[j])
            PROVE  down'[i].sequence < down'[j].sequence
        <5>1. j \in 1..Len(down')
          BY <3>2, <4>2
        <5>2. CASE j \in 1..Len(down)
          <6>1. j \in (i + 1)..Len(down) /\ down'[j] = down[j]
            BY <1>4, <4>2, <5>2
          <6> QED BY <3>2, <4>1, <4>2, <6>1
        <5>3. CASE down'[j] = m
          <6>1. m.sequence = srv'.head /\ srv.head < srv'.head
            BY <4>2, <5>3 DEF Patch
          <6> QED BY <1>2, <3>2, <4>1, <5>3, <6>1
        <5> QED BY <1>4, <5>1, <5>2, <5>3
      <4> QED BY <1>2, <3>2, <4>1, <4>2
    <3> QED BY <1>4, <3>1, <3>2
  <2>3. \A p \in buffer : p.instance = srv'.instance /\ p.sequence <= srv'.head
    BY <1>2, <1>5, <2>1 DEF Sequenced
  <2> QED BY <1>6, <2>2, <2>3 DEF Sequenced
<1>13. Replicated'
  <2>1. CutSound(answer)'
    BY <1>2, <1>5, <1>6 DEF Inv, Replicated, CutSound
  <2>2. ASSUME NEW i \in 1..Len(down') PROVE CutSound(down[i])'
    <3>1. CASE IsReply(down'[i])
      <4>1. i \in 1..Len(down) /\ down'[i] = down[i]
        BY <1>7, <3>1
      <4>2. CutSound(down[i]) /\ (Fresh(down[i]) => down[i].sequence \in Nat)
        BY <1>5, <4>1 DEF Inv, Replicated
      <4> QED BY <1>2, <1>6, <4>1, <4>2 DEF CutSound
    <3>2. CASE ~IsReply(down'[i])
      BY <3>2 DEF CutSound, Fresh
    <3> QED BY <3>1, <3>2
  <2>3. store.sequence \in Nat
    BY <1>1, Typed
  <2> QED BY <1>2, <1>6, <2>1, <2>2, <2>3 DEF Inv, Replicated
<1>14. Admitted'
  BY <1>6 DEF Inv, Admitted, CapabilitiesFresh
<1>15. Led'
  <2>1. ASSUME spent'.malformed = 0, NEW i \in 1..Len(down') PROVE down'[i].type # "malformed"
    <3>1. \A j \in 1..Len(down) : down[j].type # "malformed"
      BY <2>1 DEF Inv, Led
    <3> QED BY <1>4, <2>1, <3>1 DEF IsPatch
  <2> QED BY <1>6, <2>1 DEF Inv, Led, Progressing, Subscribing
<1>16. Complete'
  <2>1. SUFFICES ASSUME Whole' PROVE Complete'
    BY DEF Complete
  <2>2. Whole /\ srv'.head = srv.head + 1 /\ IsPatch(m) /\ m = Patch(srv.instance, srv'.head)
    BY <2>1
  <2>3. ASSUME srv.subscribed, NEW n \in Nat, n <= srv'.head,
               n <= srv.head => Patch(srv.instance, n) \in buffer \/ Coming(n)
        PROVE  (n <= srv.head /\ Patch(srv.instance, n) \in buffer) \/ Coming(n)'
    <3>1. CASE n <= srv.head
      <4>1. Coming(n) => Coming(n)'
        BY <1>4 DEF Coming
      <4> QED BY <2>3, <3>1, <4>1
    <3>2. CASE ~(n <= srv.head)
      <4>1. n = srv'.head
        BY <1>2, <2>2, <2>3, <3>2
      <4>2. conn
        BY <2>3 DEF Inv, Cut
      <4> QED BY <1>4, <2>2, <2>3, <4>1, <4>2 DEF Coming
    <3> QED BY <3>1, <3>2
  <2>4. ASSUME NEW x, Covered(x), Fresh(x) => x.sequence \in Nat, Fresh(x), x.type \in Cuts
        PROVE  /\ srv'.subscribed
               /\ \A n \in (x.sequence + 1)..srv'.head : Patch(srv'.instance, n) \in buffer' \/ Coming(n)'
    <3>1. /\ srv.subscribed
          /\ \A n \in (x.sequence + 1)..srv.head : Patch(srv.instance, n) \in buffer \/ Coming(n)
      BY <2>4 DEF Covered
    <3>2. ASSUME NEW n \in (x.sequence + 1)..srv'.head
          PROVE  Patch(srv.instance, n) \in buffer \/ Coming(n)'
      <4>1. n \in Nat /\ n <= srv'.head /\ (n <= srv.head => n \in (x.sequence + 1)..srv.head)
        BY <1>2, <2>4, <3>2
      <4> QED BY <2>3, <3>1, <4>1
    <3> QED BY <1>6, <3>1, <3>2
  <2>5. Covered(answer)'
    <3>1. Covered(answer)
      BY <2>2 DEF Inv, Complete
    <3> QED BY <1>5, <1>6, <2>4, <3>1 DEF Covered
  <2>6. ASSUME NEW i \in 1..Len(down') PROVE Covered(down[i])'
    <3>1. CASE IsReply(down'[i])
      <4>1. i \in 1..Len(down) /\ down'[i] = down[i]
        BY <1>7, <3>1
      <4>2. Covered(down[i]) /\ (Fresh(down[i]) => down[i].sequence \in Nat)
        BY <1>5, <2>2, <4>1 DEF Inv, Complete
      <4> QED BY <2>4, <4>1, <4>2 DEF Covered
    <3>2. CASE ~IsReply(down'[i])
      BY <3>2 DEF Covered, Fresh
    <3> QED BY <3>1, <3>2
  <2>7. ASSUME life' = "live", conn', ~restoring'
        PROVE  /\ srv'.subscribed /\ ~cutover' /\ store'.instance = srv'.instance
               /\ \A n \in (store'.sequence + 1)..srv'.head : Coming(n)'
    <3>1. /\ srv.subscribed /\ ~cutover /\ store.instance = srv.instance
          /\ \A n \in (store.sequence + 1)..srv.head : Coming(n)
      BY <1>6, <2>2, <2>7 DEF Inv, Complete
    <3>2. store.sequence \in Nat
      BY <1>1, Typed
    <3>3. ASSUME NEW n \in (store.sequence + 1)..srv'.head PROVE Coming(n)'
      <4>1. n \in Nat /\ n <= srv'.head /\ (n <= srv.head => n \in (store.sequence + 1)..srv.head)
        BY <1>2, <3>2, <3>3
      <4>2. CASE n <= srv.head
        <5>1. Coming(n)
          BY <3>1, <4>1, <4>2
        <5> QED BY <1>4, <5>1 DEF Coming
      <4>3. CASE ~(n <= srv.head)
        BY <2>3, <3>1, <4>1, <4>3
      <4> QED BY <4>2, <4>3
    <3> QED BY <1>6, <3>1, <3>3
  <2> QED BY <2>5, <2>6, <2>7 DEF Complete
<1> QED BY <1>8, <1>9, <1>10, <1>11, <1>12, <1>13, <1>14, <1>15, <1>16 DEF Inv
LEMMA EmitStep == ASSUME Inv, Emit PROVE Inv'
<1>1. TypeOK
  BY DEF Inv
<1>2. /\ srv.head < MaxHead /\ srv' = [srv EXCEPT !.head = srv.head + 1] /\ Send(Patch(srv.instance, srv.head + 1))
      /\ UNCHANGED <<link, up, answer, client, controller, store, spent>>
  BY DEF Emit
<1> DEFINE h == srv.head + 1
           m == Patch(srv.instance, h)
<1>3. /\ srv \in [instance : 1..MaxInstance, head : 0..MaxHead, subscribed : BOOLEAN]
      /\ srv.instance \in 1..MaxInstance /\ srv.head \in Nat /\ h \in 1..MaxHead /\ h \in 0..MaxHead /\ srv.head < h
  <2>1. srv.instance \in 1..MaxInstance /\ srv.head \in 0..MaxHead /\ MaxHead \in Nat
    BY <1>1, Typed
  <2>2. srv \in [instance : 1..MaxInstance, head : 0..MaxHead, subscribed : BOOLEAN]
    BY <1>1 DEF TypeOK
  <2> QED BY <1>2, <2>1, <2>2
<1> HIDE DEF h
<1>4. /\ srv' \in [instance : 1..MaxInstance, head : 0..MaxHead, subscribed : BOOLEAN]
      /\ srv'.head = h /\ srv'.instance = srv.instance /\ srv'.subscribed = srv.subscribed
  <2>1. srv' = [srv EXCEPT !.head = h]
    BY <1>2 DEF h
  <2> QED BY <1>3, <2>1, Zenon
<1>5. m \in Patches
  BY <1>3 DEF Patch, Patches
<1>6. down' = IF conn /\ srv.subscribed THEN Append(down, m) ELSE down
  BY <1>2 DEF Send, h
<1>7. spent' = spent /\ spent' \in Spents
  BY <1>1, <1>2 DEF TypeOK, Spents
<1>8. IsPatch(m) /\ m \in Patches \cup Malformed /\ m = Patch(srv.instance, srv'.head)
  BY <1>4, <1>5 DEF IsPatch, Patch
<1>9. (Untroubled' => Untroubled) /\ (Whole' => Whole)
  BY <1>7 DEF Untroubled, Whole
<1>10. srv.head <= srv'.head /\ srv.head < srv'.head /\ srv'.head = srv.head + 1
  BY <1>3, <1>4 DEF h
<1> HIDE DEF m
<1> QED BY <1>2, <1>4, <1>6, <1>7, <1>8, <1>9, <1>10, MadeStep

LEMMA EmitGapStep == ASSUME Inv, EmitGap PROVE Inv'
<1>1. TypeOK
  BY DEF Inv
<1>2. /\ srv.head + 1 < MaxHead /\ srv' = [srv EXCEPT !.head = srv.head + 2] /\ Send(Patch(srv.instance, srv.head + 2))
      /\ spent.gaps < MaxGaps /\ spent' = [spent EXCEPT !.gaps = spent.gaps + 1]
      /\ UNCHANGED <<link, up, answer, client, controller, store>>
  BY DEF EmitGap
<1> DEFINE h == srv.head + 2
           m == Patch(srv.instance, h)
           g == spent.gaps + 1
<1>3. /\ srv \in [instance : 1..MaxInstance, head : 0..MaxHead, subscribed : BOOLEAN]
      /\ srv.instance \in 1..MaxInstance /\ srv.head \in Nat /\ h \in 1..MaxHead /\ h \in 0..MaxHead /\ srv.head < h
  <2>1. srv.instance \in 1..MaxInstance /\ srv.head \in 0..MaxHead /\ MaxHead \in Nat
    BY <1>1, Typed
  <2>2. srv \in [instance : 1..MaxInstance, head : 0..MaxHead, subscribed : BOOLEAN]
    BY <1>1 DEF TypeOK
  <2> QED BY <1>2, <2>1, <2>2
<1>4. spent \in Spents /\ g \in 0..MaxGaps /\ g > 0
  <2>1. spent.gaps \in 0..MaxGaps /\ MaxGaps \in Nat
    BY <1>1, SpentIs, ConstantAssumption
  <2>2. spent \in Spents
    BY <1>1 DEF TypeOK, Spents
  <2> QED BY <1>2, <2>1, <2>2
<1> HIDE DEF h, g
<1>5. /\ srv' \in [instance : 1..MaxInstance, head : 0..MaxHead, subscribed : BOOLEAN]
      /\ srv'.head = h /\ srv'.instance = srv.instance /\ srv'.subscribed = srv.subscribed
  <2>1. srv' = [srv EXCEPT !.head = h]
    BY <1>2 DEF h
  <2> QED BY <1>3, <2>1, Zenon
<1>6. m \in Patches
  BY <1>3 DEF Patch, Patches
<1>7. down' = IF conn /\ srv.subscribed THEN Append(down, m) ELSE down
  BY <1>2 DEF Send, h
<1>8. /\ spent' \in Spents /\ spent'.gaps = g /\ spent'.malformed = spent.malformed
      /\ spent'.failures = spent.failures /\ spent'.late = spent.late
  <2>1. spent' = [spent EXCEPT !.gaps = g]
    BY <1>2 DEF g
  <2> QED BY <1>4, <2>1, Zenon DEF Spents
<1>9. IsPatch(m) /\ m \in Patches \cup Malformed /\ m = Patch(srv.instance, srv'.head)
  BY <1>5, <1>6 DEF IsPatch, Patch
<1>10. (Untroubled' => Untroubled) /\ ~Whole'
  BY <1>4, <1>8 DEF Untroubled, Whole
<1>11. srv.head <= srv'.head /\ srv.head < srv'.head
  BY <1>3, <1>5
<1> HIDE DEF m
<1> QED BY <1>2, <1>5, <1>7, <1>8, <1>9, <1>10, <1>11, MadeStep

LEMMA EmitMalformedStep == ASSUME Inv, EmitMalformed PROVE Inv'
<1>1. TypeOK
  BY DEF Inv
<1> DEFINE m == [type |-> "malformed"]
           h == srv.head + 1
<1>2. /\ srv.head < MaxHead /\ Trouble("malformed") /\ srv' = [srv EXCEPT !.head = srv.head + 1] /\ Send(m)
      /\ UNCHANGED <<link, up, answer, client, controller, store>>
  BY DEF EmitMalformed
<1>3. /\ srv \in [instance : 1..MaxInstance, head : 0..MaxHead, subscribed : BOOLEAN]
      /\ srv.head \in Nat /\ h \in 0..MaxHead /\ srv.head < h
  <2>1. srv.head \in 0..MaxHead /\ MaxHead \in Nat
    BY <1>1, Typed
  <2>2. srv \in [instance : 1..MaxInstance, head : 0..MaxHead, subscribed : BOOLEAN]
    BY <1>1 DEF TypeOK
  <2> QED BY <1>2, <2>1, <2>2
<1> HIDE DEF h
<1>4. /\ srv' \in [instance : 1..MaxInstance, head : 0..MaxHead, subscribed : BOOLEAN]
      /\ srv'.head = h /\ srv'.instance = srv.instance /\ srv'.subscribed = srv.subscribed
  <2>1. srv' = [srv EXCEPT !.head = h]
    BY <1>2 DEF h
  <2> QED BY <1>3, <2>1, Zenon
<1>5. m \in Patches \cup Malformed /\ ~IsPatch(m)
  BY DEF Malformed, IsPatch
<1>6. down' = IF conn /\ srv.subscribed THEN Append(down, m) ELSE down
  BY <1>2 DEF Send
<1>7. spent' \in Spents /\ spent'["malformed"] > 0
  BY <1>1, <1>2, TroubleIs DEF Spents
<1>8. spent'.malformed # 0
  BY <1>7 DEF Spents
<1>9. ~Untroubled' /\ ~Whole'
  BY <1>8 DEF Untroubled, Whole
<1>10. srv.head <= srv'.head
  BY <1>3, <1>4
<1> HIDE DEF m
<1> QED BY <1>2, <1>4, <1>5, <1>6, <1>7, <1>8, <1>9, <1>10, MadeStep

-----------------------------------------------------------------------------
(* The theorems.                                                           *)

LEMMA InitInv == Init => Inv
<1> SUFFICES ASSUME Init PROVE Inv
  OBVIOUS
<1>1. /\ srv = [instance |-> 1, head |-> 0, subscribed |-> FALSE]
      /\ ~conn /\ ~bound /\ ~restoring /\ up = <<>> /\ answer = Silence /\ down = <<>> /\ ~cutover /\ buffer = {}
      /\ life = "disconnected" /\ sync = "none" /\ ~caps /\ store = NoStore /\ timers = 0 /\ ~illegal
      /\ spent = [drops |-> 0, gaps |-> 0, malformed |-> 0, asked |-> 0, late |-> 0, failures |-> 0]
  BY DEF Init
<1>2. \A n \in {MaxInstance, MaxHead, MaxDrops, MaxGaps, MaxTroubles, MaxAsked, MaxTimers} : n \in Nat /\ 0 \in 0..n
  BY ConstantAssumption
<1>3. TypeOK
  <2>1. srv \in [instance : 1..MaxInstance, head : 0..MaxHead, subscribed : BOOLEAN]
    BY <1>1, <1>2, ConstantAssumption
  <2>2. conn \in BOOLEAN /\ bound \in BOOLEAN /\ restoring \in BOOLEAN /\ cutover \in BOOLEAN
    BY DEF Init
  <2>3. caps \in BOOLEAN /\ illegal \in BOOLEAN
    BY DEF Init
  <2>4. up \in Seq(Requests) /\ down \in Seq(Patches \cup Replies \cup Malformed)
    BY <1>1
  <2>5. store \in [instance : 0..MaxInstance, sequence : 0..MaxHead, content : Seq(Nat)]
    BY <1>1, <1>2 DEF NoStore
  <2>6. spent \in [drops : 0..MaxDrops, gaps : 0..MaxGaps, asked : 0..MaxAsked,
                   malformed : 0..MaxTroubles, late : 0..MaxTroubles, failures : 0..MaxTroubles]
    BY <1>1, <1>2
  <2> QED BY <1>1, <1>2, <2>1, <2>2, <2>3, <2>4, <2>5, <2>6 DEF TypeOK, LifecycleStates, SyncStates
<1>4. /\ Len(up) = 0 /\ \A i \in 1..Len(up) : FALSE
      /\ Len(down) = 0 /\ \A i \in 1..Len(down) : FALSE
      /\ ~Fresh(answer) /\ ~IsReply(answer) /\ answer.type # "negotiated"
  BY <1>1, SilenceIs
<1>5. Cut /\ InOrder /\ Expected /\ Sequenced
  BY <1>1, <1>4 DEF Cut, InOrder, Expected, Sequenced, Subscribing
<1>6. Replicated
  <2>1. store.instance = 0 /\ store.sequence = 0 /\ store.content = <<>> /\ srv.instance = 1 /\ srv.head = 0
    BY <1>1 DEF NoStore
  <2>2. store.content = [i \in 1..store.sequence |-> i]
    BY <2>1
  <2> QED BY <1>4, <2>1, <2>2 DEF Replicated, CutSound
<1>7. Admitted /\ Led /\ Complete
  BY <1>1, <1>4 DEF Admitted, CapabilitiesFresh, Led, Untroubled, Progressing, Subscribing, Complete, Covered
<1> QED BY <1>3, <1>5, <1>6, <1>7 DEF Inv

LEMMA NextInv == Inv /\ [Next]_vars => Inv'
<1> SUFFICES ASSUME Inv, [Next]_vars PROVE Inv'
  OBVIOUS
<1>1. CASE Connect \/ Restore \/ FireTimer
  BY <1>1, ConnectStep, RestoreStep, FireTimerStep
<1>2. CASE Receive
  BY <1>2, BufferPatchStep, HandlePatchStep, HandleProtocolErrorStep, HandleNegotiatedStep,
     HandleResyncRequiredStep, HandleBootstrappedStep, HandleReplayedStep, HandleFailedStep DEF Receive
<1>3. CASE Serve
  BY <1>3, AnswerNegotiationStep, TakeCutStep, SendAnswerStep DEF Serve
<1>4. CASE Disturb
  BY <1>4, DropStep, AskStep, CloseStep, ReplaceStep, EmitStep, EmitGapStep, EmitMalformedStep DEF Disturb
<1>5. CASE UNCHANGED vars
  <2>1. TypeOK'
    BY <1>5 DEF vars, Inv, TypeOK
  <2>2. Cut' /\ InOrder' /\ Expected'
    BY <1>5 DEF vars, Inv, Cut, InOrder, Expected, Subscribing
  <2>3. Sequenced' /\ Replicated'
    BY <1>5 DEF vars, Inv, Sequenced, Replicated, CutSound
  <2>4. Admitted' /\ Led'
    BY <1>5 DEF vars, Inv, Admitted, CapabilitiesFresh, Led, Untroubled, Progressing, Subscribing
  <2>5. Complete'
    BY <1>5 DEF vars, Inv, Complete, Whole, Covered, Coming
  <2> QED BY <2>1, <2>2, <2>3, <2>4, <2>5 DEF Inv
<1> QED BY <1>1, <1>2, <1>3, <1>4, <1>5 DEF Next

(* Whatever is lost, malformed, refused, late or reconnected: what is on   *)
(* its way is what the controller waits for, in order, and the store is a  *)
(* prefix of the runtime's patches.                                        *)
THEOREM InvAlways == Spec => []Inv
BY InitInv, NextInv, PTL DEF Spec

(* An admitted feature belongs to the present connection, and a view that  *)
(* nothing troubled is taken to live without an illegal transition.        *)
THEOREM SoundAlways == Spec => []Sound
<1>1. Inv => Sound
  BY DEF Inv, Admitted, Led, Sound
<1> QED BY <1>1, InvAlways, PTL

(* A live view has lost nothing in the cutover: what it does not show yet  *)
(* is on its way, however the subscription and the patches interleaved.    *)
THEOREM CutoverCompleteAlways == Spec => []CutoverComplete
<1>1. ASSUME Inv PROVE CutoverComplete
  <2>1. DOMAIN down = 1..Len(down)
    BY <1>1, Typed DEF Inv
  <2> QED BY <1>1, <2>1 DEF Inv, Complete, Whole, Coming, CutoverComplete
<1> QED BY <1>1, InvAlways, PTL

-----------------------------------------------------------------------------
(* The refinement of ProjectionReplica.                                    *)

(* What any step does to the runtime and the store.                        *)
Maps ==
  \/ srv'.instance = srv.instance /\ srv'.head = srv.head /\ Advanced
  \/ srv'.instance = srv.instance /\ srv'.head \in {srv.head + 1, srv.head + 2} /\ store' = store
  \/ srv'.instance = srv.instance + 1 /\ srv'.head = 0 /\ store' = store

LEMMA NextMaps == ASSUME Inv, [Next]_vars PROVE Maps
<1>1. srv \in [instance : 1..MaxInstance, head : 0..MaxHead, subscribed : BOOLEAN]
  BY DEF Inv, TypeOK
<1>2. CASE srv' = srv /\ store' = store
  BY <1>2 DEF Maps, Advanced
<1>3. CASE Connect \/ Restore \/ FireTimer \/ Ask
  BY <1>2, <1>3 DEF Connect, Restore, FireTimer, Ask
<1>4. CASE BufferPatch \/ HandleProtocolError \/ HandleNegotiated \/ HandleResyncRequired \/ HandleFailed
  BY <1>2, <1>4 DEF BufferPatch, HandleProtocolError, HandleNegotiated, HandleResyncRequired, HandleFailed
<1>5. CASE HandlePatch \/ HandleBootstrapped \/ HandleReplayed
  <2>1. srv' = srv
    BY <1>5 DEF HandlePatch, HandleBootstrapped, HandleReplayed
  <2>2. Advanced
    BY <1>5, HandlePatchStep, HandleBootstrappedStep, HandleReplayedStep
  <2> QED BY <2>1, <2>2 DEF Maps
<1>6. CASE AnswerNegotiation \/ SendAnswer
  BY <1>2, <1>6 DEF AnswerNegotiation, SendAnswer
<1>7. CASE TakeCut \/ Drop \/ Close
  <2>1. store' = store
    BY <1>7 DEF TakeCut, Drop, Close
  <2>2. srv' = [srv EXCEPT !.subscribed = TRUE] \/ srv' = [srv EXCEPT !.subscribed = FALSE]
    BY <1>7 DEF TakeCut, Drop, Close
  <2>3. srv'.instance = srv.instance /\ srv'.head = srv.head
    BY <1>1, <2>2
  <2> QED BY <2>1, <2>3 DEF Maps, Advanced
<1>8. CASE Emit \/ EmitGap \/ EmitMalformed
  <2>1. store' = store
    BY <1>8 DEF Emit, EmitGap, EmitMalformed
  <2>2. srv' = [srv EXCEPT !.head = srv.head + 1] \/ srv' = [srv EXCEPT !.head = srv.head + 2]
    BY <1>8 DEF Emit, EmitGap, EmitMalformed
  <2>3. srv'.instance = srv.instance /\ srv'.head \in {srv.head + 1, srv.head + 2}
    BY <1>1, <2>2
  <2> QED BY <2>1, <2>3 DEF Maps
<1>9. CASE Replace
  BY <1>9 DEF Replace, Maps
<1>10. CASE UNCHANGED vars
  BY <1>2, <1>10 DEF vars
<1> QED BY <1>3, <1>4, <1>5, <1>6, <1>7, <1>8, <1>9, <1>10 DEF Next, Receive, Serve, Disturb

Source == [instance |-> srv.instance, head |-> srv.head]

LEMMA StepRefines == ASSUME Inv, Inv', Maps PROVE Replica!Next \/ (Source' = Source /\ store' = store)
<1>1. srv.instance \in 1..MaxInstance /\ srv.head \in 0..MaxHead /\ MaxHead \in Nat
  BY Typed DEF Inv
<1>2. CASE srv'.instance = srv.instance /\ srv'.head = srv.head /\ store' = store
  BY <1>2 DEF Source
<1>3. CASE /\ srv'.instance = srv.instance /\ srv'.head = srv.head
           /\ store'.instance = srv.instance
           /\ store.instance = srv.instance => store'.sequence >= store.sequence
  <2>1. /\ store' \in [instance : 0..MaxInstance, sequence : 0..MaxHead, content : Seq(Nat)]
        /\ store'.content = [i \in 1..store'.sequence |-> i]
        /\ store'.instance = srv'.instance => store'.sequence <= srv'.head
    BY DEF Inv, TypeOK, Replicated
  <2>2. store'.sequence \in 0..srv.head
    BY <1>1, <1>3, <2>1
  <2>3. store' = [instance |-> srv.instance, sequence |-> store'.sequence, content |-> [i \in 1..store'.sequence |-> i]]
    BY <1>3, <2>1
  <2>4. Replica!CatchUp
    BY <1>3, <2>2, <2>3 DEF Replica!CatchUp, Replica!Prefix
  <2> QED BY <2>4 DEF Replica!Next
<1>4. CASE srv'.instance = srv.instance /\ srv'.head \in {srv.head + 1, srv.head + 2} /\ store' = store
  <2>1. PICK n \in 1..2 : srv'.head = srv.head + n
    BY <1>1, <1>4
  <2>2. Replica!Grow
    BY <1>4, <2>1 DEF Replica!Grow
  <2> QED BY <2>2 DEF Replica!Next
<1>5. CASE srv'.instance = srv.instance + 1 /\ srv'.head = 0 /\ store' = store
  BY <1>5 DEF Replica!Next, Replica!Replace
<1> QED BY <1>2, <1>3, <1>4, <1>5 DEF Maps, Advanced

(* The store implements ProjectionReplica: it shows a prefix of the        *)
(* patches of one instance and never goes back.                            *)
THEOREM ReplicaImplemented == Spec => RefinesReplica
<1>1. Init => Replica!Init
  BY DEF Init, NoStore, Replica!Init, Replica!Prefix
<1>2. Inv /\ Inv' /\ [Next]_vars => [Replica!Next]_<<Source, store>>
  BY NextMaps, StepRefines
<1> QED BY <1>1, <1>2, InvAlways, PTL DEF Spec, RefinesReplica, Replica!Spec, Source
=============================================================================
