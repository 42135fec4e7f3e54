--------------------- MODULE ComposerSubmission_proofs ---------------------
(* Proofs about what becomes of a prompt: in the composer that it is sent  *)
(* from (ComposerSubmission), and in the leaf whose session may have to be *)
(* restored first (SessionTransitions), for every value of the constants.  *)
EXTENDS ComposerSubmission, SessionTransitions, TLAPS

-----------------------------------------------------------------------------
(* The inductive invariant of ComposerSubmission.                          *)

Draft == [text : Nat, files : SUBSET Files]
Record == [id : Nat, draft : Draft, marker : 0..Steered]
View == [draft : Draft, stash : Draft, revoked : SUBSET Files, rec : Record, retracting : BOOLEAN,
         committed : BOOLEAN, stopping : BOOLEAN, aborting : BOOLEAN, streaming : BOOLEAN,
         marker : 0..Steered, history : SUBSET (Nat \ {0})]
Turn == [turn : 0..Steered, phase : {"none", "accepted", "streaming", "output"}]
Pending == [id : Nat, draft : Draft, marker : 0..Steered, slash : BOOLEAN, aborted : BOOLEAN,
            restored : BOOLEAN, stage : {"none", "preparing", "asked", "started", "undoing",
              "planning", "planned"}]
Retraction == [id : Nat, draft : Draft, result : {"none", "retracted", "output-started", "not-found"}]

Typed ==
  /\ view \in View /\ srv \in Turn /\ pend \in Pending /\ retr \in Seq(Retraction)
  /\ written \in 0..MaxTexts /\ stored \in SUBSET Files /\ sends \in 0..MaxSends
  /\ mishaps \in SUBSET Mishaps

(* Texts were typed, files stored and submissions made.                    *)
Within(d, w, s) == d.text <= w /\ d.files \subseteq s

Seen(v, w, s, n) ==
  /\ Within(v.draft, w, s) /\ Within(v.stash, w, s) /\ Within(v.rec.draft, w, s)
  /\ v.history \subseteq 1..w /\ v.revoked \subseteq s /\ v.rec.id <= n

Known ==
  /\ Seen(view, written, stored, sends)
  /\ Within(pend.draft, written, stored) /\ pend.id <= sends
  /\ \A i \in 1..Len(retr) : Within(retr[i].draft, written, stored) /\ retr[i].id <= sends /\ retr[i].id # 0

(* Whoever retracts is owed an answer.                                     *)
Asked(v, q) ==
  /\ (v.rec = NoRec) <=> (v.rec.id = 0)
  /\ v.retracting => q # <<>>
  /\ Len(q) <= 2

Shaped ==
  /\ (srv = Idle) <=> (srv.turn = 0)
  /\ (pend = NoPend) <=> (pend.stage = "none")
  /\ (pend.id = 0) <=> (pend.stage = "none")
  /\ pend.slash <=> pend.stage \in {"planning", "planned"}
  /\ pend.restored => pend.aborted /\ ~pend.slash
  /\ Asked(view, retr)

(* What makes the composer busy is a turn, or a retraction whose answer    *)
(* will free it.                                                           *)
Busy(v, s) ==
  /\ v.streaming => s # Idle
  /\ v.rec # NoRec => s.turn = v.rec.id \/ v.retracting
  /\ v.committed => s # Idle

(* A text or file is in one place: in the draft, in the stash, in the      *)
(* submission that may be retracted, in the one that is pending, or gone.  *)
Apart(a, b) == (a.text = b.text => a.text = 0) /\ a.files \cap b.files = {}

Unspent(d, v) == d.text \notin v.history /\ d.files \cap v.revoked = {}

Unsent(p) == IF p.slash \/ p.restored THEN Empty ELSE p.draft

Tidy(v, u) ==
  /\ Apart(v.draft, v.stash) /\ Apart(v.draft, v.rec.draft) /\ Apart(v.stash, v.rec.draft)
  /\ Apart(v.draft, u) /\ Apart(v.stash, u) /\ Apart(v.rec.draft, u)
  /\ Unspent(v.draft, v) /\ Unspent(v.stash, v) /\ Unspent(v.rec.draft, v) /\ Unspent(u, v)

Whole ==
  /\ Tidy(view, Unsent(pend))
  /\ pend.restored => view.draft = pend.draft
  /\ pend # NoPend => pend.draft # Empty
  /\ view.retracting => pend = NoPend \/ pend.slash
  /\ retr # <<>> => view.retracting /\ Len(retr) = 1 /\ retr[1].draft = view.rec.draft

Inv ==
  /\ Typed /\ Known /\ Shaped
  /\ "late" \notin mishaps => Busy(view, srv)
  /\ Untangled => Whole

(* What has gone wrong has, but for a turn that is seen to have ended.     *)
Grown ==
  /\ mishaps' \in SUBSET Mishaps
  /\ Untangled' => Untangled
  /\ "late" \notin mishaps' => "late" \notin mishaps

-----------------------------------------------------------------------------
(* What the handlers make of a view.                                       *)

LEMMA Values ==
  /\ MaxTexts \in Nat /\ MaxSends \in Nat /\ Steered \in Nat /\ 0 \in 0..Steered /\ Steered \in 0..Steered
  /\ Empty \in Draft /\ Empty.text = 0 /\ Empty.files = {}
  /\ NoRec \in Record /\ NoRec.id = 0 /\ NoRec.draft = Empty /\ NoRec.marker = 0
  /\ NoPend \in Pending /\ NoPend.id = 0 /\ NoPend.draft = Empty /\ NoPend.marker = 0 /\ ~NoPend.slash
  /\ ~NoPend.aborted /\ ~NoPend.restored /\ NoPend.stage = "none"
  /\ Idle \in Turn /\ Idle.turn = 0 /\ Idle.phase = "none"
<1>1. MaxTexts \in Nat /\ MaxSends \in Nat /\ Steered \in Nat /\ 0 \in 0..Steered
        /\ Steered \in 0..Steered /\ Steered # 0
  BY ConstantAssumption DEF Steered
<1>2. Empty \in Draft /\ Empty.text = 0 /\ Empty.files = {}
  BY DEF Empty, Draft
<1>3. NoRec \in Record /\ NoRec.id = 0 /\ NoRec.draft = Empty /\ NoRec.marker = 0
  BY <1>1, <1>2 DEF NoRec, Record
<1>4. /\ NoPend \in Pending /\ NoPend.id = 0 /\ NoPend.draft = Empty /\ NoPend.marker = 0 /\ ~NoPend.slash
      /\ ~NoPend.aborted /\ ~NoPend.restored /\ NoPend.stage = "none"
  BY <1>1, <1>2 DEF NoPend, Pending
<1>5. Idle \in Turn /\ Idle.turn = 0 /\ Idle.phase = "none"
  BY <1>1 DEF Idle, Turn
<1> QED BY <1>1, <1>2, <1>3, <1>4, <1>5

LEMMA ViewIs ==
  ASSUME NEW v \in View
  PROVE  /\ v.draft \in Draft /\ v.draft.text \in Nat /\ v.draft.files \subseteq Files
         /\ v.stash \in Draft /\ v.stash.text \in Nat /\ v.stash.files \subseteq Files
         /\ v.rec \in Record /\ v.rec.id \in Nat /\ v.rec.marker \in 0..Steered
         /\ v.rec.draft \in Draft /\ v.rec.draft.text \in Nat /\ v.rec.draft.files \subseteq Files
         /\ v.revoked \subseteq Files /\ v.history \subseteq Nat \ {0} /\ v.marker \in 0..Steered
         /\ v.retracting \in BOOLEAN /\ v.committed \in BOOLEAN /\ v.stopping \in BOOLEAN
         /\ v.aborting \in BOOLEAN /\ v.streaming \in BOOLEAN
BY DEF View, Record, Draft

(* x is v but for what the user is shown of the turn.                      *)
Alike(v, x) ==
  /\ x.draft = v.draft /\ x.stash = v.stash /\ x.rec = v.rec
  /\ x.history = v.history /\ x.revoked = v.revoked

LEMMA CommitIs ==
  ASSUME NEW v \in View, NEW t \in BOOLEAN
  PROVE  LET x == Commit(v, t)
         IN /\ x \in View
            /\ x.draft = v.draft /\ x.stash = v.stash /\ x.rec = NoRec
            /\ x.history = v.history \cup ({v.rec.draft.text} \ {0})
            /\ x.revoked = v.revoked \cup v.rec.draft.files
            /\ x.retracting = v.retracting /\ x.stopping = v.stopping
            /\ x.aborting = v.aborting /\ x.streaming = v.streaming /\ x.marker = v.marker
            /\ x.committed = (IF v.rec = NoRec THEN v.committed ELSE t)
<1> USE Values, ViewIs
<1>1. CASE v.rec = NoRec
  BY <1>1 DEF Commit
<1>2. CASE v.rec # NoRec
  <2> DEFINE h == v.history \cup ({v.rec.draft.text} \ {0})
             r == v.revoked \cup v.rec.draft.files
  <2>1. Commit(v, t) = [v EXCEPT !.history = h, !.revoked = r, !.rec = NoRec, !.committed = t]
    BY <1>2 DEF Commit, Remembered, View
  <2>2. h \in SUBSET (Nat \ {0}) /\ r \in SUBSET Files
    OBVIOUS
  <2> HIDE DEF h, r
  <2>3. Commit(v, t) \in View
    BY <2>1, <2>2, ZenonT(30) DEF View
  <2>4. /\ Commit(v, t).history = h /\ Commit(v, t).revoked = r /\ Commit(v, t).rec = NoRec
           /\ Commit(v, t).committed = t
        /\ Commit(v, t).draft = v.draft /\ Commit(v, t).stash = v.stash
           /\ Commit(v, t).retracting = v.retracting
        /\ Commit(v, t).stopping = v.stopping /\ Commit(v, t).aborting = v.aborting
        /\ Commit(v, t).streaming = v.streaming /\ Commit(v, t).marker = v.marker
    BY <2>1 DEF View
  <2> QED BY <1>2, <2>3, <2>4 DEF h, r
<1> QED BY <1>1, <1>2

(* x counts what v counts, and is as tidy.                                 *)
Keeps(v, x) ==
  /\ \A u : Tidy(v, u) => Tidy(x, u)
  /\ \A w \in Nat, s \in SUBSET Files, n \in Nat : Seen(v, w, s, n) => Seen(x, w, s, n)

LEMMA AlikeKeeps ==
  ASSUME NEW v, NEW x, Alike(v, x)
  PROVE  Keeps(v, x)
<1> USE DEF Alike
<1>1. \A u : Tidy(v, u) => Tidy(x, u)
  BY Zenon DEF Tidy, Unspent
<1>2. \A w, s, n : Seen(v, w, s, n) => Seen(x, w, s, n)
  BY Zenon DEF Seen
<1> QED BY <1>1, <1>2 DEF Keeps

LEMMA CommitKeeps ==
  ASSUME NEW v \in View, NEW t \in BOOLEAN
  PROVE  Keeps(v, Commit(v, t))
<1> DEFINE x == Commit(v, t)
<1>1. /\ x.draft = v.draft /\ x.stash = v.stash /\ x.rec = NoRec
      /\ x.history = v.history \cup ({v.rec.draft.text} \ {0})
      /\ x.revoked = v.revoked \cup v.rec.draft.files
  BY CommitIs
<1> HIDE DEF x
<1>2. ASSUME NEW u, Tidy(v, u)
      PROVE  Tidy(x, u)
  <2>1. Apart(x.draft, x.stash) /\ Apart(x.draft, u) /\ Apart(x.stash, u)
    BY <1>1, <1>2 DEF Tidy
  <2>2. Apart(x.draft, x.rec.draft) /\ Apart(x.stash, x.rec.draft) /\ Apart(x.rec.draft, u)
    BY <1>1, Values DEF Apart
  <2>3. Unspent(x.draft, x) /\ Unspent(x.stash, x) /\ Unspent(u, x)
    BY <1>1, <1>2 DEF Tidy, Unspent, Apart
  <2>4. Unspent(x.rec.draft, x)
    BY <1>1, <1>2, Values, ViewIs DEF Tidy, Unspent
  <2> QED BY <2>1, <2>2, <2>3, <2>4 DEF Tidy
<1>3. ASSUME NEW w \in Nat, NEW s \in SUBSET Files, NEW n \in Nat, Seen(v, w, s, n)
      PROVE  Seen(x, w, s, n)
  <2>1. x.history \subseteq 1..w
    BY <1>1, <1>3, ViewIs DEF Seen, Within
  <2>2. x.revoked \subseteq s
    BY <1>1, <1>3 DEF Seen, Within
  <2> QED BY <1>1, <1>3, <2>1, <2>2, Values DEF Seen, Within
<1> QED BY <1>2, <1>3 DEF Keeps, x

LEMMA ObserveIs ==
  ASSUME NEW v \in View
  PROVE  LET x == Observe(v)
         IN /\ x \in View /\ Keeps(v, x)
            /\ x.draft = v.draft /\ x.stash = v.stash /\ x.retracting = v.retracting
            /\ x.streaming = v.streaming /\ x.marker = v.marker
            /\ x.rec = v.rec \/ (x.rec = NoRec /\ ~v.retracting)
            /\ x.committed => v.committed \/ (v.rec # NoRec /\ ~v.retracting)
<1>1. CASE v.retracting \/ v.rec.marker = v.marker
  <2>1. Observe(v) = v /\ Keeps(v, v)
    BY <1>1 DEF Observe, Keeps
  <2> QED BY <2>1, Zenon
<1>2. CASE ~(v.retracting \/ v.rec.marker = v.marker)
  <2>1. Observe(v) = Commit(v, TRUE)
    BY <1>2 DEF Observe
  <2>2. Keeps(v, Commit(v, TRUE))
    BY CommitKeeps
  <2>3. /\ Commit(v, TRUE) \in View /\ Commit(v, TRUE).rec = NoRec
        /\ Commit(v, TRUE).draft = v.draft /\ Commit(v, TRUE).stash = v.stash
        /\ Commit(v, TRUE).retracting = v.retracting /\ Commit(v, TRUE).streaming = v.streaming
        /\ Commit(v, TRUE).marker = v.marker
        /\ Commit(v, TRUE).committed = (IF v.rec = NoRec THEN v.committed ELSE TRUE)
    BY CommitIs, Zenon
  <2>4. Commit(v, TRUE).committed => v.committed \/ (v.rec # NoRec /\ ~v.retracting)
    BY <1>2, <2>3, Zenon
  <2> QED BY <1>2, <2>1, <2>2, <2>3, <2>4, Zenon
<1> QED BY <1>1, <1>2

LEMMA InactiveIs ==
  ASSUME NEW v \in View
  PROVE  LET x == Inactive(v)
         IN /\ x \in View /\ Keeps(v, x)
            /\ x.draft = v.draft /\ x.stash = v.stash /\ x.retracting = v.retracting
            /\ x.rec = (IF v.retracting THEN v.rec ELSE NoRec)
            /\ ~x.streaming /\ ~x.committed
<1> DEFINE c == IF v.retracting THEN v ELSE Commit(v, FALSE)
           x == [c EXCEPT !.streaming = FALSE, !.committed = FALSE, !.stopping = FALSE, !.aborting = FALSE]
<1>1. Inactive(v) = x
  BY DEF Inactive
<1>2. /\ c \in View /\ Keeps(v, c) /\ c.draft = v.draft /\ c.stash = v.stash /\ c.retracting = v.retracting
      /\ c.rec = (IF v.retracting THEN v.rec ELSE NoRec)
  <2>1. CASE v.retracting
    BY <2>1 DEF Keeps
  <2>2. CASE ~v.retracting
    <3>1. FALSE \in BOOLEAN
      OBVIOUS
    <3> QED BY <2>2, <3>1, CommitIs, CommitKeeps
  <2> QED BY <2>1, <2>2
<1> HIDE DEF c
<1>3. x \in View
  BY <1>2 DEF View
<1>4. /\ Alike(c, x) /\ x.retracting = c.retracting /\ ~x.streaming /\ ~x.committed
  BY <1>2 DEF View, Alike
<1> HIDE DEF x
<1>5. Keeps(v, x)
  BY <1>2, <1>4, AlikeKeeps DEF Keeps
<1> QED BY <1>1, <1>2, <1>3, <1>4, <1>5 DEF Alike

LEMMA UnstashedIs ==
  ASSUME NEW v \in View
  PROVE  LET x == Unstashed(v)
         IN /\ x \in View /\ Keeps(v, x)
            /\ x.draft = (IF v.draft = Empty THEN v.stash ELSE v.draft)
            /\ x.rec = v.rec /\ x.retracting = v.retracting /\ x.streaming = v.streaming
            /\ x.committed = v.committed /\ x.marker = v.marker
<1> USE Values, ViewIs
<1>1. CASE v.draft # Empty
  BY <1>1 DEF Unstashed, Keeps
<1>2. CASE v.draft = Empty
  <2> DEFINE x == [v EXCEPT !.draft = v.stash, !.stash = Empty]
  <2>1. Unstashed(v) = x
    BY <1>2 DEF Unstashed
  <2>2. x \in View
    BY DEF View
  <2>3. /\ x.draft = v.stash /\ x.stash = Empty /\ x.rec = v.rec /\ x.retracting = v.retracting
        /\ x.streaming = v.streaming /\ x.committed = v.committed /\ x.marker = v.marker
        /\ x.history = v.history /\ x.revoked = v.revoked
    BY DEF View
  <2> HIDE DEF x
  <2>4. ASSUME NEW u, Tidy(v, u)
        PROVE  Tidy(x, u)
    BY <1>2, <2>3, <2>4, Zenon DEF Tidy, Apart, Unspent
  <2>5. ASSUME NEW w \in Nat, NEW s \in SUBSET Files, NEW n \in Nat, Seen(v, w, s, n)
        PROVE  Seen(x, w, s, n)
    BY <1>2, <2>3, <2>5 DEF Seen, Within
  <2> QED BY <1>2, <2>1, <2>2, <2>3, <2>4, <2>5 DEF Keeps
<1> QED BY <1>1, <1>2

LEMMA AbortIs ==
  ASSUME NEW v \in View
  PROVE  LET x == Abort(v)
         IN /\ x \in View /\ Alike(v, x) /\ x.retracting = v.retracting
            /\ x.streaming = v.streaming /\ x.committed = v.committed
<1> DEFINE s == v.aborting => v.stopping
           x == [v EXCEPT !.aborting = TRUE, !.stopping = s]
<1>1. Abort(v) = x
  BY DEF Abort
<1>2. s \in BOOLEAN
  OBVIOUS
<1> HIDE DEF s
<1>3. x \in View /\ Alike(v, x) /\ x.retracting = v.retracting /\ x.streaming = v.streaming
        /\ x.committed = v.committed
  BY <1>2 DEF View, Alike
<1> QED BY <1>1, <1>3

(* A draft that nobody holds any more is no matter.                        *)
LEMMA Dropped ==
  ASSUME NEW v \in View, NEW u, Tidy(v, u)
  PROVE  Tidy(v, Empty)
<1>1. Apart(v.draft, Empty) /\ Apart(v.stash, Empty) /\ Apart(v.rec.draft, Empty)
  BY Values DEF Apart
<1>2. Unspent(Empty, v)
  BY Values, ViewIs DEF Unspent
<1> QED BY <1>1, <1>2 DEF Tidy

LEMMA DraftIs ==
  ASSUME NEW v \in View, NEW d \in Draft
  PROVE  LET x == [v EXCEPT !.draft = d]
         IN /\ x \in View /\ x.draft = d /\ x.stash = v.stash /\ x.rec = v.rec
            /\ x.history = v.history /\ x.revoked = v.revoked
            /\ x.retracting = v.retracting /\ x.streaming = v.streaming
            /\ x.committed = v.committed /\ x.marker = v.marker
BY DEF View

(* The draft that is pending is put back, or the draft is taken for it.    *)
LEMMA GivenBack ==
  ASSUME NEW v \in View, NEW d \in Draft, v.draft = Empty, Tidy(v, d)
  PROVE  Tidy([v EXCEPT !.draft = d], Empty)
<1> DEFINE x == [v EXCEPT !.draft = d]
<1>1. x.draft = d /\ x.stash = v.stash /\ x.rec = v.rec /\ x.history = v.history
        /\ x.revoked = v.revoked /\ x \in View
  BY DraftIs
<1> HIDE DEF x
<1>2. Tidy(x, v.draft)
  BY <1>1, Zenon DEF Tidy, Apart, Unspent
<1> QED BY <1>1, <1>2, Dropped DEF x

LEMMA TakenAway ==
  ASSUME NEW v \in View, Tidy(v, Empty)
  PROVE  Tidy([v EXCEPT !.draft = Empty], v.draft)
<1> DEFINE x == [v EXCEPT !.draft = Empty]
<1>1. x.draft = Empty /\ x.stash = v.stash /\ x.rec = v.rec /\ x.history = v.history
        /\ x.revoked = v.revoked /\ x \in View
  BY DraftIs, Values
<1> HIDE DEF x
<1>2. Tidy(x, v.draft)
  BY <1>1, Zenon DEF Tidy, Apart, Unspent
<1> QED BY <1>2 DEF x

LEMMA DraftSeen ==
  ASSUME NEW v \in View, NEW d \in Draft, NEW w, NEW s, NEW n, Seen(v, w, s, n), Within(d, w, s)
  PROVE  Seen([v EXCEPT !.draft = d], w, s, n)
<1> DEFINE x == [v EXCEPT !.draft = d]
<1>1. x.draft = d /\ x.stash = v.stash /\ x.rec = v.rec /\ x.history = v.history /\ x.revoked = v.revoked
  BY DraftIs
<1> HIDE DEF x
<1>2. Seen(x, w, s, n)
  BY <1>1, Zenon DEF Seen
<1> QED BY <1>2 DEF x

LEMMA EmptyWithin ==
  ASSUME NEW w \in Nat, NEW s
  PROVE  Within(Empty, w, s)
BY Values DEF Within

LEMMA RestoreIs ==
  ASSUME NEW v \in View, NEW p \in Pending
  PROVE  LET x == Restore(v, p)
         IN /\ x \in View
            /\ x.rec = v.rec /\ x.retracting = v.retracting /\ x.streaming = v.streaming
               /\ x.committed = v.committed
            /\ ~Restorable(v, p) => x = v
            /\ Restorable(v, p) => x.draft = p.draft
            /\ Tidy(v, Unsent(p)) => Tidy(x, Empty)
            /\ \A w, s, n : Seen(v, w, s, n) /\ Within(p.draft, w, s) => Seen(x, w, s, n)
<1>1. CASE ~Restorable(v, p)
  BY <1>1, Dropped DEF Restore
<1>2. CASE Restorable(v, p)
  <2>1. p.draft \in Draft /\ Restore(v, p) = [v EXCEPT !.draft = p.draft]
    BY <1>2 DEF Restore, Pending
  <2>2. v.draft = Empty /\ Unsent(p) = p.draft
    BY <1>2 DEF Restorable, Unsent
  <2>3. Tidy(v, Unsent(p)) => Tidy(Restore(v, p), Empty)
    BY <2>1, <2>2, GivenBack
  <2>4. \A w, s, n : Seen(v, w, s, n) /\ Within(p.draft, w, s) => Seen(Restore(v, p), w, s, n)
    BY <2>1, DraftSeen
  <2>5. /\ Restore(v, p) \in View /\ Restore(v, p).draft = p.draft
        /\ Restore(v, p).rec = v.rec /\ Restore(v, p).retracting = v.retracting
        /\ Restore(v, p).streaming = v.streaming /\ Restore(v, p).committed = v.committed
    BY <2>1, DraftIs
  <2> QED BY <1>2, <2>3, <2>4, <2>5
<1> QED BY <1>1, <1>2

LEMMA RememberedIs ==
  ASSUME NEW v \in View, NEW d \in Draft, NEW t \in BOOLEAN
  PROVE  LET x == [Remembered(v, d) EXCEPT !.committed = t]
         IN /\ x \in View /\ x.draft = v.draft /\ x.stash = v.stash /\ x.rec = v.rec
            /\ x.retracting = v.retracting /\ x.streaming = v.streaming /\ x.committed = t
            /\ Tidy(v, d) => Tidy(x, Empty)
            /\ \A w \in Nat, s \in SUBSET Files : \A n : Seen(v, w, s, n) /\ Within(d, w, s) => Seen(x, w, s, n)
<1> DEFINE h == v.history \cup ({d.text} \ {0})
           r == v.revoked \cup d.files
           x == [v EXCEPT !.history = h, !.revoked = r, !.committed = t]
<1>1. [Remembered(v, d) EXCEPT !.committed = t] = x
  BY DEF Remembered, View
<1>2. h \in SUBSET (Nat \ {0}) /\ r \in SUBSET Files /\ d.text \in Nat
  BY ViewIs DEF Draft
<1> HIDE DEF h, r
<1>3. x \in View
  BY <1>2 DEF View
<1>4. /\ x.draft = v.draft /\ x.stash = v.stash /\ x.rec = v.rec /\ x.history = h /\ x.revoked = r
      /\ x.retracting = v.retracting /\ x.streaming = v.streaming /\ x.committed = t
  BY DEF View
<1> HIDE DEF x
<1>5. ASSUME Tidy(v, d)
      PROVE  Tidy(x, Empty)
  <2>1. Apart(x.draft, x.stash) /\ Apart(x.draft, x.rec.draft) /\ Apart(x.stash, x.rec.draft)
    BY <1>4, <1>5 DEF Tidy
  <2>2. Apart(x.draft, Empty) /\ Apart(x.stash, Empty) /\ Apart(x.rec.draft, Empty)
    BY Values DEF Apart
  <2>3. Unspent(x.draft, x) /\ Unspent(x.stash, x) /\ Unspent(x.rec.draft, x)
    BY <1>4, <1>5 DEF Tidy, Unspent, Apart, h, r
  <2>4. Unspent(Empty, x)
    BY <1>3, Values, ViewIs DEF Unspent
  <2> QED BY <2>1, <2>2, <2>3, <2>4 DEF Tidy
<1>6. ASSUME NEW w \in Nat, NEW s \in SUBSET Files, NEW n, Seen(v, w, s, n), Within(d, w, s)
      PROVE  Seen(x, w, s, n)
  <2>1. h \subseteq 1..w /\ r \subseteq s
    BY <1>2, <1>6 DEF Seen, Within, h, r
  <2> QED BY <1>4, <1>6, <2>1, Zenon DEF Seen
<1> QED BY <1>1, <1>3, <1>4, <1>5, <1>6

LEMMA AcceptIs ==
  ASSUME NEW v \in View, NEW d \in Draft, NEW t \in BOOLEAN
  PROVE  LET x == Accept(v, d, t)
         IN /\ x \in View
            /\ x.rec = v.rec /\ x.retracting = v.retracting /\ x.streaming = v.streaming /\ x.committed = t
            /\ Tidy(v, d) => Tidy(x, Empty)
            /\ \A w \in Nat, s \in SUBSET Files, n \in Nat :
                 Seen(v, w, s, n) /\ Within(d, w, s) => Seen(x, w, s, n)
<1> DEFINE y == [Remembered(v, d) EXCEPT !.committed = t]
<1>1. Accept(v, d, t) = Unstashed(y)
  BY DEF Accept
<1>2. /\ y \in View /\ y.rec = v.rec /\ y.retracting = v.retracting /\ y.streaming = v.streaming
         /\ y.committed = t
      /\ Tidy(v, d) => Tidy(y, Empty)
      /\ \A w \in Nat, s \in SUBSET Files : \A n : Seen(v, w, s, n) /\ Within(d, w, s) => Seen(y, w, s, n)
  BY RememberedIs
<1> HIDE DEF y
<1>3. /\ Unstashed(y) \in View /\ Keeps(y, Unstashed(y)) /\ Unstashed(y).rec = y.rec
      /\ Unstashed(y).retracting = y.retracting /\ Unstashed(y).streaming = y.streaming
      /\ Unstashed(y).committed = y.committed
  BY <1>2, UnstashedIs
<1>4. Tidy(v, d) => Tidy(Unstashed(y), Empty)
  BY <1>2, <1>3 DEF Keeps
<1>5. \A w \in Nat, s \in SUBSET Files, n \in Nat :
        Seen(v, w, s, n) /\ Within(d, w, s) => Seen(Unstashed(y), w, s, n)
  BY <1>2, <1>3 DEF Keeps
<1> QED BY <1>1, <1>2, <1>3, <1>4, <1>5

LEMMA RecoverableIs ==
  ASSUME NEW v \in View, NEW p \in Pending, p.id # 0
  PROVE  LET x == Recoverable(v, p)
         IN /\ x \in View /\ x.retracting = v.retracting /\ x.streaming = v.streaming
            /\ x.rec = NoRec \/ (x.rec # NoRec /\ x.rec.id = p.id)
            /\ Tidy(v, p.draft) => Tidy(x, Empty)
            /\ \A w \in Nat, s \in SUBSET Files, n \in Nat :
                 Seen(v, w, s, n) /\ Within(p.draft, w, s) /\ p.id <= n => Seen(x, w, s, n)
<1> DEFINE r == [id |-> p.id, draft |-> p.draft, marker |-> p.marker]
           y == [v EXCEPT !.rec = r, !.committed = FALSE]
           z == Unstashed(y)
<1>1. Recoverable(v, p) = Observe(z)
  BY DEF Recoverable
<1>2. r \in Record /\ r.id = p.id /\ r.draft = p.draft /\ p.draft \in Draft
  BY DEF Record, Pending
<1> HIDE DEF r
<1>3. y \in View
  BY <1>2 DEF View
<1>4. /\ y.draft = v.draft /\ y.stash = v.stash /\ y.rec = r /\ y.history = v.history /\ y.revoked = v.revoked
      /\ y.retracting = v.retracting /\ y.streaming = v.streaming /\ ~y.committed
  BY DEF View
<1> HIDE DEF y
<1>5. ASSUME Tidy(v, p.draft)
      PROVE  Tidy(y, Empty)
  <2>1. Tidy(y, v.rec.draft)
    BY <1>2, <1>4, <1>5, Zenon DEF Tidy, Apart, Unspent
  <2> QED BY <1>3, <2>1, Dropped
<1>6. ASSUME NEW w \in Nat, NEW s \in SUBSET Files, NEW n \in Nat, Seen(v, w, s, n),
             Within(p.draft, w, s), p.id <= n
      PROVE  Seen(y, w, s, n)
  BY <1>2, <1>4, <1>6, Zenon DEF Seen
<1>7. z \in View /\ Keeps(y, z) /\ z.rec = r /\ z.retracting = v.retracting /\ z.streaming = v.streaming
  BY <1>3, <1>4, UnstashedIs
<1> HIDE DEF z
<1>8. /\ Observe(z) \in View /\ Keeps(z, Observe(z))
      /\ Observe(z).retracting = z.retracting /\ Observe(z).streaming = z.streaming
      /\ Observe(z).rec = z.rec \/ Observe(z).rec = NoRec
  BY <1>7, ObserveIs
<1>9. Tidy(v, p.draft) => Tidy(Observe(z), Empty)
  BY <1>5, <1>7, <1>8 DEF Keeps
<1>10. \A w \in Nat, s \in SUBSET Files, n \in Nat :
         Seen(v, w, s, n) /\ Within(p.draft, w, s) /\ p.id <= n => Seen(Observe(z), w, s, n)
  BY <1>6, <1>7, <1>8 DEF Keeps
<1>11. r # NoRec
  BY <1>2, Values
<1> QED BY <1>1, <1>2, <1>7, <1>8, <1>9, <1>10, <1>11

-----------------------------------------------------------------------------
(* The user's steps.                                                       *)

LEMMA Facts ==
  ASSUME Inv
  PROVE  /\ view \in View /\ pend \in Pending /\ srv \in Turn /\ retr \in Seq(Retraction)
         /\ written \in Nat /\ written <= MaxTexts /\ stored \in SUBSET Files /\ sends \in Nat
            /\ sends <= MaxSends
         /\ Typed /\ Known /\ Shaped /\ Asked(view, retr) /\ Seen(view, written, stored, sends)
         /\ mishaps \in SUBSET Mishaps
         /\ pend.draft \in Draft /\ pend.id \in Nat /\ Len(retr) \in Nat
         /\ pend.slash \in BOOLEAN /\ pend.aborted \in BOOLEAN /\ pend.restored \in BOOLEAN
         /\ srv.turn \in 0..Steered
         /\ \A i \in 1..Len(retr) : /\ retr[i] \in Retraction /\ retr[i].id \in Nat /\ retr[i].draft \in Draft
                                    /\ Within(retr[i].draft, written, stored) /\ retr[i].id <= sends
                                       /\ retr[i].id # 0
<1>1. /\ view \in View /\ pend \in Pending /\ srv \in Turn /\ retr \in Seq(Retraction)
      /\ written \in 0..MaxTexts /\ stored \in SUBSET Files /\ sends \in 0..MaxSends
      /\ Typed /\ Known /\ Shaped /\ mishaps \in SUBSET Mishaps
  BY DEF Inv, Typed
<1>2. written \in Nat /\ written <= MaxTexts /\ sends \in Nat /\ sends <= MaxSends /\ Len(retr) \in Nat
  BY <1>1, Values
<1>3. Asked(view, retr) /\ Seen(view, written, stored, sends)
  BY <1>1 DEF Shaped, Known
<1>4. /\ pend.draft \in Draft /\ pend.id \in Nat /\ srv.turn \in 0..Steered
      /\ pend.slash \in BOOLEAN /\ pend.aborted \in BOOLEAN /\ pend.restored \in BOOLEAN
  BY <1>1 DEF Pending, Turn
<1>5. ASSUME NEW i \in 1..Len(retr)
      PROVE  /\ retr[i] \in Retraction /\ retr[i].id \in Nat /\ retr[i].draft \in Draft
             /\ Within(retr[i].draft, written, stored) /\ retr[i].id <= sends /\ retr[i].id # 0
  <2>1. retr[i] \in Retraction
    BY <1>1, <1>5
  <2> QED BY <1>1, <2>1 DEF Known, Retraction
<1> QED BY <1>1, <1>2, <1>3, <1>4, <1>5

LEMMA WithinGrows ==
  ASSUME NEW d \in Draft, NEW w \in Nat, NEW x \in Nat, NEW s \in SUBSET Files, NEW t \in SUBSET Files,
         w <= x, s \subseteq t, Within(d, w, s)
  PROVE  Within(d, x, t)
BY DEF Within, Draft

LEMMA HappensIs ==
  ASSUME Inv, NEW m \in Mishaps, NEW c \in BOOLEAN, Happens(m, c)
  PROVE  Grown /\ (c => m \in mishaps')
<1>1. mishaps \in SUBSET Mishaps
  BY Facts
<1> QED BY <1>1 DEF Happens, Grown, Untangled

LEMMA NothingHappens ==
  ASSUME Inv, UNCHANGED mishaps
  PROVE  Grown
BY Facts DEF Grown, Untangled

(* A step that concerns nothing but what the view holds and shows.         *)
LEMMA Viewed ==
  ASSUME Inv, UNCHANGED <<srv, pend, retr, sends>>, view' \in View,
         written' \in 0..MaxTexts, written <= written', stored' \in SUBSET Files, stored \subseteq stored',
         mishaps' \in SUBSET Mishaps, Untangled' => Untangled,
         Seen(view', written', stored', sends),
         view'.retracting = view.retracting,
         view'.rec = view.rec \/ (view'.rec = NoRec /\ ~view.retracting),
         "late" \notin mishaps' => Busy(view', srv),
         Whole /\ Untangled' =>
           Tidy(view', Unsent(pend)) /\ (pend.restored => view'.draft = view.draft)
  PROVE  Inv'
<1>1. /\ pend \in Pending /\ written' \in Nat /\ written \in Nat /\ pend.draft \in Draft /\ Typed
         /\ Known /\ Shaped /\ Asked(view, retr)
      /\ \A i \in 1..Len(retr) : /\ retr[i].draft \in Draft /\ Within(retr[i].draft, written, stored)
                                 /\ retr[i].id <= sends /\ retr[i].id # 0
      /\ view.rec.id \in Nat /\ stored \in SUBSET Files /\ view'.retracting \in BOOLEAN
         /\ view.retracting \in BOOLEAN
  BY Facts, Values, ViewIs
<1>2. Typed'
  BY <1>1 DEF Typed
<1>3. Known'
  <2>1. Within(pend.draft, written', stored')
    BY <1>1, WithinGrows DEF Known
  <2>2. \A i \in 1..Len(retr) : Within(retr[i].draft, written', stored')
    BY <1>1, WithinGrows
  <2> QED BY <1>1, <2>1, <2>2 DEF Known
<1>4. Shaped'
  <2>1. Asked(view', retr)
    BY <1>1, Values DEF Asked
  <2> QED BY <1>1, <2>1 DEF Shaped, Asked
<1>5. ASSUME "late" \notin mishaps'
      PROVE  Busy(view, srv)'
  BY <1>5 DEF Busy
<1>6. ASSUME Untangled'
      PROVE  Whole'
  <2>1. Whole
    BY <1>6 DEF Inv
  <2>2. Tidy(view', Unsent(pend)) /\ (pend.restored => view'.draft = view.draft)
    BY <1>6, <2>1
  <2>3. retr # <<>> => view'.rec = view.rec
    BY <2>1 DEF Whole
  <2> QED BY <2>1, <2>2, <2>3 DEF Whole, Unsent
<1> QED BY <1>2, <1>3, <1>4, <1>5, <1>6 DEF Inv

LEMMA InitInv == Init => Inv
<1> SUFFICES ASSUME Init
             PROVE  Inv
  OBVIOUS
<1> USE Values
<1>1. /\ view.draft = Empty /\ view.stash = Empty /\ view.rec = NoRec /\ view.history = {} /\ view.revoked = {}
      /\ ~view.retracting /\ ~view.committed /\ ~view.streaming
  BY DEF Init
<1>2. srv = Idle /\ pend = NoPend /\ retr = <<>> /\ Len(retr) = 0 /\ written = 0 /\ stored = {} /\ sends = 0
        /\ mishaps = {}
  BY DEF Init
<1>3. Typed
  <2>1. view \in View
    BY DEF Init, View
  <2> QED BY <1>2, <2>1 DEF Typed
<1>4. Within(Empty, 0, {})
  BY DEF Within
<1>5. Known
  BY <1>1, <1>2, <1>4 DEF Known, Seen
<1>6. Asked(view, retr)
  BY <1>1, <1>2 DEF Asked
<1>7. Shaped
  BY <1>1, <1>2, <1>6 DEF Shaped
<1>8. Busy(view, srv)
  BY <1>1, <1>2 DEF Busy
<1>9. Whole
  <2>1. Unsent(pend) = Empty
    BY <1>2 DEF Unsent
  <2>2. Apart(Empty, Empty) /\ Unspent(Empty, view)
    BY <1>1 DEF Apart, Unspent
  <2> QED BY <1>1, <1>2, <2>1, <2>2, Zenon DEF Whole, Tidy
<1> QED BY <1>3, <1>5, <1>7, <1>8, <1>9 DEF Inv

(* What Stop has put back is not touched before its send is decided.       *)
LEMMA Untouched ==
  ASSUME Inv, Whole, Reworked, Untangled'
  PROVE  ~pend.restored
<1>1. Undecided => "rework" \in mishaps'
  BY DEF Reworked, Happens
<1> QED BY <1>1 DEF Whole, Undecided, Untangled

LEMMA ReworkedIs ==
  ASSUME Inv, Reworked
  PROVE  Grown
<1>1. Undecided \in BOOLEAN
  BY Facts DEF Undecided
<1> QED BY <1>1, HappensIs DEF Reworked, Mishaps

LEMMA PendingText ==
  ASSUME Inv
  PROVE  Unsent(pend) \in Draft /\ Within(Unsent(pend), written, stored)
<1>1. pend.draft \in Draft /\ Within(pend.draft, written, stored) /\ written \in Nat
  BY Facts DEF Known
<1> QED BY <1>1, Values, EmptyWithin DEF Unsent

(* The draft becomes one that is as tidy.                                  *)
LEMMA Edited ==
  ASSUME Inv, UNCHANGED <<srv, pend, retr, sends>>, NEW d \in Draft, view' = [view EXCEPT !.draft = d],
         written' \in 0..MaxTexts, written <= written', stored' \in SUBSET Files, stored \subseteq stored',
         Within(d, written', stored'), Reworked,
         Whole /\ Untangled' =>
           /\ Apart(d, view.stash) /\ Apart(d, view.rec.draft) /\ Apart(d, Unsent(pend))
           /\ Unspent(d, view)
  PROVE  Inv'
<1>1. view \in View /\ Seen(view, written, stored, sends) /\ written \in Nat /\ written' \in Nat
        /\ stored \in SUBSET Files
  BY Facts, Values
<1>2. /\ view' \in View /\ view'.draft = d /\ view'.stash = view.stash /\ view'.rec = view.rec
      /\ view'.history = view.history /\ view'.revoked = view.revoked
      /\ view'.retracting = view.retracting /\ view'.streaming = view.streaming
      /\ view'.committed = view.committed
  BY <1>1, DraftIs
<1>3. Seen(view', written', stored', sends)
  <2>1. Within(view.stash, written', stored') /\ Within(view.rec.draft, written', stored')
    BY <1>1, ViewIs, WithinGrows DEF Seen
  <2>2. view.history \subseteq 1..written' /\ view.revoked \subseteq stored'
    BY <1>1 DEF Seen
  <2> QED BY <1>1, <1>2, <2>1, <2>2 DEF Seen
<1>4. ASSUME Whole, Untangled'
      PROVE  Tidy(view', Unsent(pend)) /\ ~pend.restored
  <2>1. Tidy(view, Unsent(pend)) /\ ~pend.restored
    BY <1>4, Untouched DEF Whole
  <2>2. Tidy(view', Unsent(pend))
    BY <1>2, <1>4, <2>1, Zenon DEF Tidy, Apart, Unspent
  <2> QED BY <2>1, <2>2
<1>5. Grown /\ (Grown /\ "late" \notin mishaps' => Busy(view', srv))
  BY <1>2, ReworkedIs DEF Inv, Busy, Grown
<1> QED BY <1>2, <1>3, <1>4, <1>5, Viewed DEF Grown

LEMMA TypeInv ==
  ASSUME Inv, Type
  PROVE  Inv'
<1> DEFINE d == [view.draft EXCEPT !.text = written + 1]
<1>1. /\ view \in View /\ view.draft \in Draft /\ written \in Nat /\ written + 1 \in 0..MaxTexts
         /\ Seen(view, written, stored, sends)
      /\ stored \in SUBSET Files
  BY Facts, ViewIs, Values DEF Type
<1>2. d \in Draft /\ d.text = written + 1 /\ d.files = view.draft.files
  BY <1>1 DEF Draft
<1>3. view' = [view EXCEPT !.draft = d]
  BY DEF Type
<1> HIDE DEF d
<1>4. written' = written + 1 /\ stored' = stored /\ Reworked /\ UNCHANGED <<srv, pend, retr, sends>>
  BY DEF Type
<1>5. Within(d, written', stored')
  BY <1>1, <1>2, <1>4 DEF Seen, Within
<1>6. ASSUME Whole
      PROVE  /\ Apart(d, view.stash) /\ Apart(d, view.rec.draft) /\ Apart(d, Unsent(pend))
             /\ Unspent(d, view)
  <2>1. view.stash.text <= written /\ view.rec.draft.text <= written /\ Unsent(pend).text <= written
    BY <1>1, PendingText DEF Seen, Within
  <2>2. view.stash.text \in Nat /\ view.rec.draft.text \in Nat /\ Unsent(pend).text \in Nat
    BY <1>1, ViewIs, PendingText DEF Draft
  <2>3. written + 1 \notin view.history
    BY <1>1 DEF Seen
  <2>4. Apart(view.draft, view.stash) /\ Apart(view.draft, view.rec.draft)
          /\ Apart(view.draft, Unsent(pend)) /\ Unspent(view.draft, view)
    BY <1>6 DEF Whole, Tidy
  <2>5. Unspent(d, view)
    BY <1>2, <2>3, <2>4 DEF Unspent
  <2>6. d.text # view.stash.text /\ d.text # view.rec.draft.text /\ d.text # Unsent(pend).text
    BY <1>1, <1>2, <2>1, <2>2
  <2> QED BY <1>2, <2>4, <2>5, <2>6 DEF Apart
<1> QED BY <1>1, <1>2, <1>3, <1>4, <1>5, <1>6, Edited

LEMMA EraseInv ==
  ASSUME Inv, Erase
  PROVE  Inv'
<1> DEFINE d == [view.draft EXCEPT !.text = 0]
<1>1. view \in View /\ view.draft \in Draft /\ written \in 0..MaxTexts
        /\ Seen(view, written, stored, sends) /\ stored \in SUBSET Files
  BY Facts, ViewIs, Values
<1>2. d \in Draft /\ d.text = 0 /\ d.files = view.draft.files
  BY <1>1 DEF Draft
<1>3. view' = [view EXCEPT !.draft = d]
  BY DEF Erase
<1> HIDE DEF d
<1>4. written' = written /\ stored' = stored /\ Reworked /\ UNCHANGED <<srv, pend, retr, sends>>
  BY DEF Erase
<1>5. Within(d, written', stored')
  BY <1>1, <1>2, <1>4 DEF Seen, Within
<1>6. ASSUME Whole
      PROVE  /\ Apart(d, view.stash) /\ Apart(d, view.rec.draft) /\ Apart(d, Unsent(pend))
             /\ Unspent(d, view)
  <2>1. 0 \notin view.history
    BY <1>1 DEF Seen
  <2>2. Apart(view.draft, view.stash) /\ Apart(view.draft, view.rec.draft)
          /\ Apart(view.draft, Unsent(pend)) /\ Unspent(view.draft, view)
    BY <1>6 DEF Whole, Tidy
  <2> QED BY <1>2, <2>1, <2>2 DEF Apart, Unspent
<1> QED BY <1>1, <1>2, <1>3, <1>4, <1>5, <1>6, Edited

LEMMA StoreInv ==
  ASSUME Inv, NEW f \in Files, Store(f)
  PROVE  Inv'
<1> DEFINE g == view.draft.files \cup {f}
           d == [view.draft EXCEPT !.files = g]
<1>1. view \in View /\ view.draft \in Draft /\ written \in 0..MaxTexts
        /\ Seen(view, written, stored, sends) /\ stored \in SUBSET Files
  BY Facts, ViewIs, Values
<1>2. d \in Draft /\ d.text = view.draft.text /\ d.files = g
  <2>1. g \in SUBSET Files
    BY <1>1, ViewIs
  <2> HIDE DEF g
  <2> QED BY <1>1, <2>1 DEF Draft
<1>3. view' = [view EXCEPT !.draft = d]
  BY DEF Store
<1> HIDE DEF d
<1>4. written' = written /\ stored' = stored \cup {f} /\ f \notin stored /\ Reworked
        /\ UNCHANGED <<srv, pend, retr, sends>>
  BY DEF Store
<1>5. Within(d, written', stored')
  BY <1>1, <1>2, <1>4 DEF Seen, Within
<1>6. ASSUME Whole
      PROVE  /\ Apart(d, view.stash) /\ Apart(d, view.rec.draft) /\ Apart(d, Unsent(pend))
             /\ Unspent(d, view)
  <2>1. f \notin view.stash.files /\ f \notin view.rec.draft.files /\ f \notin Unsent(pend).files
          /\ f \notin view.revoked
    BY <1>1, <1>4, PendingText DEF Seen, Within
  <2>2. Apart(view.draft, view.stash) /\ Apart(view.draft, view.rec.draft)
          /\ Apart(view.draft, Unsent(pend)) /\ Unspent(view.draft, view)
    BY <1>6 DEF Whole, Tidy
  <2> QED BY <1>2, <2>1, <2>2 DEF Apart, Unspent
<1> QED BY <1>1, <1>2, <1>3, <1>4, <1>5, <1>6, Edited, SMTT(30)

(* The draft and the stash give way to parts of themselves; the rest of    *)
(* their files is revoked.                                                 *)
LEMMA Discarded ==
  ASSUME Inv, UNCHANGED <<srv, pend, retr, sends, written, stored>>, NEW d \in Draft, NEW e \in Draft, NEW g,
         view' = [view EXCEPT !.draft = d, !.stash = e, !.revoked = @ \cup g],
         Within(d, written, stored), Within(e, written, stored), g \subseteq stored, Grown,
         Whole /\ Untangled' =>
           /\ ~pend.restored
           /\ Apart(d, e) /\ d.files \cap g = {} /\ e.files \cap g = {}
           /\ \A u : Apart(view.draft, u) /\ Apart(view.stash, u) => Apart(d, u) /\ Apart(e, u)
              /\ u.files \cap g = {}
           /\ Unspent(view.draft, view) /\ Unspent(view.stash, view) => Unspent(d, view) /\ Unspent(e, view)
  PROVE  Inv'
<1>1. view \in View /\ Seen(view, written, stored, sends) /\ written \in 0..MaxTexts
        /\ stored \in SUBSET Files /\ written \in Nat
  BY Facts, Values
<1>2. /\ view' \in View /\ view'.draft = d /\ view'.stash = e /\ view'.rec = view.rec
      /\ view'.history = view.history /\ view'.revoked = view.revoked \cup g
      /\ view'.retracting = view.retracting /\ view'.streaming = view.streaming
      /\ view'.committed = view.committed
  <2> DEFINE r == view.revoked \cup g
             y == [view EXCEPT !.draft = d, !.stash = e, !.revoked = r]
  <2>1. r \in SUBSET Files
    BY <1>1, ViewIs
  <2>2. view' = y
    OBVIOUS
  <2> HIDE DEF r
  <2>3. /\ y \in View /\ y.draft = d /\ y.stash = e /\ y.rec = view.rec
        /\ y.history = view.history /\ y.revoked = r
        /\ y.retracting = view.retracting /\ y.streaming = view.streaming /\ y.committed = view.committed
    BY <1>1, <2>1 DEF View
  <2> USE DEF r
  <2> HIDE DEF y
  <2> QED BY <2>2, <2>3
<1>3. Seen(view', written', stored', sends)
  BY <1>1, <1>2 DEF Seen
<1>4. ASSUME Whole, Untangled'
      PROVE  Tidy(view', Unsent(pend)) /\ ~pend.restored
  <2> DEFINE u == Unsent(pend)
  <2>1. /\ Apart(view.draft, view.rec.draft) /\ Apart(view.stash, view.rec.draft)
        /\ Apart(view.draft, u) /\ Apart(view.stash, u) /\ Apart(view.rec.draft, u)
        /\ Unspent(view.draft, view) /\ Unspent(view.stash, view) /\ Unspent(view.rec.draft, view)
           /\ Unspent(u, view)
    BY <1>4 DEF Whole, Tidy
  <2> HIDE DEF u
  <2>2. Apart(d, u) /\ Apart(e, u) /\ u.files \cap g = {}
    BY <1>4, <2>1
  <2>3. Apart(d, view.rec.draft) /\ Apart(e, view.rec.draft) /\ view.rec.draft.files \cap g = {}
    BY <1>4, <2>1
  <2>4. Unspent(d, view') /\ Unspent(e, view') /\ Unspent(view.rec.draft, view') /\ Unspent(u, view')
    BY <1>2, <1>4, <2>1, <2>2, <2>3 DEF Unspent
  <2>5. Tidy(view', u)
    BY <1>2, <1>4, <2>1, <2>2, <2>3, <2>4, Zenon DEF Tidy
  <2> QED BY <1>4, <2>5 DEF u
<1>5. "late" \notin mishaps' => Busy(view', srv)
  BY <1>2 DEF Inv, Busy, Grown
<1> QED BY <1>1, <1>2, <1>3, <1>4, <1>5, Viewed DEF Grown

LEMMA RemoveFileInv ==
  ASSUME Inv, NEW f \in Files, RemoveFile(f)
  PROVE  Inv'
<1> DEFINE g == view.draft.files \ {f}
           d == [view.draft EXCEPT !.files = g]
<1>1. view \in View /\ view.draft \in Draft /\ view.stash \in Draft /\ Seen(view, written, stored, sends)
  BY Facts, ViewIs
<1>2. d \in Draft /\ d.text = view.draft.text /\ d.files = g
  <2>1. g \in SUBSET Files
    BY <1>1, ViewIs
  <2> HIDE DEF g
  <2> QED BY <1>1, <2>1 DEF Draft
<1>3. view' = [view EXCEPT !.draft = d, !.stash = view.stash, !.revoked = @ \cup {f}]
  BY <1>1 DEF RemoveFile, View
<1> HIDE DEF d
<1>4. f \in view.draft.files /\ Reworked /\ UNCHANGED <<srv, pend, retr, sends, written, stored>>
  BY DEF RemoveFile
<1>5. Within(d, written, stored) /\ Within(view.stash, written, stored) /\ {f} \subseteq stored
  BY <1>1, <1>2, <1>4 DEF Seen, Within
<1>6. ASSUME Whole, Untangled'
      PROVE  /\ ~pend.restored
             /\ Apart(d, view.stash) /\ d.files \cap {f} = {} /\ view.stash.files \cap {f} = {}
             /\ \A u : Apart(view.draft, u) /\ Apart(view.stash, u) => Apart(d, u)
                /\ Apart(view.stash, u) /\ u.files \cap {f} = {}
             /\ Unspent(view.draft, view) /\ Unspent(view.stash, view) => Unspent(d, view)
                /\ Unspent(view.stash, view)
  <2>1. ~pend.restored
    BY <1>4, <1>6, Untouched
  <2>2. Apart(view.draft, view.stash)
    BY <1>6 DEF Whole, Tidy
  <2>3. Apart(d, view.stash) /\ d.files \cap {f} = {} /\ view.stash.files \cap {f} = {}
    BY <1>2, <1>4, <2>2 DEF Apart
  <2>4. \A u : Apart(view.draft, u) => Apart(d, u) /\ u.files \cap {f} = {}
    BY <1>2, <1>4 DEF Apart
  <2>5. Unspent(view.draft, view) => Unspent(d, view)
    BY <1>2 DEF Unspent
  <2> QED BY <2>1, <2>3, <2>4, <2>5
<1> QED BY <1>1, <1>2, <1>3, <1>4, <1>5, <1>6, ReworkedIs, Discarded

LEMMA ClearedIs ==
  ASSUME NEW v \in View
  PROVE  LET x == Cleared(v)
         IN /\ x \in View /\ Keeps(v, x)
            /\ x.rec = v.rec /\ x.retracting = v.retracting /\ x.streaming = v.streaming
               /\ x.committed = v.committed
<1> DEFINE r == v.revoked \cup v.draft.files
           x == [v EXCEPT !.draft = Empty, !.revoked = r]
<1>1. Cleared(v) = x
  BY DEF Cleared
<1>2. r \in SUBSET Files
  BY ViewIs
<1> HIDE DEF r
<1>3. x \in View
  BY <1>2, Values DEF View
<1>4. /\ x.draft = Empty /\ x.stash = v.stash /\ x.rec = v.rec /\ x.history = v.history /\ x.revoked = r
      /\ x.retracting = v.retracting /\ x.streaming = v.streaming /\ x.committed = v.committed
  BY DEF View
<1> HIDE DEF x
<1>5. ASSUME NEW u, Tidy(v, u)
      PROVE  Tidy(x, u)
  <2>1. Apart(x.draft, x.stash) /\ Apart(x.draft, x.rec.draft) /\ Apart(x.draft, u)
    BY <1>4, Values DEF Apart
  <2>2. Apart(x.stash, x.rec.draft) /\ Apart(x.stash, u) /\ Apart(x.rec.draft, u)
    BY <1>4, <1>5 DEF Tidy
  <2>3. Unspent(x.stash, x) /\ Unspent(x.rec.draft, x) /\ Unspent(u, x)
    BY <1>4, <1>5 DEF Tidy, Unspent, Apart, r
  <2>4. Unspent(x.draft, x)
    BY <1>3, <1>4, Values, ViewIs DEF Unspent
  <2> QED BY <2>1, <2>2, <2>3, <2>4 DEF Tidy
<1>6. ASSUME NEW w \in Nat, NEW s \in SUBSET Files, NEW n \in Nat, Seen(v, w, s, n)
      PROVE  Seen(x, w, s, n)
  BY <1>4, <1>6, EmptyWithin DEF Seen, Within, r
<1> QED BY <1>1, <1>3, <1>4, <1>5, <1>6 DEF Keeps

LEMMA ClearInv ==
  ASSUME Inv, Clear
  PROVE  Inv'
<1>1. /\ view \in View /\ Seen(view, written, stored, sends) /\ written \in 0..MaxTexts
         /\ stored \in SUBSET Files
      /\ written \in Nat /\ sends \in Nat
  BY Facts, Values
<1>2. view' = Cleared(view) /\ pend = NoPend /\ UNCHANGED <<srv, pend, retr, sends, written, stored, mishaps>>
  BY DEF Clear, TurnActive
<1>3. /\ view' \in View /\ Keeps(view, view') /\ view'.rec = view.rec /\ view'.retracting = view.retracting
      /\ view'.streaming = view.streaming /\ view'.committed = view.committed
  BY <1>1, <1>2, ClearedIs
<1>4. Seen(view', written', stored', sends)
  BY <1>1, <1>2, <1>3 DEF Keeps
<1>5. Whole => Tidy(view', Unsent(pend)) /\ ~pend.restored
  BY <1>2, <1>3, Values DEF Whole, Keeps
<1>6. Grown /\ (Grown /\ "late" \notin mishaps' => Busy(view', srv))
  BY <1>2, <1>3, NothingHappens DEF Inv, Busy, Grown
<1> QED BY <1>1, <1>2, <1>3, <1>4, <1>5, <1>6, Viewed DEF Grown

LEMMA StashInv ==
  ASSUME Inv, Stash
  PROVE  Inv'
<1>1. view \in View /\ view.draft \in Draft /\ view.stash \in Draft
        /\ Seen(view, written, stored, sends) /\ written \in Nat
  BY Facts, ViewIs
<1>2. view' = [view EXCEPT !.draft = Empty, !.stash = view.draft, !.revoked = @ \cup view.stash.files]
  BY <1>1 DEF Stash, Stashed, View
<1>3. Reworked /\ UNCHANGED <<srv, pend, retr, sends, written, stored>>
  BY DEF Stash
<1>4. Within(Empty, written, stored) /\ Within(view.draft, written, stored) /\ view.stash.files \subseteq stored
  BY <1>1, EmptyWithin DEF Seen, Within
<1>5. ASSUME Whole, Untangled'
      PROVE  /\ ~pend.restored
             /\ Apart(Empty, view.draft) /\ Empty.files \cap view.stash.files = {}
                /\ view.draft.files \cap view.stash.files = {}
             /\ \A u : Apart(view.draft, u) /\ Apart(view.stash, u) =>
                         Apart(Empty, u) /\ Apart(view.draft, u) /\ u.files \cap view.stash.files = {}
             /\ Unspent(view.draft, view) /\ Unspent(view.stash, view) => Unspent(Empty, view)
                /\ Unspent(view.draft, view)
  <2>1. ~pend.restored
    BY <1>3, <1>5, Untouched
  <2>2. Apart(view.draft, view.stash)
    BY <1>5 DEF Whole, Tidy
  <2>3. \A u : Apart(Empty, u)
    BY Values DEF Apart
  <2>4. \A u : Apart(view.stash, u) => u.files \cap view.stash.files = {}
    BY DEF Apart
  <2>5. Unspent(Empty, view)
    BY <1>1, Values, ViewIs DEF Unspent
  <2>6. Empty.files \cap view.stash.files = {} /\ view.draft.files \cap view.stash.files = {}
    BY <2>2, Values DEF Apart
  <2> QED BY <2>1, <2>3, <2>4, <2>5, <2>6
<1> QED BY <1>1, <1>2, <1>3, <1>4, <1>5, Values, ReworkedIs, Discarded

LEMMA RestoreStashInv ==
  ASSUME Inv, RestoreStash
  PROVE  Inv'
<1>1. /\ view \in View /\ Seen(view, written, stored, sends) /\ written \in 0..MaxTexts
         /\ stored \in SUBSET Files
      /\ written \in Nat /\ sends \in Nat /\ Shaped
  BY Facts, Values
<1>2. view' = Unstashed(view) /\ view.draft = Empty /\ UNCHANGED <<srv, pend, retr, sends, written, stored, mishaps>>
  BY DEF RestoreStash
<1>3. /\ view' \in View /\ Keeps(view, view') /\ view'.rec = view.rec /\ view'.retracting = view.retracting
      /\ view'.streaming = view.streaming /\ view'.committed = view.committed
  BY <1>1, <1>2, UnstashedIs
<1>4. Seen(view', written', stored', sends)
  BY <1>1, <1>2, <1>3 DEF Keeps
<1>5. ASSUME Whole
      PROVE  Tidy(view', Unsent(pend)) /\ ~pend.restored
  <2>1. Tidy(view', Unsent(pend))
    BY <1>3, <1>5 DEF Whole, Keeps
  <2>2. ~pend.restored
    BY <1>1, <1>2, <1>5, Values DEF Whole, Shaped
  <2> QED BY <2>1, <2>2
<1>6. Grown /\ (Grown /\ "late" \notin mishaps' => Busy(view', srv))
  BY <1>2, <1>3, NothingHappens DEF Inv, Busy, Grown
<1> QED BY <1>1, <1>2, <1>3, <1>4, <1>5, <1>6, Viewed DEF Grown

(* The view becomes one that keeps what it holds.                          *)
LEMMA Kept ==
  ASSUME Inv, UNCHANGED <<srv, pend, retr, sends, written, stored>>,
         mishaps' \in SUBSET Mishaps, Untangled' => Untangled,
         view' \in View, Keeps(view, view'), view'.draft = view.draft, view'.retracting = view.retracting,
         view'.rec = view.rec \/ (view'.rec = NoRec /\ ~view.retracting),
         "late" \notin mishaps' => Busy(view', srv)
  PROVE  Inv'
<1>1. /\ view \in View /\ Seen(view, written, stored, sends) /\ written \in 0..MaxTexts
         /\ stored \in SUBSET Files
      /\ written \in Nat /\ sends \in Nat
  BY Facts, Values
<1>2. Seen(view', written, stored, sends)
  BY <1>1 DEF Keeps
<1>3. Whole => Tidy(view', Unsent(pend))
  BY DEF Whole, Keeps
<1> QED BY <1>1, <1>2, <1>3, Viewed

(* A view that counts a submission as sent while its turn runs is busy.    *)
LEMMA StaysBusy ==
  ASSUME Inv, "late" \notin mishaps, NEW v, v.streaming => view.streaming,
         (v.rec = view.rec /\ v.retracting = view.retracting) \/ v.rec = NoRec,
         v.committed => view.committed \/ (view.rec # NoRec /\ ~view.retracting)
  PROVE  Busy(v, srv)
<1>1. Busy(view, srv) /\ Shaped /\ Asked(view, retr)
  BY Facts DEF Inv
<1> QED BY <1>1, Values DEF Busy, Shaped, Asked

LEMMA NoTurnSeen ==
  ASSUME Inv, SeesNoTurn
  PROVE  mishaps' \in SUBSET Mishaps /\ (Untangled' => Untangled)
BY Facts DEF SeesNoTurn, Untangled

LEMMA InactiveBusy ==
  ASSUME NEW v \in View, NEW t
  PROVE  Busy(Inactive(v), t)
BY InactiveIs DEF Busy

LEMMA RefreshInv ==
  ASSUME Inv, Refresh
  PROVE  Inv'
<1>1. view \in View /\ UNCHANGED <<srv, pend, retr, sends, written, stored>>
  BY Facts DEF Refresh
<1>2. CASE view' = Observe(view) /\ UNCHANGED mishaps
  <2>1. /\ view' \in View /\ Keeps(view, view') /\ view'.draft = view.draft
        /\ view'.retracting = view.retracting /\ view'.streaming = view.streaming
        /\ view'.rec = view.rec \/ (view'.rec = NoRec /\ ~view.retracting)
        /\ view'.committed => view.committed \/ (view.rec # NoRec /\ ~view.retracting)
    BY <1>1, <1>2, ObserveIs, Zenon
  <2>2. "late" \notin mishaps' => Busy(view', srv)
    BY <1>2, <2>1, StaysBusy
  <2> QED BY <1>1, <1>2, <2>1, <2>2, NothingHappens, Kept DEF Grown
<1>3. CASE view' = Inactive(view) /\ SeesNoTurn
  <2>1. /\ view' \in View /\ Keeps(view, view') /\ view'.draft = view.draft
           /\ view'.retracting = view.retracting
        /\ view'.rec = (IF view.retracting THEN view.rec ELSE NoRec)
    BY <1>1, <1>3, InactiveIs, Zenon
  <2>2. Busy(view', srv)
    BY <1>1, <1>3, InactiveBusy
  <2> QED BY <1>1, <1>3, <2>1, <2>2, NoTurnSeen, Kept
<1> QED BY <1>2, <1>3 DEF Refresh

LEMMA AbortFailsInv ==
  ASSUME Inv, AbortFails
  PROVE  Inv'
<1>1. view \in View /\ UNCHANGED <<srv, pend, retr, sends, written, stored, mishaps>>
  BY Facts DEF AbortFails
<1>2. view' = [view EXCEPT !.aborting = FALSE, !.stopping = FALSE]
  BY DEF AbortFails
<1>3. /\ view' \in View /\ Alike(view, view') /\ view'.retracting = view.retracting
      /\ view'.streaming = view.streaming /\ view'.committed = view.committed
  BY <1>1, <1>2 DEF View, Alike
<1>4. Keeps(view, view') /\ view'.rec = view.rec /\ view'.draft = view.draft
  BY <1>3, AlikeKeeps DEF Alike
<1>5. "late" \notin mishaps' => Busy(view', srv)
  BY <1>1, <1>3, <1>4 DEF Inv, Busy
<1> QED BY <1>1, <1>3, <1>4, <1>5, NothingHappens, Kept DEF Grown

-----------------------------------------------------------------------------
(* The steps of a send.                                                    *)

LEMMA Awaited ==
  ASSUME Inv, pend # NoPend
  PROVE  /\ pend.id # 0 /\ pend.stage # "none"
         /\ pend.slash <=> pend.stage \in {"planning", "planned"}
         /\ pend.restored => pend.aborted /\ ~pend.slash
         /\ Within(pend.draft, written, stored) /\ pend.id <= sends
         /\ Whole => pend.draft # Empty /\ (~pend.slash => retr = <<>> /\ ~view.retracting)
<1>1. Shaped /\ Known
  BY DEF Inv
<1> QED BY <1>1 DEF Shaped, Known, Whole

(* The send is decided.                                                    *)
LEMMA Finished ==
  ASSUME Inv, pend # NoPend, NEW x \in View, Finish(x), UNCHANGED <<retr, written, stored, sends>>,
         srv' = srv \/ srv' = Idle, mishaps' \in SUBSET Mishaps, Untangled' => Untangled,
         Seen(x, written, stored, sends), x.retracting = view.retracting, (x.rec = NoRec) <=> (x.rec.id = 0),
         "late" \notin mishaps' => Busy(x, srv'),
         Whole => Tidy(x, Empty) /\ (x.rec = view.rec \/ retr = <<>>)
  PROVE  Inv'
<1>1. view' = [x EXCEPT !.stopping = FALSE] /\ pend' = NoPend
  BY DEF Finish
<1>2. /\ view' \in View /\ Alike(x, view') /\ view'.retracting = x.retracting
      /\ view'.streaming = x.streaming /\ view'.committed = x.committed
  BY <1>1 DEF View, Alike
<1>3. view'.rec = x.rec /\ Keeps(x, view')
  BY <1>2, AlikeKeeps DEF Alike
<1>4. /\ written \in Nat /\ stored \in SUBSET Files /\ sends \in Nat /\ Typed /\ Known /\ Shaped
      /\ Asked(view, retr)
  BY Facts
<1>5. Typed'
  BY <1>1, <1>2, <1>4, Values DEF Typed
<1>6. Known'
  <2>1. Seen(view', written, stored, sends)
    BY <1>3, <1>4 DEF Keeps
  <2>2. Within(NoPend.draft, written, stored) /\ NoPend.id <= sends
    BY <1>4, EmptyWithin, Values
  <2> QED BY <1>1, <1>4, <2>1, <2>2 DEF Known
<1>7. Shaped'
  <2>1. Asked(view, retr)'
    BY <1>2, <1>3, <1>4 DEF Asked
  <2>2. (srv' = Idle) <=> (srv'.turn = 0)
    BY <1>4, Values DEF Shaped
  <2> QED BY <1>1, <2>1, <2>2, Values DEF Shaped
<1>8. ASSUME "late" \notin mishaps'
      PROVE  Busy(view, srv)'
  BY <1>2, <1>3, <1>8 DEF Busy
<1>9. ASSUME Untangled'
      PROVE  Whole'
  <2>1. Whole
    BY <1>9 DEF Inv
  <2>2. Tidy(view', Empty) /\ Unsent(NoPend) = Empty
    BY <1>3, <2>1, Values DEF Keeps, Unsent
  <2>3. Unsent(pend)' = Unsent(NoPend)
    BY <1>1
  <2>4. ~pend'.restored /\ pend' = NoPend
    BY <1>1, Values
  <2>5. retr # <<>> => view'.retracting /\ Len(retr) = 1 /\ retr[1].draft = view'.rec.draft
    BY <1>2, <1>3, <2>1 DEF Whole
  <2> QED BY <2>2, <2>3, <2>4, <2>5 DEF Whole
<1> QED BY <1>5, <1>6, <1>7, <1>8, <1>9 DEF Inv

(* It comes closer to being decided.                                       *)
LEMMA Pursued ==
  ASSUME Inv, pend # NoPend, NEW g \in {"asked", "started", "undoing"},
         pend.stage \in {"preparing", "asked", "started"},
         pend' = [pend EXCEPT !.stage = g], UNCHANGED <<view, retr, written, stored, sends, mishaps>>,
         srv' = srv \/ (srv = Idle /\ srv' = [turn |-> pend.id, phase |-> "accepted"])
  PROVE  Inv'
<1>1. pend \in Pending /\ view \in View /\ srv \in Turn /\ Typed /\ Known /\ Shaped /\ Asked(view, retr)
        /\ sends <= MaxSends /\ sends \in Nat
  BY Facts
<1>2. /\ pend' \in Pending /\ pend'.id = pend.id /\ pend'.draft = pend.draft /\ pend'.slash = pend.slash
      /\ pend'.aborted = pend.aborted /\ pend'.restored = pend.restored /\ pend'.stage = g
  BY <1>1 DEF Pending
<1>3. pend.id # 0 /\ pend.id <= sends /\ ~pend.slash
  BY Awaited
<1>4. srv' \in Turn /\ ((srv' = Idle) <=> (srv'.turn = 0)) /\ (srv # Idle => srv' = srv)
  <2>1. CASE srv' = srv
    BY <1>1, <2>1 DEF Shaped
  <2>2. CASE srv = Idle /\ srv' = [turn |-> pend.id, phase |-> "accepted"]
    <3>1. pend.id \in 0..Steered
      BY <1>1, <1>3, Values DEF Pending, Steered
    <3>2. srv' \in Turn /\ srv'.turn = pend.id
      BY <2>2, <3>1 DEF Turn
    <3> QED BY <1>3, <2>2, <3>2, Values
  <2> QED BY <2>1, <2>2
<1>5. pend' # NoPend
  BY <1>2, Values
<1>6. Typed' /\ Known'
  BY <1>1, <1>2, <1>4 DEF Typed, Known
<1>7. Shaped'
  <2>1. pend'.slash <=> pend'.stage \in {"planning", "planned"}
    BY <1>2, <1>3
  <2>2. pend'.restored => pend'.aborted /\ ~pend'.slash
    BY <1>1, <1>2 DEF Shaped
  <2>3. Asked(view, retr)'
    BY <1>1 DEF Asked
  <2> QED BY <1>2, <1>3, <1>4, <1>5, <2>1, <2>2, <2>3 DEF Shaped
<1>8. ASSUME "late" \notin mishaps'
      PROVE  Busy(view, srv)'
  <2>1. Busy(view, srv) /\ (view.rec # NoRec => view.rec.id # 0)
    BY <1>1, <1>8 DEF Inv, Asked
  <2> QED BY <1>4, <2>1, Values DEF Busy
<1>9. ASSUME Untangled'
      PROVE  Whole'
  <2>1. Unsent(pend)' = Unsent(pend)
    BY <1>2 DEF Unsent
  <2>2. Whole
    BY <1>9 DEF Inv, Untangled
  <2> QED BY <1>2, <1>3, <1>5, <2>1, <2>2 DEF Whole
<1> QED BY <1>6, <1>7, <1>8, <1>9 DEF Inv

(* The draft is given back as the send is given up.                        *)
LEMMA GivenUp ==
  ASSUME Inv, pend # NoPend
  PROVE  LET x == Restore(view, pend)
         IN /\ x \in View /\ Seen(x, written, stored, sends)
            /\ x.rec = view.rec /\ x.retracting = view.retracting /\ x.streaming = view.streaming
               /\ x.committed = view.committed
            /\ Whole => Tidy(x, Empty)
            /\ Restorable(view, pend) => x.draft = pend.draft
            /\ ~Restorable(view, pend) => x = view
<1>1. view \in View /\ pend \in Pending /\ Seen(view, written, stored, sends)
  BY Facts
<1>2. Within(pend.draft, written, stored)
  BY Awaited
<1>3. Whole => Tidy(view, Unsent(pend))
  BY DEF Whole
<1> DEFINE x == Restore(view, pend)
<1>4. /\ x \in View
      /\ x.rec = view.rec /\ x.retracting = view.retracting /\ x.streaming = view.streaming
         /\ x.committed = view.committed
      /\ ~Restorable(view, pend) => x = view
      /\ Restorable(view, pend) => x.draft = pend.draft
      /\ Tidy(view, Unsent(pend)) => Tidy(x, Empty)
      /\ \A w, s, n : Seen(view, w, s, n) /\ Within(pend.draft, w, s) => Seen(x, w, s, n)
  BY <1>1, RestoreIs
<1> HIDE DEF x
<1>5. Seen(x, written, stored, sends)
  BY <1>1, <1>2, <1>4
<1>6. Whole => Tidy(x, Empty)
  BY <1>3, <1>4
<1> QED BY <1>4, <1>5, <1>6 DEF x

LEMMA GivenUpInv ==
  ASSUME Inv, pend # NoPend, Finish(Restore(view, pend)), UNCHANGED <<srv, retr, written, stored, sends, mishaps>>
  PROVE  Inv'
<1> DEFINE x == Restore(view, pend)
<1>1. /\ x \in View /\ Seen(x, written, stored, sends)
      /\ x.rec = view.rec /\ x.retracting = view.retracting /\ x.streaming = view.streaming
         /\ x.committed = view.committed
      /\ Whole => Tidy(x, Empty)
  BY GivenUp
<1> HIDE DEF x
<1>2. Finish(x)
  BY DEF x
<1>3. "late" \notin mishaps' => Busy(x, srv')
  BY <1>1 DEF Inv, Busy
<1>4. (x.rec = NoRec) <=> (x.rec.id = 0)
  BY <1>1, Facts DEF Asked
<1> QED BY <1>1, <1>2, <1>3, <1>4, NothingHappens, Finished DEF Grown

LEMMA PrepareInv ==
  ASSUME Inv, Prepare
  PROVE  Inv'
<1>1. pend # NoPend /\ pend.stage = "preparing" /\ UNCHANGED <<srv, retr, written, stored, sends, mishaps>>
  BY Values DEF Prepare
<1>2. CASE pend.aborted
  BY <1>1, <1>2, GivenUpInv DEF Prepare
<1>3. CASE ~pend.aborted
  <2>1. pend' = [pend EXCEPT !.stage = "asked"] /\ UNCHANGED view
    BY <1>3 DEF Prepare
  <2> QED BY <1>1, <2>1, Pursued
<1> QED BY <1>2, <1>3

LEMMA TakeInv ==
  ASSUME Inv, Take
  PROVE  Inv'
<1>1. /\ pend # NoPend /\ pend.stage = "asked" /\ pend' = [pend EXCEPT !.stage = "started"]
      /\ srv = Idle /\ srv' = [turn |-> pend.id, phase |-> "accepted"]
         /\ UNCHANGED <<view, retr, written, stored, sends, mishaps>>
  BY Values DEF Take
<1> QED BY <1>1, Pursued

(* An answer that comes after the turn's end is late.                      *)
LEMMA LateIs ==
  ASSUME Inv, NEW c \in BOOLEAN, Happens("late", c)
  PROVE  /\ mishaps' \in SUBSET Mishaps /\ (Untangled' => Untangled)
         /\ "late" \notin mishaps' => "late" \notin mishaps /\ ~c
BY HappensIs DEF Grown, Mishaps

LEMMA StartedInv ==
  ASSUME Inv, Started
  PROVE  Inv'
<1>1. pend # NoPend /\ pend.stage = "started" /\ UNCHANGED <<srv, retr, written, stored, sends>>
  BY Values DEF Started
<1>2. CASE pend.aborted
  <2>1. pend' = [pend EXCEPT !.stage = "undoing"] /\ UNCHANGED <<view, mishaps>>
    BY <1>2 DEF Started
  <2> QED BY <1>1, <2>1, Pursued
<1>3. CASE ~pend.aborted
  <2> DEFINE x == Recoverable(view, pend)
  <2>1. Finish(x) /\ Happens("late", srv.turn # pend.id)
    BY <1>3 DEF Started
  <2>2. /\ view \in View /\ pend \in Pending /\ Seen(view, written, stored, sends)
        /\ written \in Nat /\ stored \in SUBSET Files /\ sends \in Nat /\ Shaped /\ srv \in Turn
    BY Facts
  <2>3. /\ pend.id # 0 /\ ~pend.slash /\ ~pend.restored
        /\ Within(pend.draft, written, stored) /\ pend.id <= sends
        /\ Whole => retr = <<>>
    BY <1>1, <1>3, Awaited
  <2>4. /\ x \in View /\ x.retracting = view.retracting /\ x.streaming = view.streaming
        /\ x.rec = NoRec \/ (x.rec # NoRec /\ x.rec.id = pend.id)
        /\ Tidy(view, pend.draft) => Tidy(x, Empty)
        /\ \A w \in Nat, s \in SUBSET Files, n \in Nat :
             Seen(view, w, s, n) /\ Within(pend.draft, w, s) /\ pend.id <= n => Seen(x, w, s, n)
    BY <2>2, <2>3, RecoverableIs
  <2> HIDE DEF x
  <2>5. Seen(x, written, stored, sends)
    BY <2>2, <2>3, <2>4
  <2>6. Whole => Tidy(x, Empty) /\ (x.rec = view.rec \/ retr = <<>>)
    BY <2>3, <2>4 DEF Whole, Unsent
  <2>7. /\ mishaps' \in SUBSET Mishaps /\ (Untangled' => Untangled)
        /\ "late" \notin mishaps' => srv.turn = pend.id
    BY <2>1, LateIs
  <2>8. "late" \notin mishaps' => Busy(x, srv')
    BY <1>1, <2>2, <2>3, <2>4, <2>7, Values DEF Busy, Shaped
  <2>9. (x.rec = NoRec) <=> (x.rec.id = 0)
    BY <2>3, <2>4, Values
  <2> QED BY <1>1, <2>1, <2>4, <2>5, <2>6, <2>7, <2>8, <2>9, Finished
<1> QED BY <1>2, <1>3

LEMMA RemovedIs ==
  ASSUME Inv, pend # NoPend, ~pend.slash
  PROVE  LET x == Removed(view, pend)
         IN /\ x \in View /\ Seen(x, written, stored, sends)
            /\ x.rec = view.rec /\ x.retracting = view.retracting /\ x.streaming = view.streaming
            /\ Whole => Tidy(x, pend.draft)
<1>1. view \in View /\ pend \in Pending /\ Seen(view, written, stored, sends) /\ written \in Nat
  BY Facts
<1>2. Within(pend.draft, written, stored)
  BY Awaited
<1>3. CASE pend.restored /\ view.draft = pend.draft
  <2> DEFINE x == [view EXCEPT !.draft = Empty]
  <2>1. Removed(view, pend) = x
    BY <1>3 DEF Removed
  <2>2. x \in View /\ x.rec = view.rec /\ x.retracting = view.retracting /\ x.streaming = view.streaming
    BY <1>1, DraftIs, Values
  <2>3. Seen(x, written, stored, sends)
    BY <1>1, DraftSeen, EmptyWithin, Values
  <2>4. Whole => Tidy(x, pend.draft)
    BY <1>1, <1>3, TakenAway DEF Whole, Unsent
  <2> HIDE DEF x
  <2> QED BY <1>2, <2>1, <2>2, <2>3, <2>4
<1>4. CASE ~(pend.restored /\ view.draft = pend.draft)
  <2>1. Removed(view, pend) = view
    BY <1>4 DEF Removed
  <2>2. Whole => Tidy(view, pend.draft)
    BY <1>4 DEF Whole, Unsent
  <2> QED BY <1>1, <1>2, <2>1, <2>2
<1> QED BY <1>3, <1>4

LEMMA UndoneInv ==
  ASSUME Inv, Undone
  PROVE  Inv'
<1>1. pend # NoPend /\ pend.stage = "undoing" /\ UNCHANGED <<retr, written, stored, sends>>
  BY Values DEF Undone
<1>2. /\ pend.id # 0 /\ ~pend.slash /\ view \in View /\ Shaped /\ Asked(view, retr) /\ srv \in Turn
      /\ Within(pend.draft, written, stored) /\ pend \in Pending /\ pend.draft \in Draft
      /\ written \in Nat /\ stored \in SUBSET Files /\ sends \in Nat
      /\ Whole => retr = <<>>
  BY <1>1, Awaited, Facts
<1>3. CASE Retractable(pend.id)
  <2> DEFINE y == Restore(view, pend)
             x == Inactive(y)
  <2>1. srv' = Idle /\ Finish(x) /\ SeesNoTurn
    BY <1>3 DEF Undone
  <2>2. /\ y \in View /\ Seen(y, written, stored, sends) /\ y.retracting = view.retracting /\ y.rec = view.rec
        /\ Whole => Tidy(y, Empty)
    BY <1>1, GivenUp
  <2> HIDE DEF y
  <2>3. x \in View /\ Keeps(y, x) /\ x.retracting = y.retracting
          /\ x.rec = (IF y.retracting THEN y.rec ELSE NoRec) /\ Busy(x, srv')
    BY <2>2, InactiveIs, InactiveBusy
  <2> HIDE DEF x
  <2>4. Seen(x, written, stored, sends) /\ (Whole => Tidy(x, Empty))
    BY <1>2, <2>2, <2>3 DEF Keeps
  <2>5. (x.rec = NoRec) <=> (x.rec.id = 0)
    BY <1>2, <2>2, <2>3, Values DEF Asked
  <2>6. Whole => Tidy(x, Empty) /\ (x.rec = view.rec \/ retr = <<>>)
    BY <1>2, <2>4
  <2>7. mishaps' \in SUBSET Mishaps /\ (Untangled' => Untangled)
    BY <2>1, NoTurnSeen
  <2>8. x.retracting = view.retracting
    BY <2>2, <2>3
  <2> QED BY <1>1, <2>1, <2>3, <2>4, <2>5, <2>6, <2>7, <2>8, Finished
<1>4. CASE ~Retractable(pend.id)
  <2> DEFINE y == Removed(view, pend)
             x == Accept(y, pend.draft, TRUE)
  <2>1. UNCHANGED srv /\ Finish(x) /\ Happens("late", srv.turn # pend.id)
    BY <1>4 DEF Undone
  <2>2. /\ y \in View /\ Seen(y, written, stored, sends) /\ y.rec = view.rec
           /\ y.retracting = view.retracting /\ y.streaming = view.streaming
        /\ Whole => Tidy(y, pend.draft)
    BY <1>1, <1>2, RemovedIs
  <2> HIDE DEF y
  <2>3. /\ x \in View /\ x.rec = y.rec /\ x.retracting = y.retracting /\ x.streaming = y.streaming
        /\ Tidy(y, pend.draft) => Tidy(x, Empty)
        /\ \A w \in Nat, s \in SUBSET Files, n \in Nat : Seen(y, w, s, n)
           /\ Within(pend.draft, w, s) => Seen(x, w, s, n)
    BY <1>2, <2>2, AcceptIs
  <2> HIDE DEF x
  <2>4. Seen(x, written, stored, sends) /\ (Whole => Tidy(x, Empty))
    BY <1>2, <2>2, <2>3
  <2>5. x.rec = view.rec /\ x.retracting = view.retracting /\ x.streaming = view.streaming
    BY <2>2, <2>3
  <2>6. /\ mishaps' \in SUBSET Mishaps /\ (Untangled' => Untangled)
        /\ "late" \notin mishaps' => "late" \notin mishaps /\ srv.turn = pend.id
    BY <2>1, LateIs
  <2>7. "late" \notin mishaps' => Busy(x, srv')
    BY <1>2, <2>1, <2>5, <2>6 DEF Inv, Busy, Shaped
  <2>8. (x.rec = NoRec) <=> (x.rec.id = 0)
    BY <1>2, <2>5 DEF Asked
  <2> QED BY <1>1, <2>1, <2>3, <2>4, <2>5, <2>6, <2>7, <2>8, Finished
<1> QED BY <1>3, <1>4

LEMMA SendFailsInv ==
  ASSUME Inv, SendFails
  PROVE  Inv'
BY GivenUpInv, Values DEF SendFails

LEMMA PlanEndsInv ==
  ASSUME Inv, PlanEnds
  PROVE  Inv'
<1>1. pend # NoPend /\ pend.stage \in {"planning", "planned"} /\ Finish(view)
        /\ UNCHANGED <<srv, retr, written, stored, sends, mishaps>>
  BY Values DEF PlanEnds
<1>2. view \in View /\ Seen(view, written, stored, sends) /\ Asked(view, retr)
  BY Facts
<1>3. pend.slash
  BY <1>1, Awaited
<1>4. "late" \notin mishaps' => Busy(view, srv')
  BY <1>1 DEF Inv, Busy
<1>5. Whole => Tidy(view, Empty)
  BY <1>3 DEF Whole, Unsent
<1>6. (view.rec = NoRec) <=> (view.rec.id = 0)
  BY <1>2 DEF Asked
<1> QED BY <1>1, <1>2, <1>4, <1>5, <1>6, NothingHappens, Finished DEF Grown

(* The send stays pending, and its draft is shown or not.                  *)
LEMMA Held ==
  ASSUME Inv, pend # NoPend, view' \in View, pend' \in Pending,
         UNCHANGED <<srv, retr, written, stored, sends, mishaps>>,
         pend'.id = pend.id, pend'.draft = pend.draft, pend'.slash = pend.slash,
         pend'.stage = pend.stage \/ (pend.slash /\ pend'.stage = "planned"),
         pend'.restored => pend'.aborted /\ ~pend'.slash,
         view'.rec = view.rec, view'.retracting = view.retracting, view'.streaming = view.streaming,
         view'.committed => view.committed,
         Seen(view', written, stored, sends),
         Whole => Tidy(view', Unsent(pend')) /\ (pend'.restored => view'.draft = pend.draft)
  PROVE  Inv'
<1>1. Typed /\ Known /\ Shaped /\ Asked(view, retr)
  BY Facts
<1>2. /\ pend.id # 0 /\ pend.stage # "none"
      /\ pend.slash <=> pend.stage \in {"planning", "planned"}
      /\ Whole => pend.draft # Empty
  BY Awaited
<1>3. pend' # NoPend
  BY <1>2, Values
<1>4. Typed' /\ Known'
  BY <1>1 DEF Typed, Known
<1>5. Shaped'
  <2>1. Asked(view, retr)'
    BY <1>1 DEF Asked
  <2>2. pend'.stage # "none" /\ (pend'.slash <=> pend'.stage \in {"planning", "planned"})
    BY <1>2
  <2>3. (srv' = Idle) <=> (srv'.turn = 0)
    BY <1>1 DEF Shaped
  <2> QED BY <1>2, <1>3, <2>1, <2>2, <2>3 DEF Shaped
<1>6. ASSUME "late" \notin mishaps'
      PROVE  Busy(view, srv)'
  BY <1>6 DEF Inv, Busy
<1>7. ASSUME Untangled'
      PROVE  Whole'
  <2>1. Whole
    BY <1>7 DEF Inv, Untangled
  <2>2. Tidy(view', Unsent(pend)')
    BY <2>1 DEF Unsent
  <2>3. view.retracting => pend.slash
    BY <2>1 DEF Whole
  <2> QED BY <1>2, <1>3, <2>1, <2>2, <2>3 DEF Whole
<1> QED BY <1>4, <1>5, <1>6, <1>7 DEF Inv

LEMMA PlanAcceptedInv ==
  ASSUME Inv, PlanAccepted
  PROVE  Inv'
<1>1. /\ pend # NoPend /\ pend.stage = "planning" /\ pend' = [pend EXCEPT !.stage = "planned"]
      /\ UNCHANGED <<srv, retr, written, stored, sends, mishaps>>
  BY Values DEF PlanAccepted
<1>2. /\ view \in View /\ pend \in Pending /\ Seen(view, written, stored, sends) /\ pend.draft \in Draft
      /\ written \in Nat /\ stored \in SUBSET Files /\ sends \in Nat
  BY Facts
<1>3. /\ pend' \in Pending /\ pend'.id = pend.id /\ pend'.draft = pend.draft /\ pend'.slash = pend.slash
      /\ pend'.aborted = pend.aborted /\ pend'.restored = pend.restored /\ pend'.stage = "planned"
  BY <1>1, <1>2 DEF Pending
<1>4. pend.slash /\ ~pend.restored
        /\ Within(pend.draft, written, stored)
  BY <1>1, Awaited
<1>5. Whole => Tidy(view, Empty)
  BY <1>4 DEF Whole, Unsent
<1>6. /\ view' \in View /\ view'.rec = view.rec /\ view'.retracting = view.retracting
      /\ view'.streaming = view.streaming /\ (view'.committed => view.committed)
      /\ Seen(view', written, stored, sends)
      /\ Whole => Tidy(view', Empty)
  <2>1. CASE view.draft = pend.draft
    <3> DEFINE y == [view EXCEPT !.draft = Empty]
               x == Accept(y, pend.draft, FALSE)
    <3>1. view' = x
      BY <2>1 DEF PlanAccepted
    <3>2. y \in View /\ y.rec = view.rec /\ y.retracting = view.retracting /\ y.streaming = view.streaming
      BY <1>2, DraftIs, Values
    <3>3. Seen(y, written, stored, sends)
      BY <1>2, DraftSeen, EmptyWithin, Values
    <3>4. Whole => Tidy(y, pend.draft)
      BY <1>2, <1>5, <2>1, TakenAway
    <3> HIDE DEF y
    <3>5. /\ x \in View /\ x.rec = y.rec /\ x.retracting = y.retracting /\ x.streaming = y.streaming
             /\ x.committed = FALSE
          /\ Tidy(y, pend.draft) => Tidy(x, Empty)
          /\ \A w \in Nat, s \in SUBSET Files, n \in Nat : Seen(y, w, s, n)
             /\ Within(pend.draft, w, s) => Seen(x, w, s, n)
      BY <1>2, <3>2, AcceptIs
    <3> HIDE DEF x
    <3>6. Seen(x, written, stored, sends) /\ (Whole => Tidy(x, Empty))
      BY <1>2, <1>4, <3>3, <3>4, <3>5
    <3> QED BY <1>4, <3>1, <3>2, <3>5, <3>6
  <2>2. CASE view.draft # pend.draft
    <3>1. view' = view
      BY <2>2 DEF PlanAccepted
    <3> QED BY <1>2, <1>4, <1>5, <3>1
  <2> QED BY <2>1, <2>2
<1>7. Unsent(pend') = Empty
  BY <1>3, <1>4 DEF Unsent
<1>8. Whole => Tidy(view', Unsent(pend')) /\ (pend'.restored => view'.draft = pend.draft)
  BY <1>3, <1>4, <1>6, <1>7
<1> QED BY <1>1, <1>3, <1>4, <1>6, <1>8, Held

LEMMA CancelSendInv ==
  ASSUME Inv, CancelSend
  PROVE  Inv'
<1> DEFINE b == pend.restored \/ Restorable(view, pend)
           y == Restore(view, pend)
<1>1. /\ pend # NoPend /\ ~pend.slash /\ pend' = [pend EXCEPT !.aborted = TRUE, !.restored = b]
      /\ view' = [y EXCEPT !.stopping = TRUE] /\ UNCHANGED <<srv, retr, written, stored, sends, mishaps>>
  BY DEF CancelSend
<1>2. /\ pend \in Pending /\ written \in Nat /\ stored \in SUBSET Files /\ sends \in Nat /\ b \in BOOLEAN
  BY Facts DEF Restorable
<1>3. /\ y \in View /\ Seen(y, written, stored, sends)
      /\ y.rec = view.rec /\ y.retracting = view.retracting /\ y.streaming = view.streaming
         /\ y.committed = view.committed
      /\ Whole => Tidy(y, Empty)
      /\ Restorable(view, pend) => y.draft = pend.draft
      /\ ~Restorable(view, pend) => y = view
  BY <1>1, GivenUp
<1> HIDE DEF b, y
<1>4. /\ pend' \in Pending /\ pend'.id = pend.id /\ pend'.draft = pend.draft /\ pend'.slash = pend.slash
      /\ pend'.aborted /\ pend'.restored = b /\ pend'.stage = pend.stage
  BY <1>1, <1>2 DEF Pending
<1>5. /\ view' \in View /\ Alike(y, view') /\ view'.retracting = y.retracting
      /\ view'.streaming = y.streaming /\ view'.committed = y.committed
  BY <1>1, <1>3 DEF View, Alike
<1>6. Keeps(y, view') /\ view'.rec = y.rec /\ view'.draft = y.draft
  BY <1>5, AlikeKeeps DEF Alike
<1>7. Seen(view', written, stored, sends)
  BY <1>2, <1>3, <1>6 DEF Keeps
<1>8. ASSUME Whole
      PROVE  Tidy(view', Unsent(pend')) /\ (pend'.restored => view'.draft = pend.draft)
  <2>1. CASE b
    <3>1. Tidy(view', Empty) /\ Unsent(pend') = Empty
      BY <1>3, <1>4, <1>6, <1>8, <2>1 DEF Keeps, Unsent
    <3>2. y.draft = pend.draft
      BY <1>3, <1>8, <2>1 DEF Whole, b
    <3> QED BY <1>6, <3>1, <3>2
  <2>2. CASE ~b
    <3>1. y = view /\ ~pend.restored
      BY <1>3, <2>2 DEF b
    <3>2. Unsent(pend') = Unsent(pend) /\ ~pend'.restored
      BY <1>4, <2>2, <3>1 DEF Unsent
    <3>3. Tidy(view', Unsent(pend))
      BY <1>6, <1>8, <3>1 DEF Whole, Keeps
    <3> QED BY <3>2, <3>3
  <2> QED BY <2>1, <2>2
<1> QED BY <1>1, <1>3, <1>4, <1>5, <1>6, <1>7, <1>8, Held

LEMMA SendInv ==
  ASSUME Inv, NEW slash \in BOOLEAN, Send(slash)
  PROVE  Inv'
<1> DEFINE g == IF slash THEN "planning" ELSE "preparing"
<1>1. /\ pend = NoPend /\ Happens("crossed", view.retracting /\ ~slash) /\ view.draft # Empty /\ sends < MaxSends /\ sends' = sends + 1
      /\ pend' = [NoPend EXCEPT !.id = sends + 1, !.draft = view.draft, !.marker = view.marker,
         !.slash = slash, !.stage = g]
      /\ view' = IF slash THEN view ELSE [view EXCEPT !.draft = Empty]
      /\ UNCHANGED <<srv, retr, written, stored>>
  BY DEF Send
<1>2. Grown /\ (Untangled' => ~view.retracting \/ slash)
  <2>1. (view.retracting /\ ~slash) \in BOOLEAN
    BY Facts, ViewIs
  <2> QED BY <1>1, <2>1, HappensIs DEF Mishaps, Untangled
<1>3. /\ view \in View /\ view.draft \in Draft /\ view.marker \in 0..Steered
         /\ Seen(view, written, stored, sends) /\ written \in Nat
      /\ sends \in Nat /\ sends + 1 \in Nat /\ sends' \in 0..MaxSends /\ Typed /\ Known /\ Shaped /\ Asked(view, retr)
      /\ Within(view.draft, written, stored) /\ view.rec.id \in Nat
  BY <1>1, Facts, ViewIs, Values DEF Seen
<1>4. /\ pend' \in Pending /\ pend'.id = sends + 1 /\ pend'.draft = view.draft /\ pend'.slash = slash
      /\ ~pend'.restored /\ pend'.stage = g
  <2>1. g \in {"none", "preparing", "asked", "started", "undoing", "planning", "planned"}
    OBVIOUS
  <2> HIDE DEF g
  <2> QED BY <1>1, <1>3, <2>1, Values DEF Pending
<1>5. pend' # NoPend
  BY <1>3, <1>4, Values
<1>6. /\ view' \in View /\ view'.rec = view.rec /\ view'.retracting = view.retracting
      /\ view'.streaming = view.streaming /\ view'.committed = view.committed
      /\ Seen(view', written, stored, sends)
  <2>1. CASE slash
    BY <1>1, <1>3, <2>1
  <2>2. CASE ~slash
    <3> DEFINE y == [view EXCEPT !.draft = Empty]
    <3>1. y \in View /\ y.rec = view.rec /\ y.retracting = view.retracting
            /\ y.streaming = view.streaming /\ y.committed = view.committed
      BY <1>3, DraftIs, Values
    <3>2. Seen(y, written, stored, sends)
      BY <1>3, DraftSeen, EmptyWithin, Values
    <3>3. view' = y
      BY <1>1, <2>2
    <3> HIDE DEF y
    <3> QED BY <3>1, <3>2, <3>3
  <2> QED BY <2>1, <2>2
<1>7. Typed'
  BY <1>1, <1>2, <1>3, <1>4, <1>6 DEF Typed, Grown
<1>8. Known'
  <2>1. Seen(view', written, stored, sends + 1)
    BY <1>3, <1>6, ViewIs, Values DEF Seen
  <2>2. \A i \in 1..Len(retr) : Within(retr[i].draft, written, stored) /\ retr[i].id <= sends + 1
          /\ retr[i].id # 0
    BY <1>3, Facts
  <2> QED BY <1>1, <1>3, <1>4, <2>1, <2>2 DEF Known
<1>9. Shaped'
  <2>1. Asked(view, retr)'
    BY <1>1, <1>3, <1>6 DEF Asked
  <2>2. pend'.stage # "none" /\ (pend'.slash <=> pend'.stage \in {"planning", "planned"})
    BY <1>4
  <2>3. pend'.id # 0
    BY <1>3, <1>4
  <2>4. (srv' = Idle) <=> (srv'.turn = 0)
    BY <1>1, <1>3 DEF Shaped
  <2> QED BY <1>4, <1>5, <2>1, <2>2, <2>3, <2>4 DEF Shaped
<1>10. ASSUME "late" \notin mishaps'
       PROVE  Busy(view, srv)'
  BY <1>1, <1>2, <1>6, <1>10 DEF Inv, Busy, Grown
<1>11. ASSUME Untangled'
       PROVE  Whole'
  <2>1. Whole /\ Tidy(view, Empty)
    BY <1>1, <1>2, <1>11, Values DEF Inv, Whole, Unsent, Grown
  <2>2. Tidy(view', Unsent(pend'))
    <3>1. CASE slash
      BY <1>1, <1>4, <2>1, <3>1 DEF Unsent
    <3>2. CASE ~slash
      BY <1>1, <1>3, <1>4, <2>1, <3>2, TakenAway DEF Unsent
    <3> QED BY <3>1, <3>2
  <2>3. Unsent(pend)' = Unsent(pend')
    BY DEF Unsent
  <2>4. view'.retracting => pend'.slash
    BY <1>2, <1>4, <1>6, <1>11
  <2> QED BY <1>1, <1>4, <1>6, <2>1, <2>2, <2>3, <2>4 DEF Whole
<1> QED BY <1>7, <1>8, <1>9, <1>10, <1>11 DEF Inv

-----------------------------------------------------------------------------
(* The steps of the turn and of retractions.                               *)

(* A retraction speaks of a submission that was made.                      *)
Registered(r) == Within(r.draft, written, stored) /\ r.id <= sends /\ r.id # 0

LEMMA Retractions ==
  ASSUME Inv
  PROVE  \A i \in 1..Len(retr) : Registered(retr[i])
BY Facts DEF Registered

LEMMA Settled ==
  ASSUME Inv, UNCHANGED <<pend, written, stored, sends>>,
         mishaps' \in SUBSET Mishaps, Untangled' => Untangled,
         view' \in View, srv' \in Turn, retr' \in Seq(Retraction),
         Seen(view', written, stored, sends),
         (srv' = Idle) <=> (srv'.turn = 0),
         \A i \in 1..Len(retr') : Registered(retr'[i]),
         Asked(view', retr'),
         "late" \notin mishaps' => Busy(view', srv'),
         Whole /\ Untangled' =>
           /\ Tidy(view', Unsent(pend))
           /\ pend.restored => view'.draft = view.draft
           /\ view'.retracting => pend = NoPend \/ pend.slash
           /\ retr' # <<>> => view'.retracting /\ Len(retr') = 1 /\ retr'[1].draft = view'.rec.draft
  PROVE  Inv'
<1>1. Typed /\ Known /\ Shaped
  BY Facts
<1>2. Typed'
  BY <1>1 DEF Typed
<1>3. Known'
  BY <1>1 DEF Known, Registered
<1>4. Shaped'
  <2>1. Asked(view, retr)'
    BY DEF Asked
  <2> QED BY <1>1, <2>1 DEF Shaped
<1>5. ASSUME "late" \notin mishaps'
      PROVE  Busy(view, srv)'
  BY <1>5 DEF Busy
<1>6. ASSUME Untangled'
      PROVE  Whole'
  <2>1. Whole
    BY <1>6 DEF Inv
  <2>2. Unsent(pend)' = Unsent(pend)
    BY DEF Unsent
  <2> QED BY <1>6, <2>1, <2>2 DEF Whole
<1> QED BY <1>2, <1>3, <1>4, <1>5, <1>6 DEF Inv

LEMMA SteerInv ==
  ASSUME Inv, Steer
  PROVE  Inv'
<1>1. /\ view' = Cleared(view) /\ pend = NoPend /\ UNCHANGED <<pend, retr, written, stored, sends, mishaps>>
      /\ srv' = IF srv = Idle THEN [turn |-> Steered, phase |-> "accepted"] ELSE srv
  BY DEF Steer
<1>2. /\ view \in View /\ srv \in Turn /\ retr \in Seq(Retraction) /\ Seen(view, written, stored, sends)
      /\ written \in Nat /\ stored \in SUBSET Files /\ sends \in Nat /\ Shaped /\ Asked(view, retr)
  BY Facts
<1>3. /\ view' \in View /\ Keeps(view, view') /\ view'.rec = view.rec /\ view'.retracting = view.retracting
      /\ view'.streaming = view.streaming /\ view'.committed = view.committed
  BY <1>1, <1>2, ClearedIs
<1>4. Seen(view', written, stored, sends)
  BY <1>2, <1>3 DEF Keeps
<1>5. srv' \in Turn /\ srv' # Idle /\ ((srv' = Idle) <=> (srv'.turn = 0)) /\ (srv # Idle => srv' = srv)
  <2>1. CASE srv = Idle
    <3>1. srv' = [turn |-> Steered, phase |-> "accepted"]
      BY <1>1, <2>1
    <3>2. srv' \in Turn /\ srv'.turn = Steered /\ Steered # 0
      BY <3>1, Values, ConstantAssumption DEF Turn, Steered
    <3> QED BY <2>1, <3>2, Values
  <2>2. CASE srv # Idle
    BY <1>1, <1>2, <2>2 DEF Shaped
  <2> QED BY <2>1, <2>2
<1>6. Asked(view', retr')
  BY <1>1, <1>2, <1>3, Zenon DEF Asked
<1>7. "late" \notin mishaps' => Busy(view', srv')
  <2>1. ASSUME "late" \notin mishaps'
        PROVE  Busy(view', srv')
    <3>1. Busy(view, srv) /\ (view.rec # NoRec => view.rec.id # 0)
      BY <1>1, <1>2, <2>1 DEF Inv, Asked
    <3> QED BY <1>2, <1>3, <1>5, <3>1, Values DEF Busy, Shaped
  <2> QED BY <2>1
<1>8. ASSUME Whole
      PROVE  /\ Tidy(view', Unsent(pend)) /\ ~pend.restored
             /\ retr' # <<>> => view'.retracting /\ Len(retr') = 1 /\ retr'[1].draft = view'.rec.draft
  BY <1>1, <1>3, <1>8, Values DEF Whole, Keeps
<1>9. mishaps' \in SUBSET Mishaps /\ (Untangled' => Untangled)
  BY <1>1, NothingHappens DEF Grown
<1> QED BY <1>1, <1>2, <1>3, <1>4, <1>5, <1>6, <1>7, <1>8, <1>9, Retractions, Settled

LEMMA StopTurnInv ==
  ASSUME Inv, StopTurn
  PROVE  Inv'
<1> DEFINE v == Observe(view)
<1>1. /\ Happens("repeat", view.retracting) /\ Len(retr) < 2 /\ (pend = NoPend \/ pend.slash)
      /\ UNCHANGED <<srv, pend, written, stored, sends>>
      /\ v.rec = NoRec => view' = Abort(v) /\ UNCHANGED retr
      /\ v.rec # NoRec => /\ view' = [v EXCEPT !.retracting = TRUE, !.stopping = TRUE]
                          /\ retr' = Append(retr, [id |-> v.rec.id, draft |-> v.rec.draft, result |-> "none"])
  BY DEF StopTurn
<1>2. /\ view \in View /\ srv \in Turn /\ retr \in Seq(Retraction)
         /\ Seen(view, written, stored, sends) /\ Len(retr) \in Nat
      /\ written \in Nat /\ stored \in SUBSET Files /\ sends \in Nat /\ Shaped /\ Asked(view, retr)
  BY Facts
<1>3. /\ v \in View /\ Keeps(view, v) /\ v.draft = view.draft /\ v.retracting = view.retracting
         /\ v.streaming = view.streaming
      /\ v.rec = view.rec \/ (v.rec = NoRec /\ ~view.retracting)
      /\ v.committed => view.committed \/ (view.rec # NoRec /\ ~view.retracting)
  BY <1>2, ObserveIs, Zenon
<1> HIDE DEF v
<1>4. Grown /\ (Untangled' => ~view.retracting)
  <2>1. view.retracting \in BOOLEAN
    BY <1>2, ViewIs
  <2> QED BY <1>1, <2>1, HappensIs DEF Mishaps, Untangled
<1>5. "late" \notin mishaps => Busy(v, srv)
  BY <1>3, StaysBusy
<1>6. CASE v.rec = NoRec
  <2>1. view' = Abort(v) /\ UNCHANGED retr
    BY <1>1, <1>6
  <2>2. /\ view' \in View /\ Alike(v, view') /\ view'.retracting = v.retracting
        /\ view'.streaming = v.streaming /\ view'.committed = v.committed
    BY <1>3, <2>1, AbortIs
  <2>3. Keeps(view, view') /\ view'.draft = view.draft /\ view'.rec = v.rec
    BY <1>3, <2>2, AlikeKeeps DEF Keeps, Alike
  <2>4. "late" \notin mishaps' => Busy(view', srv)
    BY <1>4, <1>5, <2>2, <2>3 DEF Busy, Grown
  <2>5. mishaps' \in SUBSET Mishaps /\ (Untangled' => Untangled)
    BY <1>4 DEF Grown
  <2> QED BY <1>1, <1>3, <2>1, <2>2, <2>3, <2>4, <2>5, Kept
<1>7. CASE v.rec # NoRec
  <2> DEFINE r == [id |-> v.rec.id, draft |-> v.rec.draft, result |-> "none"]
  <2>1. view' = [v EXCEPT !.retracting = TRUE, !.stopping = TRUE] /\ retr' = Append(retr, r)
    BY <1>1, <1>7
  <2>2. v.rec = view.rec /\ view.rec # NoRec
    BY <1>3, <1>7
  <2>3. r \in Retraction /\ r.id = view.rec.id /\ r.draft = view.rec.draft /\ r.result = "none"
    BY <1>3, <2>2, ViewIs DEF Retraction
  <2> HIDE DEF r
  <2>4. /\ retr' \in Seq(Retraction) /\ Len(retr') = Len(retr) + 1 /\ retr'[Len(retr) + 1] = r
        /\ \A i \in 1..Len(retr) : retr'[i] = retr[i]
    BY <1>2, <2>1, <2>3
  <2>5. /\ view' \in View /\ Alike(v, view') /\ view'.retracting
        /\ view'.streaming = v.streaming /\ view'.committed = v.committed
    BY <1>3, <2>1 DEF View, Alike
  <2>6. Keeps(view, view') /\ view'.draft = view.draft /\ view'.rec = view.rec
    BY <1>3, <2>2, <2>5, AlikeKeeps DEF Keeps, Alike
  <2>7. Seen(view', written, stored, sends)
    BY <1>2, <2>6 DEF Keeps
  <2>8. \A i \in 1..Len(retr') : Registered(retr'[i])
    <3>1. Registered(r)
      BY <1>2, <2>2, <2>3 DEF Registered, Seen, Asked
    <3>2. \A i \in 1..Len(retr') : i \in 1..Len(retr) \/ i = Len(retr) + 1
      BY <1>2, <2>4
    <3> QED BY <2>4, <3>1, <3>2, Retractions
  <2>9. Asked(view', retr')
    <3>1. Len(retr') <= 2 /\ retr' # <<>>
      BY <1>1, <1>2, <2>4
    <3> QED BY <1>2, <2>6, <3>1 DEF Asked
  <2>10. "late" \notin mishaps' => Busy(view', srv')
    BY <1>1, <1>4, <1>5, <2>2, <2>5 DEF Busy, Grown
  <2>11. ASSUME Whole, Untangled'
         PROVE  /\ Tidy(view', Unsent(pend)) /\ ~pend.restored
                /\ retr' # <<>> => view'.retracting /\ Len(retr') = 1 /\ retr'[1].draft = view'.rec.draft
    <3>1. Tidy(view', Unsent(pend))
      BY <2>6, <2>11 DEF Whole, Keeps
    <3>2. retr = <<>>
      BY <1>4, <2>11 DEF Whole
    <3>3. Len(retr') = 1 /\ retr'[1] = r
      BY <2>1, <2>3, <3>2
    <3>4. ~pend.restored
      BY <1>1, <1>2, Values DEF Shaped
    <3> QED BY <2>3, <2>5, <2>6, <3>1, <3>3, <3>4
  <2>12. (srv' = Idle) <=> (srv'.turn = 0)
    BY <1>1, <1>2 DEF Shaped
  <2>13. mishaps' \in SUBSET Mishaps /\ (Untangled' => Untangled)
    BY <1>4 DEF Grown
  <2> QED BY <1>1, <1>2, <2>4, <2>5, <2>6, <2>7, <2>8, <2>9, <2>10, <2>11, <2>12, <2>13, Settled
<1> QED BY <1>6, <1>7

(* The turn goes on or ends, and is shown.                                 *)
LEMMA Shown ==
  ASSUME Inv, UNCHANGED <<pend, retr, written, stored, sends>>, srv' \in Turn,
         mishaps' \in SUBSET Mishaps, Untangled' => Untangled,
         (srv' = Idle) <=> (srv'.turn = 0),
         view' \in View, Keeps(view, view'), view'.draft = view.draft, view'.retracting = view.retracting,
         view'.rec = view.rec \/ (view'.rec = NoRec /\ ~view.retracting),
         "late" \notin mishaps' => Busy(view', srv')
  PROVE  Inv'
<1>1. /\ retr \in Seq(Retraction) /\ Seen(view, written, stored, sends)
      /\ written \in Nat /\ stored \in SUBSET Files /\ sends \in Nat /\ Shaped /\ Asked(view, retr)
  BY Facts
<1>2. Seen(view', written, stored, sends)
  BY <1>1 DEF Keeps
<1>3. Asked(view', retr')
  BY <1>1, Values DEF Asked
<1>4. ASSUME Whole
      PROVE  /\ Tidy(view', Unsent(pend)) /\ (view'.retracting => pend = NoPend \/ pend.slash)
             /\ retr' # <<>> => view'.retracting /\ Len(retr') = 1 /\ retr'[1].draft = view'.rec.draft
  BY <1>4 DEF Whole, Keeps
<1>5. \A i \in 1..Len(retr') : Registered(retr'[i])
  BY Retractions
<1> QED BY <1>1, <1>2, <1>3, <1>4, <1>5, Settled

(* A turn that runs is shown as far as it has come.                        *)
LEMMA TurnGoesOn ==
  ASSUME Inv, UNCHANGED <<pend, retr, written, stored, sends, mishaps>>, srv # Idle,
         srv' \in Turn, srv'.turn = srv.turn,
         NEW y \in View, Alike(view, y), y.retracting = view.retracting, y.committed = view.committed,
         view' = Observe(y)
  PROVE  Inv'
<1>1. srv.turn # 0 /\ srv' # Idle /\ Asked(view, retr) /\ ((srv' = Idle) <=> (srv'.turn = 0))
  BY Facts, Values DEF Shaped
<1>2. /\ view' \in View /\ Keeps(y, view') /\ view'.draft = y.draft /\ view'.retracting = y.retracting
      /\ view'.rec = y.rec \/ (view'.rec = NoRec /\ ~y.retracting)
  BY ObserveIs, Zenon
<1>3. Keeps(view, view') /\ view'.draft = view.draft
        /\ (view'.rec = view.rec \/ (view'.rec = NoRec /\ ~view.retracting))
  BY <1>2, AlikeKeeps DEF Keeps, Alike
<1>4. "late" \notin mishaps' => Busy(view', srv')
  BY <1>1, <1>2, <1>3 DEF Inv, Busy
<1> QED BY <1>1, <1>2, <1>3, <1>4, NothingHappens, Shown DEF Grown

LEMMA TurnStreamsInv ==
  ASSUME Inv, TurnStreams
  PROVE  Inv'
<1> DEFINE y == [view EXCEPT !.streaming = TRUE]
<1>1. /\ srv.phase = "accepted" /\ srv' = [srv EXCEPT !.phase = "streaming"] /\ view' = Observe(y)
      /\ UNCHANGED <<pend, retr, written, stored, sends, mishaps>>
  BY DEF TurnStreams
<1>2. view \in View /\ srv \in Turn
  BY Facts
<1>3. srv' \in Turn /\ srv'.turn = srv.turn /\ srv # Idle
  BY <1>1, <1>2, Values DEF Turn
<1>4. y \in View /\ Alike(view, y) /\ y.retracting = view.retracting /\ y.committed = view.committed
  BY <1>2 DEF View, Alike
<1> HIDE DEF y
<1> QED BY <1>1, <1>3, <1>4, TurnGoesOn

LEMMA TurnOutputsInv ==
  ASSUME Inv, TurnOutputs
  PROVE  Inv'
<1> DEFINE y == [view EXCEPT !.marker = srv.turn]
<1>1. /\ srv.phase = "streaming" /\ srv' = [srv EXCEPT !.phase = "output"] /\ view' = Observe(y)
      /\ UNCHANGED <<pend, retr, written, stored, sends, mishaps>>
  BY DEF TurnOutputs
<1>2. view \in View /\ srv \in Turn /\ srv.turn \in 0..Steered
  BY Facts
<1>3. srv' \in Turn /\ srv'.turn = srv.turn /\ srv # Idle
  BY <1>1, <1>2, Values DEF Turn
<1>4. y \in View /\ Alike(view, y) /\ y.retracting = view.retracting /\ y.committed = view.committed
  BY <1>2 DEF View, Alike
<1> HIDE DEF y
<1> QED BY <1>1, <1>3, <1>4, TurnGoesOn

LEMMA TurnEndsInv ==
  ASSUME Inv, TurnEnds
  PROVE  Inv'
<1>1. /\ srv' = Idle /\ view' = Inactive(view) /\ SeesNoTurn
      /\ UNCHANGED <<pend, retr, written, stored, sends>>
  BY DEF TurnEnds
<1>2. view \in View
  BY Facts
<1>3. /\ view' \in View /\ Keeps(view, view') /\ view'.draft = view.draft /\ view'.retracting = view.retracting
      /\ view'.rec = (IF view.retracting THEN view.rec ELSE NoRec)
      /\ Busy(view', srv')
  BY <1>1, <1>2, InactiveIs, InactiveBusy
<1>4. mishaps' \in SUBSET Mishaps /\ (Untangled' => Untangled)
  BY <1>1, NoTurnSeen
<1> QED BY <1>1, <1>3, <1>4, Values, Shown

LEMMA JudgeInv ==
  ASSUME Inv, NEW i \in 1..2, Judge(i)
  PROVE  Inv'
<1>1. i \in DOMAIN retr /\ UNCHANGED <<pend, written, stored, sends>>
  BY DEF Judge
<1>2. /\ view \in View /\ srv \in Turn /\ retr \in Seq(Retraction)
         /\ Seen(view, written, stored, sends) /\ Len(retr) \in Nat
      /\ written \in Nat /\ stored \in SUBSET Files /\ sends \in Nat /\ Shaped /\ Asked(view, retr)
      /\ i \in 1..Len(retr)
  BY <1>1, Facts
<1>3. PICK g \in {"retracted", "output-started", "not-found"} :
        /\ retr' = [retr EXCEPT ![i].result = g]
        /\ \/ srv' = Idle /\ view' = Inactive(view) /\ SeesNoTurn
           \/ UNCHANGED <<srv, view, mishaps>>
  <2>1. CASE Retractable(retr[i].id)
    BY <2>1 DEF Judge
  <2>2. CASE ~Retractable(retr[i].id)
    BY <2>2 DEF Judge
  <2> QED BY <2>1, <2>2
<1>4. /\ retr' \in Seq(Retraction) /\ Len(retr') = Len(retr)
      /\ \A j \in 1..Len(retr) : retr'[j].id = retr[j].id /\ retr'[j].draft = retr[j].draft
  <2>1. \A j \in 1..Len(retr) : retr[j] \in Retraction
    BY <1>2
  <2>2. [retr[i] EXCEPT !.result = g] \in Retraction
          /\ retr' = [retr EXCEPT ![i] = [retr[i] EXCEPT !.result = g]]
    BY <1>2, <1>3, <2>1 DEF Retraction
  <2>3. retr' \in Seq(Retraction) /\ Len(retr') = Len(retr)
    BY <1>2, <2>2
  <2>4. ASSUME NEW j \in 1..Len(retr)
        PROVE  retr'[j].id = retr[j].id /\ retr'[j].draft = retr[j].draft
    <3>1. retr'[j] = IF j = i THEN [retr[i] EXCEPT !.result = g] ELSE retr[j]
      BY <1>2, <2>2, <2>4
    <3> QED BY <1>2, <2>1, <3>1 DEF Retraction
  <2> QED BY <2>3, <2>4
<1>5. \A j \in 1..Len(retr') : Registered(retr'[j])
  BY <1>4, Retractions DEF Registered
<1>6. /\ view' \in View /\ Keeps(view, view') /\ view'.draft = view.draft /\ view'.retracting = view.retracting
      /\ view'.rec = view.rec \/ (view'.rec = NoRec /\ ~view.retracting)
      /\ srv' \in Turn /\ ((srv' = Idle) <=> (srv'.turn = 0))
      /\ mishaps' \in SUBSET Mishaps /\ (Untangled' => Untangled)
      /\ "late" \notin mishaps' => Busy(view', srv')
  <2>1. CASE srv' = Idle /\ view' = Inactive(view) /\ SeesNoTurn
    BY <1>2, <2>1, InactiveIs, InactiveBusy, NoTurnSeen, Values
  <2>2. CASE UNCHANGED <<srv, view, mishaps>>
    <3>1. Keeps(view, view') /\ ((srv' = Idle) <=> (srv'.turn = 0))
      BY <1>2, <2>2 DEF Keeps, Shaped
    <3>2. "late" \notin mishaps' => Busy(view', srv')
      BY <2>2 DEF Inv, Busy
    <3> QED BY <1>2, <2>2, <3>1, <3>2, NothingHappens DEF Grown
  <2> QED BY <1>3, <2>1, <2>2
<1>7. Seen(view', written, stored, sends)
  BY <1>2, <1>6 DEF Keeps
<1>8. Asked(view', retr')
  BY <1>2, <1>4, <1>6, Values DEF Asked
<1>9. ASSUME Whole
      PROVE  /\ Tidy(view', Unsent(pend)) /\ (view'.retracting => pend = NoPend \/ pend.slash)
             /\ retr' # <<>> => view'.retracting /\ Len(retr') = 1 /\ retr'[1].draft = view'.rec.draft
  <2>1. Tidy(view', Unsent(pend))
    BY <1>6, <1>9 DEF Whole, Keeps
  <2>2. view.retracting /\ Len(retr) = 1 /\ retr[1].draft = view.rec.draft
    BY <1>2, <1>9 DEF Whole
  <2>3. view'.retracting => pend = NoPend \/ pend.slash
    BY <1>6, <1>9 DEF Whole
  <2> QED BY <1>4, <1>6, <2>1, <2>2, <2>3
<1> QED BY <1>1, <1>4, <1>5, <1>6, <1>7, <1>8, <1>9, Settled

(* What a retraction that succeeded makes of the view                      *)
Returned(v, d) ==
  LET kept == IF v.draft = Empty THEN v ELSE Stashed(v)
  IN [kept EXCEPT !.rec = NoRec, !.committed = FALSE, !.stopping = FALSE, !.draft = d]

LEMMA ReturnedIs ==
  ASSUME NEW v \in View, NEW d \in Draft
  PROVE  LET x == Returned(v, d)
         IN /\ x \in View /\ x.rec = NoRec /\ x.draft = d /\ x.retracting = v.retracting
            /\ x.streaming = v.streaming /\ ~x.committed
            /\ \A u : Tidy(v, u) /\ d = v.rec.draft => Tidy(x, u)
            /\ \A w \in Nat, s \in SUBSET Files, n \in Nat : Seen(v, w, s, n)
               /\ Within(d, w, s) => Seen(x, w, s, n)
<1> DEFINE e == IF v.draft = Empty THEN v.stash ELSE v.draft
           r == IF v.draft = Empty THEN v.revoked ELSE v.revoked \cup v.stash.files
           x == [v EXCEPT !.rec = NoRec, !.committed = FALSE, !.stopping = FALSE, !.draft = d,
             !.stash = e, !.revoked = r]
<1>1. Returned(v, d) = x
  <2>1. CASE v.draft = Empty
    BY <2>1 DEF Returned, View
  <2>2. CASE v.draft # Empty
    BY <2>2 DEF Returned, Stashed, View
  <2> QED BY <2>1, <2>2
<1>2. e \in Draft /\ r \in SUBSET Files
  BY ViewIs
<1> HIDE DEF e, r
<1>3. x \in View
  BY <1>2, Values DEF View
<1>4. /\ x.rec = NoRec /\ x.draft = d /\ x.stash = e /\ x.revoked = r /\ x.history = v.history
      /\ x.retracting = v.retracting /\ x.streaming = v.streaming /\ ~x.committed
  BY DEF View
<1> HIDE DEF x
<1>5. ASSUME NEW u, Tidy(v, u), d = v.rec.draft
      PROVE  Tidy(x, u)
  <2>1. Apart(x.rec.draft, u) /\ Apart(x.draft, x.rec.draft) /\ Apart(x.stash, x.rec.draft)
    BY <1>4, Values DEF Apart
  <2>2. Apart(x.draft, x.stash) /\ Apart(x.draft, u) /\ Apart(x.stash, u)
    BY <1>4, <1>5 DEF Tidy, Apart, e
  <2>3. Unspent(x.draft, x) /\ Unspent(x.stash, x) /\ Unspent(u, x)
    <3>1. CASE v.draft = Empty
      BY <1>4, <1>5, <3>1 DEF Tidy, Unspent, e, r
    <3>2. CASE v.draft # Empty
      BY <1>4, <1>5, <3>2 DEF Tidy, Unspent, Apart, e, r
    <3> QED BY <3>1, <3>2
  <2>4. Unspent(x.rec.draft, x)
    BY <1>3, <1>4, Values, ViewIs DEF Unspent
  <2> QED BY <2>1, <2>2, <2>3, <2>4 DEF Tidy
<1>6. ASSUME NEW w \in Nat, NEW s \in SUBSET Files, NEW n \in Nat, Seen(v, w, s, n), Within(d, w, s)
      PROVE  Seen(x, w, s, n)
  <2>1. r \subseteq s /\ Within(e, w, s)
    BY <1>6 DEF Seen, Within, e, r
  <2> QED BY <1>4, <1>6, <2>1, EmptyWithin, Values DEF Seen
<1> QED BY <1>1, <1>3, <1>4, <1>5, <1>6

LEMMA EndedIs ==
  ASSUME NEW v \in View
  PROVE  LET x == [v EXCEPT !.retracting = FALSE]
         IN /\ x \in View /\ Alike(v, x) /\ Keeps(v, x) /\ ~x.retracting /\ x.streaming = v.streaming
               /\ x.committed = v.committed
<1> DEFINE x == [v EXCEPT !.retracting = FALSE]
<1>1. x \in View /\ Alike(v, x) /\ ~x.retracting /\ x.streaming = v.streaming /\ x.committed = v.committed
  BY DEF View, Alike
<1>2. Keeps(v, x)
  BY <1>1, AlikeKeeps
<1> QED BY <1>1, <1>2

(* What one that came too late makes of it                                 *)
LEMMA ResumedIs ==
  ASSUME NEW v \in View
  PROVE  \A x \in {Resumed(v), Abort(Resumed(v))} :
           /\ x \in View /\ Keeps(v, x) /\ x.draft = v.draft /\ x.rec = NoRec /\ ~x.retracting
           /\ x.streaming = v.streaming
           /\ x.committed => v.committed \/ v.rec # NoRec
<1> DEFINE y == [v EXCEPT !.retracting = FALSE]
           c == Resumed(v)
<1>1. y \in View /\ Alike(v, y) /\ Keeps(v, y) /\ ~y.retracting /\ y.streaming = v.streaming
        /\ y.committed = v.committed
  BY EndedIs
<1>2. c = Commit(y, TRUE)
  BY DEF Resumed
<1> HIDE DEF y, c
<1>3. /\ c \in View /\ Keeps(y, c) /\ c.draft = y.draft /\ c.rec = NoRec /\ ~c.retracting
         /\ c.streaming = y.streaming
      /\ c.committed = (IF y.rec = NoRec THEN y.committed ELSE TRUE)
  <2>1. TRUE \in BOOLEAN
    OBVIOUS
  <2> QED BY <1>1, <1>2, <2>1, CommitIs, CommitKeeps
<1>4. /\ Keeps(v, c) /\ c.draft = v.draft /\ c.streaming = v.streaming
      /\ c.committed => v.committed \/ v.rec # NoRec
  BY <1>1, <1>3 DEF Keeps, Alike
<1>5. ASSUME NEW x, x = Abort(c)
      PROVE  /\ x \in View /\ Keeps(v, x) /\ x.draft = v.draft /\ x.rec = NoRec /\ ~x.retracting
             /\ x.streaming = v.streaming /\ x.committed = c.committed
  <2>1. x \in View /\ Alike(c, x) /\ x.retracting = c.retracting /\ x.streaming = c.streaming
          /\ x.committed = c.committed
    BY <1>3, <1>5, AbortIs
  <2>2. Keeps(c, x) /\ x.draft = c.draft /\ x.rec = c.rec
    BY <2>1, AlikeKeeps DEF Alike
  <2> QED BY <1>3, <1>4, <2>1, <2>2 DEF Keeps
<1> QED BY <1>3, <1>4, <1>5 DEF c

LEMMA RemainingIs ==
  ASSUME Inv, retr # <<>>, retr' = Remaining
  PROVE  /\ retr' \in Seq(Retraction) /\ Len(retr') = Len(retr) - 1
         /\ \A i \in 1..Len(retr') : Registered(retr'[i])
         /\ Whole => retr' = <<>> /\ Len(retr') = 0
<1>1. retr \in Seq(Retraction) /\ Len(retr) \in Nat \ {0} /\ (Whole => Len(retr) = 1)
  BY Facts DEF Whole
<1>2. ASSUME NEW i \in 1..(Len(retr) - 1)
      PROVE  /\ i + 1 \in 1..Len(retr) /\ retr[i + 1] \in Retraction /\ Registered(retr[i + 1])
             /\ Remaining[i] \in Retraction
             /\ Remaining[i].id = retr[i + 1].id /\ Remaining[i].draft = retr[i + 1].draft
  <2>1. i + 1 \in 1..Len(retr)
    BY <1>1
  <2>2. retr[i + 1] \in Retraction /\ Registered(retr[i + 1])
    BY <2>1, Facts, Retractions
  <2>3. Remaining[i] = retr[i + 1] \/ Remaining[i] = [retr[i + 1] EXCEPT !.result = "retracted"]
    BY <1>2 DEF Remaining
  <2> QED BY <2>1, <2>2, <2>3 DEF Retraction
<1>3. /\ retr' = [i \in 1..(Len(retr) - 1) |-> Remaining[i]]
      /\ Len(retr) - 1 \in Nat
  BY <1>1 DEF Remaining
<1>4. retr' \in [1..(Len(retr) - 1) -> Retraction]
  BY <1>2, <1>3
<1>5. retr' \in Seq(Retraction) /\ Len(retr') = Len(retr) - 1
  BY <1>3, <1>4
<1>6. \A i \in 1..Len(retr') : Registered(retr'[i])
  BY <1>2, <1>5 DEF Registered
<1>7. ASSUME Whole
      PROVE  retr' = <<>> /\ Len(retr') = 0
  <2>1. Len(retr') = 0
    BY <1>1, <1>5, <1>7
  <2> QED BY <1>5, <2>1
<1> QED BY <1>5, <1>6, <1>7

(* The retraction that is answered next is over.                           *)
LEMMA RetractionOver ==
  ASSUME Inv, retr # <<>>, retr' = Remaining, UNCHANGED <<srv, pend, written, stored, sends>>,
         mishaps' \in SUBSET Mishaps, Untangled' => Untangled,
         view' \in View, view'.rec = NoRec, ~view'.retracting, Seen(view', written, stored, sends),
         "late" \notin mishaps' => Busy(view', srv),
         Whole => Tidy(view', Unsent(pend)) /\ (pend.restored => view'.draft = view.draft)
  PROVE  Inv'
<1>1. srv \in Turn /\ Shaped /\ Asked(view, retr) /\ Len(retr) \in Nat
  BY Facts
<1>2. /\ retr' \in Seq(Retraction) /\ Len(retr') = Len(retr) - 1
      /\ \A i \in 1..Len(retr') : Registered(retr'[i])
      /\ Whole => retr' = <<>>
  BY RemainingIs
<1>3. Asked(view', retr')
  BY <1>1, <1>2, Values DEF Asked
<1>4. (srv' = Idle) <=> (srv'.turn = 0)
  BY <1>1 DEF Shaped
<1> QED BY <1>1, <1>2, <1>3, <1>4, Settled

(* It was too late.                                                        *)
LEMMA OutlivedInv ==
  ASSUME Inv, retr # <<>>, retr' = Remaining, UNCHANGED <<srv, pend, written, stored, sends>>,
         Outlived, view' \in {Resumed(view), Abort(Resumed(view))}
  PROVE  Inv'
<1>1. /\ view \in View /\ Seen(view, written, stored, sends) /\ written \in Nat /\ stored \in SUBSET Files
         /\ sends \in Nat /\ Shaped /\ Asked(view, retr) /\ srv \in Turn
  BY Facts
<1>2. /\ view' \in View /\ Keeps(view, view') /\ view'.draft = view.draft /\ view'.rec = NoRec
         /\ ~view'.retracting /\ view'.streaming = view.streaming
      /\ view'.committed => view.committed \/ view.rec # NoRec
  BY <1>1, ResumedIs
<1>3. Seen(view', written, stored, sends)
  BY <1>1, <1>2 DEF Keeps
<1>4. /\ mishaps' \in SUBSET Mishaps /\ (Untangled' => Untangled)
      /\ "late" \notin mishaps' => "late" \notin mishaps /\ (view.rec # NoRec => srv.turn = view.rec.id)
  BY LateIs DEF Outlived
<1>5. "late" \notin mishaps' => Busy(view', srv)
  <2>1. "late" \notin mishaps => Busy(view, srv)
    BY DEF Inv
  <2>2. view.rec # NoRec => view.rec.id # 0
    BY <1>1 DEF Asked
  <2> QED BY <1>1, <1>2, <1>4, <2>1, <2>2, Values DEF Busy, Shaped
<1>6. Whole => Tidy(view', Unsent(pend))
  BY <1>2 DEF Whole, Keeps
<1> QED BY <1>2, <1>3, <1>4, <1>5, <1>6, RetractionOver

LEMMA AnsweredInv ==
  ASSUME Inv, Answered
  PROVE  Inv'
<1> DEFINE r == Head(retr)
           v == [view EXCEPT !.retracting = FALSE]
<1>1. retr # <<>> /\ retr' = Remaining /\ UNCHANGED <<srv, pend, written, stored, sends>>
  BY DEF Answered
<1>2. \/ r.result = "retracted" /\ view' = Returned(v, r.draft) /\ UNCHANGED mishaps
      \/ Outlived /\ view' \in {Resumed(view), Abort(Resumed(view))}
  BY DEF Answered, Returned
<1>3. CASE Outlived /\ view' \in {Resumed(view), Abort(Resumed(view))}
  BY <1>1, <1>3, OutlivedInv
<1>4. CASE r.result = "retracted" /\ view' = Returned(v, r.draft) /\ UNCHANGED mishaps
  <2>1. /\ view \in View /\ Seen(view, written, stored, sends) /\ written \in Nat /\ stored \in SUBSET Files
           /\ sends \in Nat /\ Shaped /\ retr \in Seq(Retraction) /\ Len(retr) \in Nat
    BY Facts
  <2>2. 1 \in 1..Len(retr) /\ r = retr[1]
    BY <1>1, <2>1
  <2>3. r.draft \in Draft /\ Within(r.draft, written, stored)
    BY <2>2, Facts
  <2>4. v \in View /\ Alike(view, v) /\ Keeps(view, v) /\ ~v.retracting /\ v.streaming = view.streaming
    BY <2>1, EndedIs
  <2> HIDE DEF v
  <2>5. /\ view' \in View /\ view'.rec = NoRec /\ view'.draft = r.draft /\ view'.retracting = v.retracting
        /\ view'.streaming = v.streaming /\ ~view'.committed
        /\ \A u : Tidy(v, u) /\ r.draft = v.rec.draft => Tidy(view', u)
        /\ \A w \in Nat, s \in SUBSET Files, n \in Nat : Seen(v, w, s, n)
           /\ Within(r.draft, w, s) => Seen(view', w, s, n)
    BY <1>4, <2>3, <2>4, ReturnedIs
  <2>6. Seen(view', written, stored, sends)
    BY <2>1, <2>3, <2>4, <2>5 DEF Keeps
  <2>7. "late" \notin mishaps' => Busy(view', srv)
    BY <1>4, <2>4, <2>5 DEF Inv, Busy
  <2>8. ASSUME Whole
        PROVE  Tidy(view', Unsent(pend)) /\ ~pend.restored
    <3>1. view.retracting /\ retr[1].draft = view.rec.draft /\ Tidy(view, Unsent(pend))
      BY <1>1, <2>8 DEF Whole
    <3>2. ~pend.restored
      BY <2>1, <2>8, <3>1, Values DEF Whole, Shaped
    <3>3. Tidy(v, Unsent(pend)) /\ r.draft = v.rec.draft
      BY <2>2, <2>4, <3>1 DEF Keeps, Alike
    <3> QED BY <2>5, <3>2, <3>3
  <2> QED BY <1>1, <1>4, <2>4, <2>5, <2>6, <2>7, <2>8, NothingHappens, RetractionOver DEF Grown
<1> QED BY <1>2, <1>3, <1>4

LEMMA RetractionFailsInv ==
  ASSUME Inv, RetractionFails
  PROVE  Inv'
BY OutlivedInv DEF RetractionFails

LEMMA NextInv ==
  ASSUME Inv, [Next]_vars
  PROVE  Inv'
<1> USE DEF Next
<1>1. CASE Type \/ Erase \/ Clear \/ Stash \/ RestoreStash \/ Refresh \/ AbortFails
  BY <1>1, TypeInv, EraseInv, ClearInv, StashInv, RestoreStashInv, RefreshInv, AbortFailsInv
<1>2. CASE Steer \/ CancelSend \/ StopTurn
  BY <1>2, SteerInv, CancelSendInv, StopTurnInv
<1>3. CASE \E f \in Files : Store(f) \/ RemoveFile(f)
  BY <1>3, StoreInv, RemoveFileInv
<1>4. CASE \E slash \in BOOLEAN : Send(slash)
  BY <1>4, SendInv
<1>5. CASE Prepare \/ Take \/ Started \/ Undone \/ SendFails \/ PlanAccepted \/ PlanEnds
  BY <1>5, PrepareInv, TakeInv, StartedInv, UndoneInv, SendFailsInv, PlanAcceptedInv, PlanEndsInv
<1>6. CASE (\E i \in 1..2 : Judge(i)) \/ Answered \/ RetractionFails
  BY <1>6, JudgeInv, AnsweredInv, RetractionFailsInv
<1>7. CASE TurnStreams \/ TurnOutputs \/ TurnEnds
  BY <1>7, TurnStreamsInv, TurnOutputsInv, TurnEndsInv
<1>8. CASE UNCHANGED vars
  <2>1. UNCHANGED <<view, srv, pend, retr, written, stored, sends, mishaps>>
    BY <1>8 DEF vars
  <2>2. Typed' /\ Known' /\ Shaped'
    BY <2>1 DEF Inv, Typed, Known, Shaped, Asked
  <2>3. (Busy(view, srv) => Busy(view, srv)') /\ (Whole => Whole') /\ (Untangled' => Untangled)
    BY <2>1 DEF Busy, Whole, Unsent, Untangled
  <2> QED BY <2>1, <2>2, <2>3 DEF Inv
<1> QED BY <1>1, <1>2, <1>3, <1>4, <1>5, <1>6, <1>7, <1>8

-----------------------------------------------------------------------------
(* What the composer owes its user.                                        *)

(* The inductive invariant holds, whatever goes wrong.                     *)
THEOREM InvAlways == Spec => []Inv
<1>1. Init => Inv
  BY InitInv
<1>2. Inv /\ [Next]_vars => Inv'
  BY NextInv
<1> QED BY <1>1, <1>2, PTL DEF Spec

LEMMA InvTyped ==
  ASSUME Inv
  PROVE  TypeOK
<1>1. /\ view \in View /\ pend \in Pending /\ srv \in Turn /\ pend.draft \in Draft
      /\ written \in Nat /\ written \in 0..MaxTexts /\ stored \in SUBSET Files
         /\ sends \in 0..MaxSends /\ pend.id \in Nat /\ mishaps \in SUBSET Mishaps
      /\ Known /\ Asked(view, retr) /\ Seen(view, written, stored, sends) /\ sends \in Nat
  BY Facts DEF Typed
<1> DEFINE Drafts == [text : 0..MaxTexts, files : SUBSET Files]
<1>2. ASSUME NEW d \in Draft, Within(d, written, stored)
      PROVE  d \in Drafts
  <2>1. d.text \in 0..MaxTexts
    BY <1>1, <1>2, Values DEF Draft, Within
  <2> QED BY <2>1 DEF Draft
<1>3. view.draft \in Drafts /\ view.stash \in Drafts /\ view.rec.draft \in Drafts /\ pend.draft \in Drafts
  BY <1>1, <1>2, ViewIs DEF Seen, Known
<1> HIDE DEF Drafts
<1>4. {view.draft, view.stash, view.rec.draft, pend.draft} \subseteq Drafts
  BY <1>3
<1>5. {view.retracting, view.committed, view.stopping, view.aborting, view.streaming} \subseteq BOOLEAN
  BY <1>1, ViewIs, Zenon
<1>6. view.history \subseteq 1..written /\ view.revoked \subseteq stored /\ stored \subseteq Files
  BY <1>1 DEF Seen
<1>7. {view.marker, srv.turn} \subseteq 0..Steered /\ {view.rec.id, pend.id} \subseteq 0..sends
  BY <1>1, ViewIs DEF Turn, Seen, Known
<1>8. /\ srv.phase \in {"none", "accepted", "streaming", "output"}
      /\ pend.stage \in {"none", "preparing", "asked", "started", "undoing", "planning", "planned"}
  BY <1>1 DEF Turn, Pending
<1>9. Len(retr) <= 2
  BY <1>1 DEF Asked
<1> QED BY <1>1, <1>4, <1>5, <1>6, <1>7, <1>8, <1>9 DEF TypeOK, Drafts

(* Every draft, file, turn and submission the composer, the pending send   *)
(* and the runtime speak of is one that there is.                          *)
THEOREM TypeCorrect == Spec => []TypeOK
<1>1. Inv => TypeOK
  BY InvTyped
<1> QED BY <1>1, InvAlways, PTL

(* Until a retraction is repeated, a prompt is sent while one is in flight *)
(* or what Stop restored is changed, no draft that is shown, stashed,      *)
(* pending or retractable has lost a file's preview.                       *)
THEOREM ConsistentAlways == Spec => []Consistent
<1>1. ASSUME Inv, Untangled
      PROVE  Unrevoked
  <2>1. Whole
    BY <1>1 DEF Inv
  <2>2. /\ view.draft.files \cap view.revoked = {} /\ view.stash.files \cap view.revoked = {}
        /\ view.rec.draft.files \cap view.revoked = {} /\ Unsent(pend).files \cap view.revoked = {}
    BY <2>1 DEF Whole, Tidy, Unspent
  <2>3. Unsent(pend).files = IF pend.slash \/ pend.restored THEN {} ELSE pend.draft.files
    BY Values DEF Unsent
  <2> QED BY <2>2, <2>3 DEF Unrevoked
<1>2. Inv => Consistent
  BY <1>1, InvTyped DEF Consistent
<1> QED BY <1>2, InvAlways, PTL

(* Until then cancelling and retracting lose no text and leave none that   *)
(* was sent to be sent again.                                              *)
THEOREM OnceAlways == Spec => []Once
<1>1. ASSUME Inv, Untangled
      PROVE  NoneTwice
  <2>1. Tidy(view, Unsent(pend))
    BY <1>1 DEF Inv, Whole
  <2>2. view.draft.text \notin view.history /\ view.stash.text \notin view.history
    BY <2>1 DEF Tidy, Unspent
  <2>3. /\ view.draft.text = view.stash.text => view.draft.text = 0
        /\ view.draft.text = view.rec.draft.text => view.draft.text = 0
        /\ view.stash.text = view.rec.draft.text => view.stash.text = 0
    BY <2>1 DEF Tidy, Apart
  <2> QED BY <2>2, <2>3 DEF NoneTwice
<1>2. Inv => Once
  BY <1>1 DEF Once
<1> QED BY <1>2, InvAlways, PTL

(* A runtime without a turn that owes no answer leaves the composer free,  *)
(* unless an answer that came after the turn's end has been taken for a    *)
(* turn that goes on, and the view not yet been told otherwise.            *)
THEOREM FreedAlways == Spec => []Freed
<1>1. ASSUME Inv, "late" \notin mishaps, srv = Idle, pend = NoPend, retr = <<>>
      PROVE  ~TurnActive
  <2>1. Busy(view, srv) /\ Asked(view, retr)
    BY <1>1, Facts DEF Inv
  <2>2. ~view.retracting /\ view.rec = NoRec
    BY <1>1, <2>1, Values DEF Busy, Asked
  <2> QED BY <1>1, <2>1, <2>2 DEF Busy, TurnActive
<1>2. Inv => Freed
  BY <1>1 DEF Freed
<1> QED BY <1>2, InvAlways, PTL

-----------------------------------------------------------------------------
(* The inductive invariant of SessionTransitions: what is in order whatever*)
(* happens, and what a leaf owes that nothing else disturbs.               *)

Paths == Sessions \cup {None}
Sources == {"none", "pending", "disconnected"}
Target == [path : Paths, source : Sources]
Restoration == [path : Paths, source : Sources, mine : BOOLEAN, conn : {"none", "current", "old"},
                at : {"start", "syncing", "resuming", "fallback"}, awaited : SUBSET {"view", "prompt"}]
Operation == [by : {"none", "user", "prompt", "restore", "other"},
              at : {"none", "reaching", "looking", "syncing", "asked", "applied", "settling", "running"}, goal : Paths]
Leaf == [pc : {"none", "restoring", "syncing"}, ok : BOOLEAN, marked : BOOLEAN]
Sending == [pc : {"idle", "connecting", "recovering", "targeting", "awaiting", "ensuring",
                  "creating", "reconciling", "placing", "gathering"}, of : Paths, strayed : BOOLEAN]

Formed ==
  /\ up \in BOOLEAN /\ hydrated \in BOOLEAN /\ remote \in Sessions
  /\ store \in Paths /\ shown \in Paths /\ chosen \in Paths
  /\ target \in Target /\ queue \in Seq(Restoration) /\ op \in Operation /\ leaf \in Leaf /\ prompt \in Sending
  /\ gone \subseteq Stored

At(q, at) == Len(q) > 0 /\ q[1].at = at

Ordered ==
  /\ (target = NoTarget) <=> (target.path = None)
  /\ (op = NoOp) <=> (op.by = "none")
  /\ op.by = "none" <=> op.at = "none"
  /\ op.by = "other" <=> op.at = "running"
  /\ op.by = "prompt" <=> prompt.pc = "creating"
  /\ op.by = "restore" <=> At(queue, "resuming")
  /\ op.by \in {"user", "prompt", "restore"} => op.goal # None
  /\ op.at \in {"looking", "syncing", "asked", "applied"} => up
  /\ op.at = "reaching" => ~up

(* Restorations wait for the head of the queue, and know what they are of; *)
(* the prompt awaits one of them.                                          *)
Mine(q, t) == \A i \in 1..Len(q) : q[i].mine /\ q[i].path # None => t.path = q[i].path

Waiting(q) ==
  /\ \A i \in 1..Len(q) : (i # 1 => q[i].at = "start")
     /\ (q[i].conn = "current" \/ "view" \in q[i].awaited => up)
  /\ At(q, "resuming") => q[1].path = op.goal
  /\ At(q, "resuming") \/ At(q, "fallback") => target # NoTarget
  /\ At(q, "syncing") => q[1].path = None
  /\ At(q, "syncing") \/ At(q, "fallback") => up

Attended(q, p) ==
  /\ \A i \in 1..Len(q) : "prompt" \in q[i].awaited => p.pc \in {"recovering", "reconciling"}
  /\ \A i, j \in 1..Len(q) : "prompt" \in q[i].awaited /\ "prompt" \in q[j].awaited => i = j

Lined == Mine(queue, target) /\ Waiting(queue) /\ Attended(queue, prompt)

Marked ==
  /\ ~up => ~leaf.marked /\ leaf.pc = "none"
  /\ ~hydrated => target.source # "disconnected"
  /\ (leaf.pc = "syncing" /\ leaf.ok) \/ leaf.marked => target.source # "disconnected"

Orderly == Formed /\ Ordered /\ Lined /\ Marked

(* What a prompt and a fresh leaf find.                                    *)
Owing ==
  /\ prompt.pc \in {"ensuring", "reconciling", "placing", "gathering"} => op.by # "user"
  /\ prompt.pc # "idle" => hydrated
  /\ prompt.pc \in {"placing", "gathering"} => target = NoTarget /\ op.by \in {"none", "other"}
  /\ prompt.pc \in {"reconciling", "placing", "gathering"} => shown # None
  /\ prompt.pc = "gathering" => up
  /\ ~hydrated => target = NoTarget /\ chosen = None /\ op.by \in {"none", "other"}
  /\ ~prompt.strayed

(* Without a connection nothing is under way but what the user will be     *)
(* shown, and a session that was shown is owed.                            *)
Down ==
  ~up => /\ op.at \in {"none", "reaching", "running"} \/ (op.by = "user" /\ op.at = "settling")
         /\ target = NoTarget => store = None /\ shown = None /\ chosen = None

(* Where the session is that the leaf owes the user                        *)
Placed ==
  /\ target # NoTarget => chosen = target.path
  /\ up /\ target = NoTarget /\ ~Choosing => store \in {None, remote} /\ chosen \in {None, store}
  /\ shown = None /\ target = NoTarget => chosen = None
  /\ op.by = "prompt" /\ op.at # "settling" /\ target = NoTarget => chosen \in Elsewhere \cup {None, op.goal}
  /\ op.by \in {"user", "prompt"} /\ op.at # "settling" /\ target = NoTarget /\ shown = op.goal =>
       store = op.goal \/ chosen = None
  /\ Choosing /\ target = NoTarget /\ (store # op.goal \/ shown = store) => chosen \in {None, store}
  /\ op.at = "applied" => remote = op.goal
  /\ op.by = "restore" => op.at # "looking" /\ (op.at = "settling" => remote = op.goal /\ store = op.goal)
  /\ store = None => shown = None

Steady == Owing /\ Down /\ Placed


-----------------------------------------------------------------------------
(* Values, and what the helpers do to them.                                *)

LEMMA Worlds ==
  /\ None \notin Sessions /\ Boot \in Sessions /\ New \in Sessions /\ Stored \subseteq Sessions
     /\ Sessions \subseteq Paths
  /\ None \in Paths
  /\ NoTarget \in Target /\ NoTarget.path = None /\ NoTarget.source = "none"
  /\ NoOp \in Operation /\ NoOp.by = "none" /\ NoOp.at = "none" /\ NoOp.goal = None
<1>1. /\ None \notin Sessions /\ Boot \in Sessions /\ New \in Sessions /\ Stored \subseteq Sessions
         /\ Sessions \subseteq Paths
      /\ None \in Paths
  BY SessionAssumption DEF Sessions, Paths
<1>2. NoTarget \in Target /\ NoTarget.path = None /\ NoTarget.source = "none"
  BY <1>1 DEF NoTarget, Target, Sources
<1>3. NoOp \in Operation /\ NoOp.by = "none" /\ NoOp.at = "none" /\ NoOp.goal = None
  BY <1>1 DEF NoOp, Operation
<1> QED BY <1>1, <1>2, <1>3

LEMMA RestorationIs ==
  ASSUME NEW r \in Restoration
  PROVE  /\ r.path \in Paths /\ r.source \in Sources /\ r.mine \in BOOLEAN
            /\ r.conn \in {"none", "current", "old"}
         /\ r.at \in {"start", "syncing", "resuming", "fallback"} /\ r.awaited \subseteq {"view", "prompt"}
BY DEF Restoration

LEMMA LeafFacts ==
  ASSUME Orderly
  PROVE  /\ up \in BOOLEAN /\ hydrated \in BOOLEAN /\ remote \in Sessions
         /\ store \in Paths /\ shown \in Paths /\ chosen \in Paths
         /\ target \in Target /\ queue \in Seq(Restoration) /\ op \in Operation /\ leaf \in Leaf
            /\ prompt \in Sending
         /\ Len(queue) \in Nat /\ \A i \in 1..Len(queue) : queue[i] \in Restoration
         /\ Formed /\ Ordered /\ Lined /\ Marked
         /\ target.path \in Paths /\ op.by \in {"none", "user", "prompt", "restore", "other"}
            /\ op.goal \in Paths
BY DEF Orderly, Formed, Target, Operation

(* y is x, but perhaps for whose it is.                                    *)
Likeness(x, y) ==
  y.path = x.path /\ y.source = x.source /\ y.conn = x.conn /\ y.at = x.at /\ y.awaited = x.awaited

LEMMA DisownedIs ==
  ASSUME NEW q \in Seq(Restoration)
  PROVE  /\ Disowned(q) \in Seq(Restoration) /\ Len(Disowned(q)) = Len(q)
         /\ \A i \in 1..Len(q) : Likeness(q[i], Disowned(q)[i]) /\ ~Disowned(q)[i].mine
<1>1. ASSUME NEW i \in 1..Len(q)
      PROVE  /\ [q[i] EXCEPT !.mine = FALSE] \in Restoration
             /\ Likeness(q[i], [q[i] EXCEPT !.mine = FALSE]) /\ ~[q[i] EXCEPT !.mine = FALSE].mine
  <2>1. q[i] \in Restoration
    OBVIOUS
  <2> QED BY <2>1 DEF Restoration, Likeness
<1>2. Disowned(q) = [i \in 1..Len(q) |-> [q[i] EXCEPT !.mine = FALSE]]
  BY DEF Disowned
<1>3. Disowned(q) \in Seq(Restoration) /\ Len(Disowned(q)) = Len(q)
  BY <1>1, <1>2
<1> QED BY <1>1, <1>2, <1>3

(* The queue without its head                                              *)
Rest(q, x) ==
  /\ Len(x) = Len(q) - 1
  /\ \A i \in 1..Len(x) : i + 1 \in 1..Len(q) /\ Likeness(q[i + 1], x[i]) /\ (x[i].mine => q[i + 1].mine)

LEMMA RestIs ==
  ASSUME NEW q \in Seq(Restoration), q # <<>>
  PROVE  /\ Tail(q) \in Seq(Restoration) /\ Rest(q, Tail(q))
         /\ Tail(Disowned(q)) \in Seq(Restoration) /\ Rest(q, Tail(Disowned(q)))
         /\ \A i \in 1..Len(Tail(Disowned(q))) : ~Tail(Disowned(q))[i].mine
<1>1. Len(q) \in Nat /\ Len(q) > 0
  OBVIOUS
<1>2. Tail(q) \in Seq(Restoration) /\ Rest(q, Tail(q))
  BY <1>1 DEF Rest, Likeness
<1>3. /\ Disowned(q) \in Seq(Restoration) /\ Len(Disowned(q)) = Len(q) /\ Disowned(q) # <<>>
      /\ \A i \in 1..Len(q) : Likeness(q[i], Disowned(q)[i]) /\ ~Disowned(q)[i].mine
  BY <1>1, DisownedIs
<1> DEFINE d == Disowned(q)
<1> HIDE DEF d
<1>4. /\ Tail(d) \in Seq(Restoration) /\ Len(Tail(d)) = Len(q) - 1
      /\ \A i \in 1..Len(Tail(d)) : i + 1 \in 1..Len(q) /\ Tail(d)[i] = d[i + 1]
  BY <1>1, <1>3 DEF d
<1>5. Rest(q, Tail(d)) /\ \A i \in 1..Len(Tail(d)) : ~Tail(d)[i].mine
  BY <1>3, <1>4 DEF Rest, d
<1> QED BY <1>2, <1>4, <1>5 DEF d

LEMMA OverIs ==
  ASSUME NEW p \in Sending
  PROVE  Over(p) \in Sending /\ Over(p).pc = "idle" /\ Over(p).strayed = p.strayed
BY Worlds DEF Over, Sending

LEMMA GatherIs ==
  ASSUME NEW p \in Sending, NEW s \in Paths
  PROVE  /\ Gather(p, s) \in Sending /\ Gather(p, s).strayed = p.strayed
         /\ Gather(p, s).pc = (IF up THEN "gathering" ELSE "idle")
<1>1. CASE up
  BY <1>1 DEF Gather, Sending
<1>2. CASE ~up
  BY <1>2, OverIs DEF Gather
<1> QED BY <1>1, <1>2

LEMMA PcIs ==
  ASSUME NEW p \in Sending,
         NEW g \in {"idle", "connecting", "recovering", "targeting", "awaiting", "ensuring",
           "creating", "reconciling", "placing", "gathering"}
  PROVE  [p EXCEPT !.pc = g] \in Sending /\ [p EXCEPT !.pc = g].pc = g
         /\ [p EXCEPT !.pc = g].strayed = p.strayed
BY DEF Sending

(* What the end of a restoration is to the prompt and the leaf             *)
LEMMA SettleIs ==
  ASSUME NEW p \in Sending, NEW ok \in BOOLEAN, leaf \in Leaf, queue \in Seq(Restoration),
         queue # <<>>, NEW q, q = queue \/ q = Disowned(queue), Settle(p, q, ok)
  PROVE  /\ queue' = Tail(q) /\ prompt' \in Sending /\ prompt'.strayed = p.strayed /\ leaf' \in Leaf
         /\ leaf'.marked = leaf.marked
         /\ leaf' = leaf \/ ("view" \in queue[1].awaited /\ leaf'.pc = "syncing" /\ leaf'.ok = ok)
         /\ "prompt" \notin queue[1].awaited => prompt' = p
         /\ "prompt" \in queue[1].awaited =>
              /\ prompt'.pc \in {"idle", "targeting", "placing"}
              /\ prompt'.pc = "placing" => ok /\ p.pc # "recovering"
<1>1. Head(q).awaited = queue[1].awaited
  <2>1. CASE q = queue
    BY <2>1
  <2>2. CASE q = Disowned(queue)
    <3>1. 1 \in 1..Len(queue)
      OBVIOUS
    <3>2. Disowned(queue)[1].awaited = queue[1].awaited /\ Disowned(queue) \in Seq(Restoration)
            /\ Len(Disowned(queue)) = Len(queue)
      BY <3>1, DisownedIs DEF Likeness
    <3> QED BY <2>2, <3>1, <3>2
  <2> QED BY <2>1, <2>2
<1>2. /\ queue' = Tail(q)
      /\ prompt' = IF "prompt" \notin queue[1].awaited THEN p
                   ELSE IF ~ok THEN Over(p)
                   ELSE [p EXCEPT !.pc = IF @ = "recovering" THEN "targeting" ELSE "placing"]
      /\ leaf' = IF "view" \in queue[1].awaited THEN [leaf EXCEPT !.pc = "syncing", !.ok = ok] ELSE leaf
  BY <1>1 DEF Settle
<1>3. /\ leaf' \in Leaf /\ leaf'.marked = leaf.marked
      /\ leaf' = leaf \/ ("view" \in queue[1].awaited /\ leaf'.pc = "syncing" /\ leaf'.ok = ok)
  BY <1>2 DEF Leaf
<1>4. CASE "prompt" \notin queue[1].awaited
  BY <1>2, <1>3, <1>4
<1>5. CASE "prompt" \in queue[1].awaited
  <2>1. CASE ~ok
    BY <1>2, <1>3, <1>5, <2>1, OverIs
  <2>2. CASE ok /\ p.pc = "recovering"
    <3> DEFINE y == [p EXCEPT !.pc = "targeting"]
    <3>1. prompt' = y
      BY <1>2, <1>5, <2>2
    <3>2. y \in Sending /\ y.pc = "targeting" /\ y.strayed = p.strayed
      BY PcIs
    <3> HIDE DEF y
    <3> QED BY <1>2, <1>3, <1>5, <3>1, <3>2
  <2>3. CASE ok /\ p.pc # "recovering"
    <3> DEFINE y == [p EXCEPT !.pc = "placing"]
    <3>1. prompt' = y
      BY <1>2, <1>5, <2>3
    <3>2. y \in Sending /\ y.pc = "placing" /\ y.strayed = p.strayed
      BY PcIs
    <3> HIDE DEF y
    <3> QED BY <1>2, <1>3, <1>5, <2>3, <3>1, <3>2
  <2> QED BY <2>1, <2>2, <2>3
<1> QED BY <1>4, <1>5

(* The head of the queue ends, with p what becomes of the prompt           *)
Ends(p) == FinishRestore(p) \/ (UNCHANGED target /\ Settle(p, queue, FALSE))

LEMMA EndsBy ==
  ASSUME Orderly, queue # <<>>, NEW p \in Sending, NEW q, NEW ok \in BOOLEAN,
         Settle(p, q, ok), UNCHANGED up,
         q = queue \/ (q = Disowned(queue) /\ target' = NoTarget /\ Current(queue[1])),
         q = queue => target' = target,
         ok => target' = NoTarget,
         prompt.pc \in {"recovering", "reconciling"} => p = prompt
  PROVE  /\ queue' \in Seq(Restoration) /\ Lined' /\ ~At(queue, "resuming")'
         /\ target' = target \/ (target' = NoTarget /\ Current(queue[1]))
         /\ prompt' \in Sending /\ prompt'.strayed = p.strayed
         /\ leaf' \in Leaf /\ leaf'.marked = leaf.marked
         /\ leaf' = leaf \/ (up /\ leaf'.pc = "syncing" /\ (leaf'.ok => target' = NoTarget))
         /\ \/ prompt' = p
            \/ /\ prompt.pc \in {"recovering", "reconciling"} /\ p = prompt
               /\ prompt'.pc \in {"idle", "targeting", "placing"}
               /\ prompt'.pc = "placing" => target' = NoTarget /\ prompt.pc = "reconciling"
<1>1. /\ queue \in Seq(Restoration) /\ leaf \in Leaf /\ Lined /\ target \in Target /\ Ordered
         /\ Len(queue) \in Nat /\ Len(queue) > 0
      /\ \A i \in 1..Len(queue) : queue[i] \in Restoration
  BY LeafFacts
<1>3. /\ queue' = Tail(q) /\ prompt' \in Sending /\ prompt'.strayed = p.strayed /\ leaf' \in Leaf
      /\ leaf'.marked = leaf.marked
      /\ leaf' = leaf \/ ("view" \in queue[1].awaited /\ leaf'.pc = "syncing" /\ leaf'.ok = ok)
      /\ "prompt" \notin queue[1].awaited => prompt' = p
      /\ "prompt" \in queue[1].awaited =>
           /\ prompt'.pc \in {"idle", "targeting", "placing"}
           /\ prompt'.pc = "placing" => ok /\ p.pc # "recovering"
  BY <1>1, SettleIs
<1>4. /\ queue' \in Seq(Restoration) /\ Rest(queue, queue')
      /\ q # queue => \A i \in 1..Len(queue') : ~queue'[i].mine
  BY <1>1, <1>3, RestIs
<1>5. "view" \in queue[1].awaited => up
  BY <1>1 DEF Lined, Waiting
<1>6. "prompt" \in queue[1].awaited => prompt.pc \in {"recovering", "reconciling"} /\ p = prompt
  BY <1>1 DEF Lined, Attended
<1>7. Mine(queue', target')
  BY <1>1, <1>4 DEF Lined, Mine, Rest, Likeness
<1>8. \A i \in 1..Len(queue') : queue'[i].at = "start"
        /\ (queue'[i].conn = "current" \/ "view" \in queue'[i].awaited => up)
  <2>1. ASSUME NEW i \in 1..Len(queue')
        PROVE  queue'[i].at = "start" /\ (queue'[i].conn = "current" \/ "view" \in queue'[i].awaited => up)
    <3>1. i + 1 \in 1..Len(queue) /\ i + 1 # 1 /\ Likeness(queue[i + 1], queue'[i])
      BY <1>4 DEF Rest
    <3>2. queue[i + 1].at = "start" /\ (queue[i + 1].conn = "current" \/ "view" \in queue[i + 1].awaited => up)
      BY <1>1, <3>1 DEF Lined, Waiting
    <3> QED BY <3>1, <3>2 DEF Likeness
  <2> QED BY <2>1
<1>9. ~At(queue', "resuming") /\ ~At(queue', "syncing") /\ ~At(queue', "fallback")
  <2>1. Len(queue') > 0 => 1 \in 1..Len(queue')
    BY <1>4
  <2> QED BY <1>8, <2>1 DEF At
<1>10. Waiting(queue)'
  BY <1>8, <1>9 DEF Waiting, At
<1>11. Attended(queue', prompt')
  <2>1. ASSUME NEW i \in 1..Len(queue'), "prompt" \in queue'[i].awaited
        PROVE  /\ i + 1 \in 1..Len(queue) /\ i + 1 # 1 /\ "prompt" \in queue[i + 1].awaited
               /\ prompt' = prompt /\ prompt.pc \in {"recovering", "reconciling"}
    <3>1. i + 1 \in 1..Len(queue) /\ i + 1 # 1 /\ "prompt" \in queue[i + 1].awaited
      BY <1>4, <2>1 DEF Rest, Likeness
    <3>2. prompt.pc \in {"recovering", "reconciling"} /\ "prompt" \notin queue[1].awaited
      BY <1>1, <3>1 DEF Lined, Attended
    <3> QED BY <1>3, <3>1, <3>2
  <2>2. ASSUME NEW i \in 1..Len(queue'), NEW j \in 1..Len(queue'), "prompt" \in queue'[i].awaited,
               "prompt" \in queue'[j].awaited
        PROVE  i = j
    <3>1. i + 1 = j + 1
      BY <1>1, <2>1, <2>2 DEF Lined, Attended
    <3> QED BY <2>2, <3>1
  <2> QED BY <2>1, <2>2 DEF Attended
<1>12. Lined'
  BY <1>7, <1>10, <1>11 DEF Lined
<1>13. /\ \/ prompt' = p
          \/ /\ prompt.pc \in {"recovering", "reconciling"} /\ p = prompt
             /\ prompt'.pc \in {"idle", "targeting", "placing"}
             /\ prompt'.pc = "placing" => target' = NoTarget /\ prompt.pc = "reconciling"
  BY <1>3, <1>6
<1>14. target' = target \/ (target' = NoTarget /\ Current(queue[1]))
  OBVIOUS
<1>15. leaf' = leaf \/ (up /\ leaf'.pc = "syncing" /\ (leaf'.ok => target' = NoTarget))
  BY <1>3, <1>5
<1>16. ~At(queue, "resuming")'
  BY <1>9 DEF At
<1> QED BY <1>3, <1>4, <1>12, <1>13, <1>14, <1>15, <1>16

LEMMA EndsIs ==
  ASSUME Orderly, queue # <<>>, NEW p \in Sending, Ends(p), UNCHANGED up,
         prompt.pc \in {"recovering", "reconciling"} => p = prompt
  PROVE  /\ queue' \in Seq(Restoration) /\ Lined' /\ ~At(queue, "resuming")'
         /\ target' = target \/ (target' = NoTarget /\ Current(queue[1]))
         /\ prompt' \in Sending /\ prompt'.strayed = p.strayed
         /\ leaf' \in Leaf /\ leaf'.marked = leaf.marked
         /\ leaf' = leaf \/ (up /\ leaf'.pc = "syncing" /\ (leaf'.ok => target' = NoTarget))
         /\ \/ prompt' = p
            \/ /\ prompt.pc \in {"recovering", "reconciling"} /\ p = prompt
               /\ prompt'.pc \in {"idle", "targeting", "placing"}
               /\ prompt'.pc = "placing" => target' = NoTarget /\ prompt.pc = "reconciling"
<1>1. queue \in Seq(Restoration) /\ Len(queue) \in Nat /\ Len(queue) > 0 /\ Head(queue) = queue[1]
  BY LeafFacts
<1>2. CASE FinishRestore(p) /\ Current(Head(queue))
  <2>1. target' = NoTarget /\ Settle(p, Disowned(queue), TRUE) /\ Current(queue[1])
    BY <1>1, <1>2 DEF FinishRestore, Current, Same
  <2>2. Disowned(queue) = queue => target' = target
    <3>1. ASSUME Disowned(queue) = queue
          PROVE  target = NoTarget
      <4>1. ~queue[1].mine
        <5>1. 1 \in 1..Len(queue)
          BY <1>1
        <5> QED BY <1>1, <3>1, <5>1, DisownedIs
      <4> QED BY <2>1, <4>1 DEF Current, Same
    <3> QED BY <2>1, <3>1
  <2> QED BY <2>1, <2>2, EndsBy
<1>3. CASE FinishRestore(p) /\ ~Current(Head(queue))
  <2>1. target' = target /\ Settle(p, queue, FALSE)
    BY <1>3 DEF FinishRestore
  <2> QED BY <2>1, EndsBy
<1>4. CASE UNCHANGED target /\ Settle(p, queue, FALSE)
  BY <1>4, EndsBy, Worlds
<1> QED BY <1>2, <1>3, <1>4 DEF Ends

LEMMA ToldIs ==
  ASSUME Orderly, NEW ok \in BOOLEAN
  PROVE  /\ Told(ok) \in Sending /\ Told(ok).strayed = prompt.strayed
         /\ prompt.pc \in {"recovering", "reconciling"} => Told(ok) = prompt
         /\ Told(ok).pc # "creating"
         /\ \/ Told(ok) = prompt /\ op.by # "prompt"
            \/ Told(ok).pc = "idle"
            \/ ok /\ prompt.pc = "awaiting" /\ Told(ok).pc = "ensuring"
            \/ ok /\ op.by = "prompt" /\ prompt.pc = "creating" /\ up /\ store # None /\ Told(ok).pc = "gathering"
<1>1. prompt \in Sending /\ store \in Paths /\ (op.by = "prompt" <=> prompt.pc = "creating")
  BY LeafFacts DEF Ordered
<1>2. CASE prompt.pc = "awaiting" /\ op.by # "other"
  <2>1. Told(ok) = [prompt EXCEPT !.pc = IF ok THEN "ensuring" ELSE "idle"]
    BY <1>2 DEF Told
  <2>2. CASE ok
    <3> DEFINE y == [prompt EXCEPT !.pc = "ensuring"]
    <3>1. Told(ok) = y
      BY <2>1, <2>2
    <3>2. y \in Sending /\ y.pc = "ensuring" /\ y.strayed = prompt.strayed
      BY <1>1, PcIs
    <3> HIDE DEF y
    <3> QED BY <1>2, <2>2, <3>1, <3>2
  <2>3. CASE ~ok
    <3> DEFINE y == [prompt EXCEPT !.pc = "idle"]
    <3>1. Told(ok) = y
      BY <2>1, <2>3
    <3>2. y \in Sending /\ y.pc = "idle" /\ y.strayed = prompt.strayed
      BY <1>1, PcIs
    <3> HIDE DEF y
    <3> QED BY <1>2, <3>1, <3>2
  <2> QED BY <2>2, <2>3
<1>3. CASE ~(prompt.pc = "awaiting" /\ op.by # "other") /\ op.by = "prompt"
  <2>1. Told(ok) = IF ok /\ store # None THEN Gather(prompt, store) ELSE Over(prompt)
    BY <1>3 DEF Told
  <2>2. CASE ok /\ store # None
    BY <1>1, <1>3, <2>1, <2>2, GatherIs
  <2>3. CASE ~ok \/ store = None
    BY <1>1, <1>3, <2>1, <2>3, OverIs
  <2> QED BY <2>2, <2>3
<1>4. CASE ~(prompt.pc = "awaiting" /\ op.by # "other") /\ op.by # "prompt"
  BY <1>1, <1>4 DEF Told
<1> QED BY <1>2, <1>3, <1>4

(* The head of the queue goes on.                                          *)
LEMMA HeadAtIs ==
  ASSUME NEW q \in Seq(Restoration), q # <<>>, NEW a \in {"start", "syncing", "resuming", "fallback"},
         NEW x, x = [q EXCEPT ![1].at = a]
  PROVE  /\ x \in Seq(Restoration) /\ Len(x) = Len(q) /\ x[1].at = a /\ x[1].path = q[1].path
            /\ x[1].source = q[1].source
         /\ x[1].conn = q[1].conn /\ x[1].mine = q[1].mine /\ x[1].awaited = q[1].awaited
         /\ \A i \in 1..Len(q) : i # 1 => x[i] = q[i]
<1> DEFINE r == [q[1] EXCEPT !.at = a]
<1>1. Len(q) \in Nat /\ Len(q) > 0 /\ q[1] \in Restoration
  OBVIOUS
<1>2. r \in Restoration /\ r.at = a /\ r.path = q[1].path /\ r.source = q[1].source
        /\ r.conn = q[1].conn /\ r.mine = q[1].mine /\ r.awaited = q[1].awaited
  BY <1>1 DEF Restoration
<1> HIDE DEF r
<1>3. x = [q EXCEPT ![1] = r]
  BY DEF r
<1>4. x \in Seq(Restoration) /\ Len(x) = Len(q) /\ x[1] = r /\ \A i \in 1..Len(q) : i # 1 => x[i] = q[i]
  BY <1>1, <1>2, <1>3
<1> QED BY <1>2, <1>4

LEMMA HeadMoves ==
  ASSUME Orderly, queue # <<>>, NEW a \in {"syncing", "resuming", "fallback"},
         queue' = [queue EXCEPT ![1].at = a],
         UNCHANGED <<up, target>>,
         a = "resuming" => op'.goal = queue[1].path,
         a \in {"resuming", "fallback"} => target # NoTarget,
         a = "syncing" => queue[1].path = None,
         a \in {"syncing", "fallback"} => up,
         prompt.pc \in {"recovering", "reconciling"} => prompt' = prompt
  PROVE  queue' \in Seq(Restoration) /\ Lined' /\ (At(queue, "resuming")' <=> a = "resuming")
<1>1. queue \in Seq(Restoration) /\ Lined /\ Len(queue) \in Nat /\ Len(queue) > 0
  BY LeafFacts
<1>2. /\ queue' \in Seq(Restoration) /\ Len(queue') = Len(queue) /\ queue'[1].at = a
         /\ queue'[1].path = queue[1].path
      /\ queue'[1].conn = queue[1].conn /\ queue'[1].mine = queue[1].mine
         /\ queue'[1].awaited = queue[1].awaited
      /\ \A i \in 1..Len(queue) : i # 1 => queue'[i] = queue[i]
  BY <1>1, HeadAtIs
<1>3. Mine(queue', target')
  BY <1>1, <1>2 DEF Lined, Mine
<1>4. \A i \in 1..Len(queue') : (i # 1 => queue'[i].at = "start")
        /\ (queue'[i].conn = "current" \/ "view" \in queue'[i].awaited => up)
  BY <1>1, <1>2 DEF Lined, Waiting
<1>5. Waiting(queue)'
  BY <1>2, <1>4 DEF Waiting, At
<1>6. Attended(queue', prompt')
  BY <1>1, <1>2 DEF Lined, Attended
<1>7. At(queue, "resuming")' <=> a = "resuming"
  BY <1>1, <1>2 DEF At
<1> QED BY <1>2, <1>3, <1>5, <1>6, <1>7 DEF Lined

(* Nothing that concerns the queue happens.                                *)
LEMMA QueueStays ==
  ASSUME Orderly, UNCHANGED <<queue, target>>, up => up',
         At(queue, "resuming") => op'.goal = op.goal,
         prompt.pc \in {"recovering", "reconciling"} => prompt'.pc \in {"recovering", "reconciling"}
  PROVE  Lined' /\ (At(queue, "resuming")' <=> At(queue, "resuming"))
<1>1. Lined /\ Mine(queue, target) /\ Waiting(queue) /\ Attended(queue, prompt)
  BY LeafFacts DEF Lined
<1>2. Mine(queue, target)'
  BY <1>1 DEF Mine
<1>3. \A i \in 1..Len(queue) : (i # 1 => queue[i].at = "start")
        /\ (queue[i].conn = "current" \/ "view" \in queue[i].awaited => up')
  BY <1>1 DEF Waiting
<1>4. Waiting(queue)'
  BY <1>1, <1>3 DEF Waiting, At
<1>5. Attended(queue, prompt)'
  BY <1>1 DEF Attended
<1> QED BY <1>2, <1>4, <1>5 DEF Lined, At

(* Somebody awaits the last restoration, or a new one.                     *)
Joined(who) == [queue EXCEPT ![Len(queue)].awaited = @ \cup who]
Begun(conn, who) ==
  Append(queue, [path |-> target.path, source |-> target.source, mine |-> TRUE,
                 conn |-> conn, at |-> "start", awaited |-> who])

LEMMA PutIs ==
  ASSUME NEW q \in Seq(Restoration), NEW n \in 1..Len(q), NEW r \in Restoration
  PROVE  LET x == [q EXCEPT ![n] = r]
         IN x \in Seq(Restoration) /\ Len(x) = Len(q) /\ \A i \in 1..Len(q) : x[i] = IF i = n THEN r ELSE q[i]
<1> DEFINE x == [q EXCEPT ![n] = r]
<1>1. DOMAIN q = 1..Len(q) /\ q \in [1..Len(q) -> Restoration] /\ Len(q) \in Nat
  OBVIOUS
<1>2. x \in [1..Len(q) -> Restoration] /\ \A i \in 1..Len(q) : x[i] = IF i = n THEN r ELSE q[i]
  BY <1>1
<1> HIDE DEF x
<1>3. x \in Seq(Restoration) /\ Len(x) = Len(q)
  BY <1>1, <1>2
<1> QED BY <1>2, <1>3

LEMMA JoinedIs ==
  ASSUME queue \in Seq(Restoration), queue # <<>>, NEW who \in SUBSET {"view", "prompt"}
  PROVE  /\ Joined(who) \in Seq(Restoration) /\ Len(Joined(who)) = Len(queue)
         /\ \A i \in 1..Len(queue) :
              /\ Joined(who)[i].path = queue[i].path /\ Joined(who)[i].source = queue[i].source
              /\ Joined(who)[i].mine = queue[i].mine /\ Joined(who)[i].conn = queue[i].conn
              /\ Joined(who)[i].at = queue[i].at
              /\ Joined(who)[i].awaited = (IF i = Len(queue) THEN queue[i].awaited \cup who ELSE queue[i].awaited)
<1> DEFINE n == Len(queue)
<1>1. n \in 1..Len(queue) /\ Joined(who) = [queue EXCEPT ![n].awaited = @ \cup who]
  BY DEF Joined
<1> HIDE DEF n
<1> DEFINE w == queue[n].awaited \cup who
           r == [queue[n] EXCEPT !.awaited = w]
           x == [queue EXCEPT ![n] = r]
<1>2. queue[n] \in Restoration
  BY <1>1
<1>3. w \in SUBSET {"view", "prompt"}
  BY <1>2, RestorationIs
<1>4. Joined(who) = x
  BY <1>1
<1> HIDE DEF w
<1>5. /\ r \in Restoration /\ r.path = queue[n].path /\ r.source = queue[n].source /\ r.mine = queue[n].mine
      /\ r.conn = queue[n].conn /\ r.at = queue[n].at /\ r.awaited = w
  BY <1>2, <1>3 DEF Restoration
<1> HIDE DEF r
<1>6. x \in Seq(Restoration) /\ Len(x) = Len(queue)
        /\ \A i \in 1..Len(queue) : x[i] = IF i = n THEN r ELSE queue[i]
  BY <1>1, <1>5, PutIs
<1> HIDE DEF x
<1>7. ASSUME NEW i \in 1..Len(queue)
      PROVE  /\ x[i].path = queue[i].path /\ x[i].source = queue[i].source /\ x[i].mine = queue[i].mine
             /\ x[i].conn = queue[i].conn /\ x[i].at = queue[i].at
             /\ x[i].awaited = IF i = n THEN queue[i].awaited \cup who ELSE queue[i].awaited
  <2>1. CASE i = n
    BY <1>5, <1>6, <2>1 DEF w
  <2>2. CASE i # n
    BY <1>6, <1>7, <2>2
  <2> QED BY <2>1, <2>2
<1> QED BY <1>4, <1>6, <1>7 DEF n

LEMMA QueueGrows ==
  ASSUME Orderly, NEW who \in SUBSET {"view", "prompt"}, NEW conn \in {"none", "current"},
         (queue # <<>> /\ queue' = Joined(who)) \/ queue' = Begun(conn, who),
         UNCHANGED target, up => up', conn = "current" \/ "view" \in who => up',
         At(queue, "resuming") => op'.goal = op.goal,
         "prompt" \in who => prompt.pc \notin {"recovering", "reconciling"}
           /\ prompt'.pc \in {"recovering", "reconciling"},
         "prompt" \notin who => prompt' = prompt
  PROVE  queue' \in Seq(Restoration) /\ Lined' /\ (At(queue, "resuming")' <=> At(queue, "resuming"))
<1>1. /\ queue \in Seq(Restoration) /\ Mine(queue, target) /\ Waiting(queue)
         /\ Attended(queue, prompt) /\ Len(queue) \in Nat
      /\ target \in Target /\ target.path \in Paths
  BY LeafFacts DEF Lined
<1>2. \A i \in 1..Len(queue) : (i # 1 => queue[i].at = "start")
        /\ (queue[i].conn = "current" \/ "view" \in queue[i].awaited => up')
  BY <1>1 DEF Waiting
<1>3. "prompt" \in who => \A i \in 1..Len(queue) : "prompt" \notin queue[i].awaited
  BY <1>1 DEF Attended
<1>4. CASE queue # <<>> /\ queue' = Joined(who)
  <2>1. /\ queue' \in Seq(Restoration) /\ Len(queue') = Len(queue)
        /\ \A i \in 1..Len(queue) : /\ queue'[i].path = queue[i].path /\ queue'[i].mine = queue[i].mine
                                    /\ queue'[i].conn = queue[i].conn /\ queue'[i].at = queue[i].at
                                    /\ queue'[i].awaited = (IF i = Len(queue) THEN queue[i].awaited \cup who ELSE queue[i].awaited)
    BY <1>1, <1>4, JoinedIs
  <2>2. Mine(queue', target')
    BY <1>1, <2>1 DEF Mine
  <2>3. \A i \in 1..Len(queue') : (i # 1 => queue'[i].at = "start")
          /\ (queue'[i].conn = "current" \/ "view" \in queue'[i].awaited => up')
    <3>1. ASSUME NEW i \in 1..Len(queue')
          PROVE  (i # 1 => queue'[i].at = "start")
                 /\ (queue'[i].conn = "current" \/ "view" \in queue'[i].awaited => up')
      <4>1. /\ i \in 1..Len(queue) /\ queue'[i].at = queue[i].at /\ queue'[i].conn = queue[i].conn
            /\ queue'[i].awaited = queue[i].awaited \cup who \/ queue'[i].awaited = queue[i].awaited
        BY <2>1, <3>1
      <4>2. (i # 1 => queue[i].at = "start")
              /\ (queue[i].conn = "current" \/ "view" \in queue[i].awaited => up')
        BY <1>2, <4>1
      <4>3. "view" \in queue'[i].awaited => "view" \in queue[i].awaited \/ "view" \in who
        BY <4>1
      <4> QED BY <4>1, <4>2, <4>3
    <3> QED BY <3>1
  <2>0. 1 \in 1..Len(queue) /\ Len(queue) > 0
    BY <1>1, <1>4
  <2>4. \A at : At(queue', at) <=> At(queue, at)
    BY <2>0, <2>1 DEF At
  <2>5. At(queue, "resuming") \/ At(queue, "syncing") => queue'[1].path = queue[1].path
    BY <2>0, <2>1 DEF At
  <2>6. Waiting(queue)'
    BY <1>1, <2>3, <2>4, <2>5 DEF Waiting, At
  <2>7. \A i \in 1..Len(queue') : "prompt" \in queue'[i].awaited => prompt'.pc \in {"recovering", "reconciling"}
    BY <1>1, <2>1 DEF Attended
  <2>8. \A i, j \in 1..Len(queue') : "prompt" \in queue'[i].awaited /\ "prompt" \in queue'[j].awaited => i = j
    <3>1. CASE "prompt" \in who
      <4>1. \A i \in 1..Len(queue') : "prompt" \in queue'[i].awaited => i = Len(queue)
        BY <1>3, <2>1, <3>1
      <4> QED BY <4>1
    <3>2. CASE "prompt" \notin who
      <4>1. \A i \in 1..Len(queue') : i \in 1..Len(queue)
              /\ ("prompt" \in queue'[i].awaited => "prompt" \in queue[i].awaited)
        BY <2>1, <3>2
      <4> QED BY <1>1, <4>1 DEF Attended
    <3> QED BY <3>1, <3>2
  <2> QED BY <2>1, <2>2, <2>4, <2>6, <2>7, <2>8 DEF Lined, Attended, At
<1>5. CASE queue' = Begun(conn, who)
  <2> DEFINE r == [path |-> target.path, source |-> target.source, mine |-> TRUE, conn |-> conn,
        at |-> "start", awaited |-> who]
  <2>1. r \in Restoration /\ r.path = target.path /\ r.at = "start" /\ r.conn = conn /\ r.awaited = who
    BY <1>1 DEF Restoration, Target
  <2>2. queue' = Append(queue, r)
    BY <1>5 DEF Begun
  <2> HIDE DEF r
  <2>3. /\ queue' \in Seq(Restoration) /\ Len(queue') = Len(queue) + 1
        /\ \A i \in 1..Len(queue) : queue'[i] = queue[i]
        /\ queue'[Len(queue) + 1] = r
        /\ \A i \in 1..Len(queue') : i \in 1..Len(queue) \/ i = Len(queue) + 1
    BY <1>1, <2>1, <2>2
  <2>4. Mine(queue', target')
    BY <1>1, <2>1, <2>3 DEF Mine
  <2>5. \A i \in 1..Len(queue') : (i # 1 => queue'[i].at = "start")
          /\ (queue'[i].conn = "current" \/ "view" \in queue'[i].awaited => up')
    BY <1>2, <2>1, <2>3
  <2>6. \A at : at # "start" => (At(queue', at) <=> At(queue, at))
    <3>1. CASE Len(queue) = 0
      BY <2>1, <2>3, <3>1 DEF At
    <3>2. CASE Len(queue) > 0
      BY <1>1, <2>3, <3>2 DEF At
    <3> QED BY <1>1, <3>1, <3>2
  <2>7. At(queue, "resuming") \/ At(queue, "syncing") => queue'[1].path = queue[1].path
    BY <1>1, <2>3 DEF At
  <2>8. Waiting(queue)'
    <3>1. At(queue', "resuming") => queue'[1].path = op'.goal
      BY <1>1, <2>6, <2>7 DEF Waiting
    <3>2. At(queue', "resuming") \/ At(queue', "fallback") => target' # NoTarget
      BY <1>1, <2>6 DEF Waiting
    <3>3. At(queue', "syncing") => queue'[1].path = None
      BY <1>1, <2>6, <2>7 DEF Waiting
    <3>4. At(queue', "syncing") \/ At(queue', "fallback") => up'
      BY <1>1, <2>6 DEF Waiting
    <3> QED BY <2>5, <3>1, <3>2, <3>3, <3>4 DEF Waiting, At
  <2>9. \A i \in 1..Len(queue') : "prompt" \in queue'[i].awaited => prompt'.pc \in {"recovering", "reconciling"}
    BY <1>1, <2>1, <2>3 DEF Attended
  <2>10. \A i, j \in 1..Len(queue') : "prompt" \in queue'[i].awaited /\ "prompt" \in queue'[j].awaited => i = j
    BY <1>1, <1>3, <2>1, <2>3 DEF Attended
  <2> QED BY <2>3, <2>4, <2>6, <2>8, <2>9, <2>10 DEF Lined, Attended, At
<1> QED BY <1>4, <1>5

LEMMA ReconciledIs ==
  ASSUME Orderly, NEW conn, NEW who
  PROVE  (queue # <<>> /\ Reconciled(conn, who) = Joined(who)) \/ Reconciled(conn, who) = Begun(conn, who)
BY DEF Reconciled, Joined, Begun

-----------------------------------------------------------------------------
(* What keeps the parts of the invariant.                                  *)

LEMMA OpAtIs ==
  ASSUME op \in Operation, NEW a \in {"syncing", "asked", "applied", "settling"}
  PROVE  LET x == [op EXCEPT !.at = a] IN x \in Operation /\ x.by = op.by /\ x.at = a /\ x.goal = op.goal
BY DEF Operation

(* What the end of an operation that fails is                              *)
LEMMA OpFailsIs ==
  ASSUME Orderly, NEW missing \in BOOLEAN, OpFails(missing), UNCHANGED up, missing => up
  PROVE  /\ op' = NoOp /\ target' = target /\ queue' \in Seq(Restoration) /\ Lined' /\ ~At(queue, "resuming")'
         /\ prompt' \in Sending /\ prompt'.strayed = prompt.strayed /\ prompt'.pc # "creating"
         /\ prompt' = prompt \/ prompt'.pc = "idle" \/ (prompt'.pc = "targeting" /\ prompt.pc # "idle")
         /\ leaf' \in Leaf /\ leaf'.marked = leaf.marked
         /\ leaf' = leaf \/ (up /\ leaf'.pc = "syncing" /\ (leaf'.ok => target' = NoTarget))
<1>1. /\ Told(FALSE) \in Sending /\ Told(FALSE).strayed = prompt.strayed /\ Told(FALSE).pc # "creating"
      /\ prompt.pc \in {"recovering", "reconciling"} => Told(FALSE) = prompt
      /\ Told(FALSE) = prompt \/ Told(FALSE).pc = "idle"
  BY ToldIs
<1>2. /\ queue \in Seq(Restoration) /\ leaf \in Leaf /\ Lined /\ Waiting(queue) /\ Attended(queue, prompt)
      /\ op.by = "restore" <=> At(queue, "resuming")
  BY LeafFacts DEF Lined, Ordered
<1>3. op' = NoOp
  BY DEF OpFails
<1>4. CASE op.by # "restore"
  <2>1. prompt' = Told(FALSE) /\ UNCHANGED <<target, queue, leaf>>
    BY <1>4 DEF OpFails
  <2>2. prompt.pc \in {"recovering", "reconciling"} => prompt'.pc \in {"recovering", "reconciling"}
    BY <1>1, <2>1
  <2>3. Lined' /\ (At(queue, "resuming")' <=> At(queue, "resuming"))
    BY <1>2, <1>4, <2>1, <2>2, QueueStays
  <2> QED BY <1>1, <1>2, <1>3, <1>4, <2>1, <2>3
<1>5. CASE op.by = "restore"
  <2>1. queue # <<>> /\ target # NoTarget /\ Head(queue) = queue[1]
    BY <1>2, <1>5 DEF At, Waiting
  <2>2. CASE missing /\ Head(queue).source = "pending" /\ Current(Head(queue))
    <3>1. queue' = [queue EXCEPT ![1].at = "fallback"] /\ prompt' = Told(FALSE) /\ UNCHANGED <<target, leaf>>
      BY <1>5, <2>2 DEF OpFails
    <3>2. prompt.pc \in {"recovering", "reconciling"} => prompt' = prompt
      BY <1>1, <3>1
    <3>3. queue' \in Seq(Restoration) /\ Lined' /\ ~At(queue, "resuming")'
      BY <2>1, <2>2, <3>1, <3>2, HeadMoves
    <3> QED BY <1>1, <1>2, <1>3, <3>1, <3>3
  <2>3. CASE ~(missing /\ Head(queue).source = "pending" /\ Current(Head(queue)))
    <3>1. UNCHANGED target /\ Settle(Told(FALSE), queue, FALSE)
      BY <1>5, <2>3 DEF OpFails
    <3>2. /\ queue' \in Seq(Restoration) /\ Lined' /\ ~At(queue, "resuming")'
          /\ prompt' \in Sending /\ prompt'.strayed = Told(FALSE).strayed
          /\ leaf' \in Leaf /\ leaf'.marked = leaf.marked
          /\ leaf' = leaf \/ (up /\ leaf'.pc = "syncing" /\ (leaf'.ok => target' = NoTarget))
          /\ \/ prompt' = Told(FALSE)
             \/ /\ prompt'.pc \in {"idle", "targeting", "placing"} /\ prompt.pc # "idle"
                /\ prompt'.pc = "placing" => target' = NoTarget
      BY <1>1, <2>1, <3>1, EndsIs, Worlds DEF Ends
    <3>3. prompt'.pc # "placing" \/ prompt' = Told(FALSE)
      BY <1>1, <2>1, <3>1, <3>2
    <3> QED BY <1>1, <1>3, <3>1, <3>2, <3>3
  <2> QED BY <2>2, <2>3
<1> QED BY <1>4, <1>5

LEMMA MarkedStays ==
  ASSUME Orderly, UNCHANGED <<up, hydrated>>, target' = target \/ target' = NoTarget,
         \/ leaf' = leaf
         \/ /\ up /\ leaf'.pc = "syncing" /\ leaf'.marked = leaf.marked
            /\ leaf'.ok => target' = NoTarget
  PROVE  Marked'
<1>1. Marked /\ NoTarget.source # "disconnected"
  BY LeafFacts, Worlds
<1> QED BY <1>1 DEF Marked

LEMMA TargetStays ==
  ASSUME Orderly, target' = target \/ target' = NoTarget
  PROVE  target' \in Target /\ ((target' = NoTarget) <=> (target'.path = None))
BY LeafFacts, Worlds DEF Ordered

(* An operation goes on or there is none.                                  *)
LEMMA OrderedOn ==
  ASSUME Orderly, target' = target \/ target' = NoTarget, op'.by = op.by, op'.goal = op.goal,
         op.by = "none" => op' = op,
         \/ op' = op /\ (up' <=> up)
         \/ op'.at \in {"syncing", "asked", "applied", "settling"} /\ op.by # "other" /\ op.by # "none" /\ up',
         op.by = "prompt" <=> prompt'.pc = "creating",
         At(queue, "resuming")' <=> At(queue, "resuming")
  PROVE  Ordered'
<1>1. /\ Ordered /\ (target' = NoTarget <=> target'.path = None) /\ NoOp.by = "none"
  BY LeafFacts, TargetStays, Worlds
<1>2. (op = NoOp <=> op.by = "none") /\ (op.by = "none" <=> op.at = "none")
        /\ (op.by = "other" <=> op.at = "running")
  BY <1>1 DEF Ordered
<1>3. (op' = NoOp) <=> (op'.by = "none")
  BY <1>1, <1>2
<1>4. /\ op'.by = "none" <=> op'.at = "none"
      /\ op'.by = "other" <=> op'.at = "running"
  BY <1>2
<1>5. /\ op'.by = "prompt" <=> prompt'.pc = "creating"
      /\ op'.by = "restore" <=> At(queue, "resuming")'
      /\ op'.by \in {"user", "prompt", "restore"} => op'.goal # None
  BY <1>1 DEF Ordered
<1>6. /\ op'.at \in {"syncing", "asked", "applied"} => up'
      /\ op'.at = "reaching" => ~up'
  BY <1>1 DEF Ordered
<1> QED BY <1>1, <1>3, <1>4, <1>5, <1>6 DEF Ordered

LEMMA OrderedDone ==
  ASSUME Orderly, target' \in Target, (target' = NoTarget) <=> (target'.path = None), op' = NoOp,
         prompt'.pc # "creating", ~At(queue, "resuming")'
  PROVE  Ordered'
BY Worlds DEF Ordered

-----------------------------------------------------------------------------
(* Every step keeps the order.                                             *)

LEMMA InitOrderly == SessionInit => Orderly
<1>1. ASSUME SessionInit
      PROVE  Orderly
  <2>1. /\ up = FALSE /\ remote = Boot /\ store = None /\ shown = None /\ target = NoTarget
           /\ queue = <<>> /\ op = NoOp
        /\ leaf = [pc |-> "none", ok |-> FALSE, marked |-> FALSE]
        /\ prompt = [pc |-> "idle", of |-> None, strayed |-> FALSE]
        /\ chosen = None /\ hydrated = FALSE /\ gone = {}
    BY <1>1 DEF SessionInit
  <2>2. leaf \in Leaf /\ leaf.pc = "none" /\ ~leaf.marked /\ ~leaf.ok /\ prompt \in Sending
          /\ prompt.pc = "idle"
    BY <2>1, Worlds DEF Leaf, Sending
  <2>3. Formed
    <3>1. queue \in Seq(Restoration)
      BY <2>1
    <3>2. up \in BOOLEAN /\ hydrated \in BOOLEAN /\ gone \subseteq Stored
      BY <2>1
    <3>3. remote \in Sessions /\ store \in Paths /\ shown \in Paths /\ chosen \in Paths
            /\ target \in Target /\ op \in Operation
      BY <2>1, Worlds
    <3> QED BY <2>2, <3>1, <3>2, <3>3 DEF Formed
  <2>4. ~At(queue, "resuming") /\ Len(queue) = 0 /\ queue = <<>>
    BY <2>1 DEF At
  <2>5. Ordered
    BY <2>1, <2>2, <2>4, Worlds DEF Ordered
  <2>6. Lined
    BY <2>4 DEF Lined, Mine, Waiting, Attended, At
  <2>7. Marked
    BY <2>1, <2>2, Worlds DEF Marked
  <2> QED BY <2>3, <2>5, <2>6, <2>7 DEF Orderly
<1> QED BY <1>1

(* The head of the queue ends, and nothing else of the order changes.      *)
LEMMA HeadEnds ==
  ASSUME Orderly, queue # <<>>, ~At(queue, "resuming"), Ends(prompt),
         UNCHANGED <<up, remote, hydrated, gone, shown, op>>, store' \in Paths, chosen' \in Paths
  PROVE  Orderly'
<1>1. /\ queue' \in Seq(Restoration) /\ Lined' /\ ~At(queue, "resuming")'
      /\ target' = target \/ target' = NoTarget
      /\ prompt' \in Sending /\ leaf' \in Leaf /\ leaf'.marked = leaf.marked
      /\ leaf' = leaf \/ (up /\ leaf'.pc = "syncing" /\ (leaf'.ok => target' = NoTarget))
      /\ \/ prompt' = prompt
         \/ prompt.pc \in {"recovering", "reconciling"} /\ prompt'.pc \in {"idle", "targeting", "placing"}
  BY EndsIs, LeafFacts
<1>2. Formed'
  BY <1>1, LeafFacts, TargetStays DEF Formed
<1>3. Ordered'
  <2>1. op.by = "prompt" <=> prompt'.pc = "creating"
    BY <1>1, LeafFacts DEF Ordered
  <2> QED BY <1>1, <2>1, OrderedOn
<1>4. Marked'
  BY <1>1, MarkedStays
<1> QED BY <1>1, <1>2, <1>3, <1>4 DEF Orderly

LEMMA StartHeadOrderly == Orderly /\ StartHead => Orderly'
<1>1. ASSUME Orderly, StartHead
      PROVE  Orderly'
  <2>1. /\ queue # <<>> /\ queue[1].at = "start" /\ Head(queue) = queue[1] /\ queue[1] \in Restoration
           /\ ~At(queue, "resuming")
        /\ Lined /\ Mine(queue, target) /\ Waiting(queue) /\ Len(queue) > 0 /\ 1 \in 1..Len(queue)
        /\ UNCHANGED <<up, remote, hydrated, gone, store, shown, chosen, spent>>
    <3>1. /\ queue # <<>> /\ queue[1].at = "start" /\ Head(queue) = queue[1]
          /\ UNCHANGED <<up, remote, hydrated, gone, store, shown, chosen, spent>>
      BY <1>1 DEF StartHead, world, shows
    <3>2. Len(queue) > 0 /\ 1 \in 1..Len(queue) /\ queue[1] \in Restoration
      BY <1>1, <3>1, LeafFacts
    <3> QED BY <1>1, <3>1, <3>2, LeafFacts DEF At, Lined
  <2>2. store' \in Paths /\ chosen' \in Paths /\ store \in Paths /\ Orderly
    BY <1>1, <2>1, LeafFacts
  <2>3. CASE Fail /\ UNCHANGED op
    BY <2>1, <2>2, <2>3, HeadEnds, Worlds DEF Fail, Ends
  <2>4. CASE FinishRestore(prompt) /\ UNCHANGED op
    BY <2>1, <2>2, <2>4, HeadEnds DEF Ends
  <2>5. CASE queue[1].path = None /\ up /\ queue' = [queue EXCEPT ![1].at = "syncing"]
          /\ UNCHANGED <<target, op, prompt, leaf>>
    <3>1. queue' \in Seq(Restoration) /\ Lined' /\ ~At(queue, "resuming")'
      BY <2>1, <2>2, <2>5, HeadMoves
    <3>2. Formed'
      BY <2>1, <2>2, <2>5, <3>1, LeafFacts DEF Formed
    <3>3. Ordered'
      <4>1. op.by = "prompt" <=> prompt'.pc = "creating"
        BY <2>2, <2>5, LeafFacts DEF Ordered
      <4> QED BY <2>1, <2>2, <2>5, <3>1, <4>1, OrderedOn
    <3> QED BY <2>1, <2>2, <2>5, <3>1, <3>2, <3>3, MarkedStays DEF Orderly
  <2>6. CASE /\ Current(queue[1]) /\ queue[1].path # None /\ op = NoOp
          /\ Hold("restore", queue[1].conn, queue[1].path)
             /\ queue' = [queue EXCEPT ![1].at = "resuming"]
             /\ UNCHANGED <<target, prompt, leaf>>
    <3>1. target.path = queue[1].path /\ (queue[1].conn = "none" \/ up) /\ queue[1].path \in Paths
            /\ target # NoTarget
      <4>1. queue[1].mine /\ queue[1].conn # "old"
        BY <2>6 DEF Current, Same
      <4>2. target.path = queue[1].path
        BY <2>1, <2>6, <4>1 DEF Mine
      <4>3. queue[1].conn = "current" => up
        BY <2>1 DEF Waiting
      <4> QED BY <2>1, <2>6, <4>1, <4>2, <4>3, RestorationIs, Worlds
    <3>2. /\ op' \in Operation /\ op'.by = "restore" /\ op'.goal = queue[1].path
          /\ op'.at \in {"syncing", "reaching"} /\ (op'.at = "syncing" <=> up)
      BY <2>6, <3>1 DEF Hold, Operation
    <3>3. queue' \in Seq(Restoration) /\ Lined' /\ At(queue, "resuming")'
      BY <2>1, <2>2, <2>6, <3>1, <3>2, HeadMoves
    <3>4. Formed'
      BY <2>1, <2>2, <2>6, <3>2, <3>3, LeafFacts DEF Formed
    <3>5. op'.by # NoOp.by /\ prompt.pc # "creating" /\ (target = NoTarget <=> target.path = None)
      BY <2>2, <2>6, <3>2, LeafFacts, Worlds DEF Ordered
    <3>6. Ordered'
      BY <2>1, <2>6, <3>1, <3>2, <3>3, <3>5 DEF Ordered
    <3> QED BY <2>1, <2>2, <2>6, <3>3, <3>4, <3>6, MarkedStays DEF Orderly
  <2> QED
    <3>1. \/ ~Current(queue[1]) /\ Fail /\ UNCHANGED op
          \/ queue[1].path = None /\ up /\ queue' = [queue EXCEPT ![1].at = "syncing"]
             /\ UNCHANGED <<target, op, prompt, leaf>>
          \/ FinishRestore(prompt) /\ UNCHANGED op
          \/ Fail /\ UNCHANGED op
          \/ /\ Current(queue[1]) /\ queue[1].path # None /\ op = NoOp
                /\ Hold("restore", queue[1].conn, queue[1].path)
             /\ queue' = [queue EXCEPT ![1].at = "resuming"]
             /\ UNCHANGED <<target, prompt, leaf>>
      BY <1>1, <2>1 DEF StartHead
    <3> QED BY <2>3, <2>4, <2>5, <2>6, <3>1
<1> QED BY <1>1

LEMMA HeadSyncsOrderly == Orderly /\ HeadSyncs => Orderly'
<1>1. ASSUME Orderly, HeadSyncs
      PROVE  Orderly'
  <2>1. queue # <<>> /\ queue[1].at \in {"syncing", "fallback"}
          /\ UNCHANGED <<up, remote, hydrated, gone, shown, op>> /\ remote \in Paths
    BY <1>1, LeafFacts, Worlds DEF HeadSyncs, world
  <2>2. ~At(queue, "resuming")
    BY <2>1 DEF At
  <2>3. CASE store' = remote /\ FinishRestore(prompt) /\ chosen' \in {None, chosen}
    BY <1>1, <2>1, <2>2, <2>3, HeadEnds, Worlds, LeafFacts DEF Ends
  <2>4. CASE Fail /\ UNCHANGED <<store, chosen>>
    BY <1>1, <2>1, <2>2, <2>4, HeadEnds, Worlds, LeafFacts DEF Ends, Fail
  <2> QED BY <1>1, <2>3, <2>4 DEF HeadSyncs
<1> QED BY <1>1

(* An operation fails, or goes on.                                         *)
LEMMA OpEnds ==
  ASSUME Orderly, NEW missing \in BOOLEAN, OpFails(missing), missing => up,
         UNCHANGED <<up, remote, hydrated, gone>>,
         store' \in Paths, shown' \in Paths, chosen' \in Paths
  PROVE  Orderly'
<1>1. /\ op' = NoOp /\ target' = target /\ queue' \in Seq(Restoration) /\ Lined' /\ ~At(queue, "resuming")'
      /\ prompt' \in Sending /\ prompt'.pc # "creating"
      /\ leaf' \in Leaf /\ leaf'.marked = leaf.marked
      /\ leaf' = leaf \/ (up /\ leaf'.pc = "syncing" /\ (leaf'.ok => target' = NoTarget))
  BY OpFailsIs
<1>2. target' \in Target /\ ((target' = NoTarget) <=> (target'.path = None))
  BY <1>1, TargetStays
<1>3. Formed'
  BY <1>1, <1>2, LeafFacts, Worlds DEF Formed
<1>4. Ordered'
  BY <1>1, <1>2, OrderedDone
<1>5. Marked'
  BY <1>1, MarkedStays
<1> QED BY <1>1, <1>3, <1>4, <1>5 DEF Orderly

LEMMA OpGoes ==
  ASSUME Orderly, NEW a \in {"syncing", "asked", "applied", "settling"},
         op.at \in {"looking", "syncing", "asked", "applied"}, op' = [op EXCEPT !.at = a],
         UNCHANGED <<up, hydrated, gone, target, queue, leaf, prompt>>,
         remote' \in Sessions, store' \in Paths, shown' \in Paths, chosen' \in Paths
  PROVE  Orderly'
<1>1. op' \in Operation /\ op'.by = op.by /\ op'.at = a /\ op'.goal = op.goal
  <2> DEFINE x == [op EXCEPT !.at = a]
  <2>1. x \in Operation /\ x.by = op.by /\ x.at = a /\ x.goal = op.goal
    BY LeafFacts, OpAtIs
  <2>2. op' = x
    OBVIOUS
  <2> HIDE DEF x
  <2> QED BY <2>1, <2>2
<1>2. up /\ op.by # "none" /\ op.by # "other" /\ (op.by = "prompt" <=> prompt'.pc = "creating")
  BY LeafFacts DEF Ordered
<1>3. Formed'
  BY <1>1, LeafFacts DEF Formed
<1>4. Lined' /\ (At(queue, "resuming")' <=> At(queue, "resuming"))
  BY <1>1, QueueStays
<1>5. Ordered'
  BY <1>1, <1>2, <1>4, OrderedOn
<1>6. Marked'
  BY MarkedStays
<1> QED BY <1>3, <1>4, <1>5, <1>6 DEF Orderly

LEMMA UnreachedOrderly == Orderly /\ Unreached => Orderly'
<1>1. ASSUME Orderly, Unreached
      PROVE  Orderly'
  <2>1. OpFails(FALSE) /\ UNCHANGED <<up, remote, hydrated, gone, store, shown, chosen>>
    BY <1>1 DEF Unreached, world, shows
  <2> QED BY <1>1, <2>1, OpEnds, LeafFacts
<1> QED BY <1>1

LEMMA LooksOrderly == Orderly /\ Looks => Orderly'
<1>1. ASSUME Orderly, Looks
      PROVE  Orderly'
  <2>1. PICK at \in {"syncing", "settling"} : op' = [op EXCEPT !.at = at]
    BY <1>1 DEF Looks
  <2>2. op.at = "looking"
          /\ UNCHANGED <<up, remote, hydrated, gone, store, shown, chosen, target, queue, leaf, prompt>>
    BY <1>1 DEF Looks, world, shows
  <2>3. store' \in Paths /\ shown' \in Paths /\ chosen' \in Paths /\ remote' \in Sessions
    BY <1>1, <2>2, LeafFacts
  <2> QED BY <1>1, <2>1, <2>2, <2>3, OpGoes
<1> QED BY <1>1

LEMMA OpSyncsOrderly == Orderly /\ OpSyncs => Orderly'
<1>1. ASSUME Orderly, OpSyncs
      PROVE  Orderly'
  <2>1. /\ op.at = "syncing" /\ UNCHANGED <<up, remote, hydrated, gone, shown, chosen>>
           /\ store' \in {remote, store}
        /\ OpFails(FALSE) \/ (op' = [op EXCEPT !.at = "asked"] /\ UNCHANGED <<target, queue, leaf, prompt>>)
    BY <1>1 DEF OpSyncs, world
  <2>2. store' \in Paths /\ shown' \in Paths /\ chosen' \in Paths /\ remote' \in Sessions
    BY <1>1, <2>1, LeafFacts, Worlds
  <2>3. CASE OpFails(FALSE)
    BY <1>1, <2>1, <2>2, <2>3, OpEnds
  <2>4. CASE op' = [op EXCEPT !.at = "asked"] /\ UNCHANGED <<target, queue, leaf, prompt>>
    BY <1>1, <2>1, <2>2, <2>4, OpGoes
  <2> QED BY <2>1, <2>3, <2>4
<1> QED BY <1>1

LEMMA ApplyOrderly == Orderly /\ Apply => Orderly'
<1>1. ASSUME Orderly, Apply
      PROVE  Orderly'
  <2>1. /\ op.at = "asked" /\ remote' = op.goal /\ op' = [op EXCEPT !.at = "applied"]
        /\ UNCHANGED <<up, hydrated, gone, store, shown, target, queue, leaf, prompt, chosen>>
    BY <1>1 DEF Apply, shows
  <2>2. op.goal \in Sessions
    BY <1>1, <2>1, LeafFacts DEF Ordered, Paths
  <2>3. store' \in Paths /\ shown' \in Paths /\ chosen' \in Paths /\ remote' \in Sessions
    BY <1>1, <2>1, <2>2, LeafFacts
  <2> QED BY <1>1, <2>1, <2>3, OpGoes
<1> QED BY <1>1

LEMMA RefuseOrderly == Orderly /\ Refuse => Orderly'
<1>1. ASSUME Orderly, Refuse
      PROVE  Orderly'
  <2>1. op.at = "asked" /\ (OpFails(TRUE) \/ OpFails(FALSE))
          /\ UNCHANGED <<up, remote, hydrated, gone, store, shown, chosen>>
    BY <1>1 DEF Refuse, world, shows
  <2>2. up /\ store' \in Paths /\ shown' \in Paths /\ chosen' \in Paths
    BY <1>1, <2>1, LeafFacts DEF Ordered
  <2>3. CASE OpFails(TRUE)
    BY <1>1, <2>1, <2>2, <2>3, OpEnds
  <2>4. CASE OpFails(FALSE)
    BY <1>1, <2>1, <2>2, <2>4, OpEnds
  <2> QED BY <2>1, <2>3, <2>4
<1> QED BY <1>1

LEMMA DeclineOrderly == Orderly /\ Decline => Orderly'
<1>1. ASSUME Orderly, Decline
      PROVE  Orderly'
  <2>1. /\ op.at = "asked" /\ UNCHANGED <<up, remote, hydrated, gone, store, shown, chosen>>
        /\ OpFails(FALSE) \/ (op' = [op EXCEPT !.at = "settling"] /\ UNCHANGED <<target, queue, leaf, prompt>>)
    BY <1>1 DEF Decline, world, shows
  <2>2. store' \in Paths /\ shown' \in Paths /\ chosen' \in Paths /\ remote' \in Sessions
    BY <1>1, <2>1, LeafFacts
  <2>3. CASE OpFails(FALSE)
    BY <1>1, <2>1, <2>2, <2>3, OpEnds
  <2>4. CASE op' = [op EXCEPT !.at = "settling"] /\ UNCHANGED <<target, queue, leaf, prompt>>
    BY <1>1, <2>1, <2>2, <2>4, OpGoes
  <2> QED BY <2>1, <2>3, <2>4
<1> QED BY <1>1

LEMMA ResultOrderly == Orderly /\ Result => Orderly'
<1>1. ASSUME Orderly, Result
      PROVE  Orderly'
  <2>1. /\ op.at = "applied" /\ UNCHANGED <<up, remote, hydrated, gone>>
        /\ store' = op.goal /\ shown' \in {op.goal, shown} /\ chosen' \in {op.goal, chosen}
        /\ OpFails(FALSE) \/ (op' = [op EXCEPT !.at = "settling"] /\ UNCHANGED <<target, queue, leaf, prompt>>)
    BY <1>1 DEF Result, Owed, world
  <2>2. store' \in Paths /\ shown' \in Paths /\ chosen' \in Paths /\ remote' \in Sessions
    BY <1>1, <2>1, LeafFacts
  <2>3. CASE OpFails(FALSE)
    BY <1>1, <2>1, <2>2, <2>3, OpEnds
  <2>4. CASE op' = [op EXCEPT !.at = "settling"] /\ UNCHANGED <<target, queue, leaf, prompt>>
    BY <1>1, <2>1, <2>2, <2>4, OpGoes
  <2> QED BY <2>1, <2>3, <2>4
<1> QED BY <1>1

LEMMA SettledOrderly == Orderly /\ SessionSettled => Orderly'
<1>1. ASSUME Orderly, SessionSettled
      PROVE  Orderly'
  <2>1. /\ op.at = "settling" /\ op' = NoOp /\ shown' = store
           /\ UNCHANGED <<up, remote, hydrated, gone, store, chosen>>
        /\ \/ op.by = "restore" /\ FinishRestore(Told(TRUE))
           \/ op.by # "restore" /\ prompt' = Told(TRUE) /\ UNCHANGED <<target, queue, leaf>>
    BY <1>1 DEF SessionSettled, world
  <2>2. /\ Told(TRUE) \in Sending /\ Told(TRUE).pc # "creating"
        /\ prompt.pc \in {"recovering", "reconciling"} => Told(TRUE) = prompt
    BY <1>1, ToldIs
  <2>3. /\ queue' \in Seq(Restoration) /\ Lined' /\ ~At(queue, "resuming")'
           /\ (target' = target \/ target' = NoTarget)
        /\ prompt' \in Sending /\ prompt'.pc # "creating" /\ leaf' \in Leaf /\ leaf'.marked = leaf.marked
        /\ leaf' = leaf \/ (up /\ leaf'.pc = "syncing" /\ (leaf'.ok => target' = NoTarget))
    <3>1. CASE op.by = "restore" /\ FinishRestore(Told(TRUE))
      <4>1. queue # <<>> /\ store \in Paths
        BY <1>1, <3>1, LeafFacts DEF Ordered, At
      <4> QED BY <1>1, <2>1, <2>2, <3>1, <4>1, EndsIs DEF Ends
    <3>2. CASE op.by # "restore" /\ prompt' = Told(TRUE) /\ UNCHANGED <<target, queue, leaf>>
      <4>1. ~At(queue, "resuming")
        BY <1>1, <3>2, LeafFacts DEF Ordered
      <4>2. Lined' /\ (At(queue, "resuming")' <=> At(queue, "resuming"))
        BY <1>1, <2>1, <2>2, <3>2, <4>1, QueueStays
      <4> QED BY <1>1, <2>2, <3>2, <4>1, <4>2, LeafFacts
    <3> QED BY <2>1, <3>1, <3>2
  <2>4. target' \in Target /\ ((target' = NoTarget) <=> (target'.path = None))
    BY <1>1, <2>3, TargetStays
  <2>5. Formed'
    BY <1>1, <2>1, <2>3, <2>4, LeafFacts, Worlds DEF Formed
  <2>6. Ordered'
    BY <1>1, <2>1, <2>3, <2>4, OrderedDone
  <2> QED BY <1>1, <2>1, <2>3, <2>5, <2>6, MarkedStays DEF Orderly
<1> QED BY <1>1

(* Only the projection, the tab, what was chosen and what was deleted      *)
(* change.                                                                 *)
LEMMA OrderlyKept ==
  ASSUME Orderly, UNCHANGED <<up, hydrated, target, queue, op, leaf, prompt>>,
         remote' \in Sessions, store' \in Paths, shown' \in Paths, chosen' \in Paths, gone' \subseteq Stored
  PROVE  Orderly'
<1>1. Formed'
  BY LeafFacts DEF Formed
<1>2. Lined' /\ (At(queue, "resuming")' <=> At(queue, "resuming"))
  BY QueueStays
<1>3. Ordered'
  <2>1. op.by = "prompt" <=> prompt'.pc = "creating"
    BY LeafFacts DEF Ordered
  <2> QED BY <1>2, <2>1, OrderedOn
<1> QED BY <1>1, <1>2, <1>3, MarkedStays DEF Orderly

(* Only the operation changes, and no restoration has or had a part in it. *)
LEMMA OpTurns ==
  ASSUME Orderly, UNCHANGED <<up, remote, hydrated, gone, store, shown, chosen, target, queue, leaf>>,
         op' \in Operation,
         op.by \in {"none", "other"}, op'.by \in {"none", "user", "prompt", "other"},
         (op' = NoOp) <=> (op'.by = "none"), op'.by = "none" <=> op'.at = "none",
         op'.by = "other" <=> op'.at = "running",
         op'.by \in {"user", "prompt"} => op'.goal # None,
         op'.at \in {"none", "running", "reaching", "looking", "syncing"},
         op'.at \in {"looking", "syncing"} => up, op'.at = "reaching" => ~up,
         prompt' \in Sending, prompt.pc \notin {"recovering", "reconciling"} \/ prompt' = prompt,
         op'.by = "prompt" <=> prompt'.pc = "creating"
  PROVE  Orderly'
<1>1. ~At(queue, "resuming") /\ Ordered
  BY LeafFacts DEF Ordered
<1>2. Formed'
  BY LeafFacts DEF Formed
<1>3. Lined' /\ (At(queue, "resuming")' <=> At(queue, "resuming"))
  <2>1. prompt.pc \in {"recovering", "reconciling"} => prompt'.pc \in {"recovering", "reconciling"}
    OBVIOUS
  <2> QED BY <1>1, <2>1, QueueStays
<1>4. Ordered'
  BY <1>1, <1>3 DEF Ordered
<1> QED BY <1>2, <1>3, <1>4, MarkedStays DEF Orderly

LEMMA HoldIs ==
  ASSUME Orderly, op = NoOp, NEW by \in {"user", "prompt"}, NEW goal \in Sessions, Hold(by, "none", goal)
  PROVE  /\ op' \in Operation /\ op'.by = by /\ op'.goal = goal /\ op'.goal # None /\ op' # NoOp
         /\ op'.at \in {"reaching", "looking", "syncing"} /\ (op'.at = "reaching" <=> ~up)
<1>1. /\ op' \in Operation /\ op'.by = by /\ op'.goal = goal
      /\ op'.at \in {"reaching", "looking", "syncing"} /\ (op'.at = "reaching" <=> ~up)
  BY Worlds DEF Hold, Operation
<1> QED BY <1>1, Worlds

LEMMA ChooseOrderly == \A s \in Sessions : Orderly /\ Choose(s) => Orderly'
<1>1. ASSUME NEW s \in Sessions, Orderly, Choose(s)
      PROVE  Orderly'
  <2>1. /\ op = NoOp /\ Hold("user", "none", s)
        /\ UNCHANGED <<up, remote, hydrated, gone, store, shown, chosen, target, queue, leaf, prompt>>
    BY <1>1 DEF Choose, world, shows
  <2>2. op.by = "none" /\ prompt.pc # "creating" /\ prompt \in Sending
    BY <1>1, <2>1, Worlds, LeafFacts DEF Ordered
  <2>3. /\ op' \in Operation /\ op'.by = "user" /\ op'.goal # None /\ op' # NoOp
        /\ op'.at \in {"reaching", "looking", "syncing"} /\ (op'.at = "reaching" <=> ~up)
    BY <1>1, <2>1, HoldIs
  <2> QED BY <1>1, <2>1, <2>2, <2>3, OpTurns
<1> QED BY <1>1

LEMMA OthersOrderly == Orderly /\ (OtherBegins \/ OtherEnds) => Orderly'
<1>1. ASSUME Orderly, OtherBegins
      PROVE  Orderly'
  <2>1. /\ op = NoOp /\ op' = [by |-> "other", at |-> "running", goal |-> None]
        /\ UNCHANGED <<up, remote, hydrated, gone, store, shown, chosen, target, queue, leaf, prompt>>
    BY <1>1 DEF OtherBegins, world, shows
  <2>2. op.by = "none" /\ prompt.pc # "creating" /\ prompt \in Sending
    BY <1>1, <2>1, Worlds, LeafFacts DEF Ordered
  <2>3. op' \in Operation /\ op'.by = "other" /\ op'.at = "running" /\ op' # NoOp
    BY <2>1, Worlds DEF Operation
  <2> QED BY <1>1, <2>1, <2>2, <2>3, OpTurns
<1>2. ASSUME Orderly, OtherEnds
      PROVE  Orderly'
  <2>1. /\ op.by = "other" /\ op' = NoOp
        /\ UNCHANGED <<up, remote, hydrated, gone, store, shown, chosen, target, queue, leaf, prompt>>
    BY <1>2 DEF OtherEnds, world, shows
  <2>2. prompt.pc # "creating" /\ prompt \in Sending
    BY <1>2, <2>1, LeafFacts DEF Ordered
  <2> QED BY <1>2, <2>1, <2>2, Worlds, OpTurns
<1> QED BY <1>1, <1>2

LEMMA ViewSyncsOrderly == Orderly /\ ViewSyncs => Orderly'
<1>1. ASSUME Orderly, ViewSyncs
      PROVE  Orderly'
  <2>1. /\ leaf.pc = "syncing" /\ store' \in {remote, store}
        /\ UNCHANGED <<up, remote, hydrated, gone, shown, chosen, target, queue, op, prompt>>
        /\ leaf' = [leaf EXCEPT !.pc = "none", !.marked = leaf.ok] \/ leaf' = [leaf EXCEPT !.pc = "none"]
    BY <1>1 DEF ViewSyncs, world
  <2>2. leaf' \in Leaf /\ leaf'.pc = "none" /\ leaf'.marked \in {leaf.ok, leaf.marked}
    BY <1>1, <2>1, LeafFacts DEF Leaf
  <2>3. Formed'
    BY <1>1, <2>1, <2>2, LeafFacts, Worlds DEF Formed
  <2>4. Lined' /\ (At(queue, "resuming")' <=> At(queue, "resuming"))
    BY <1>1, <2>1, QueueStays
  <2>5. Ordered'
    <3>1. op.by = "prompt" <=> prompt'.pc = "creating"
      BY <1>1, <2>1, LeafFacts DEF Ordered
    <3> QED BY <1>1, <2>1, <2>4, <3>1, OrderedOn
  <2>6. Marked'
    <3>1. leaf.ok \in BOOLEAN /\ leaf.marked \in BOOLEAN /\ Marked
      BY <1>1, LeafFacts DEF Leaf
    <3> QED BY <2>1, <2>2, <3>1 DEF Marked
  <2> QED BY <2>3, <2>4, <2>5, <2>6 DEF Orderly
<1> QED BY <1>1

LEMMA FlushOrderly == Orderly /\ Flush => Orderly'
<1>1. ASSUME Orderly, Flush
      PROVE  Orderly'
  <2>1. /\ shown' = store /\ chosen' \in {store, chosen}
        /\ UNCHANGED <<up, remote, hydrated, gone, store, target, queue, op, leaf, prompt>>
    BY <1>1 DEF Flush, Owed, world
  <2> QED BY <1>1, <2>1, OrderlyKept, LeafFacts DEF Formed
<1> QED BY <1>1

LEMMA DeleteOrderly == \A s \in Stored : Orderly /\ Delete(s) => Orderly'
<1>1. ASSUME NEW s \in Stored, Orderly, Delete(s)
      PROVE  Orderly'
  <2>1. gone' = gone \cup {s} /\ UNCHANGED <<up, remote, hydrated, store, shown, target, queue, op,
          leaf, prompt, chosen>>
    BY <1>1 DEF Delete, shows
  <2> QED BY <1>1, <2>1, OrderlyKept, LeafFacts DEF Formed
<1> QED BY <1>1

LEMMA HydrateOrderly == \A s \in Stored \cup {None} : Orderly /\ Hydrate(s) => Orderly'
<1>1. ASSUME NEW s \in Stored \cup {None}, Orderly, Hydrate(s)
      PROVE  Orderly'
  <2>1. /\ hydrated' = TRUE /\ chosen' \in {s, chosen}
           /\ UNCHANGED <<up, remote, gone, store, shown, op, leaf, prompt>>
        /\ \/ UNCHANGED <<target, queue>>
           \/ s # None /\ target' = [path |-> s, source |-> "pending"] /\ queue' = Disowned(queue)
    BY <1>1 DEF Hydrate, shows
  <2>2. s \in Paths /\ queue \in Seq(Restoration) /\ Ordered /\ Marked /\ Formed
    BY <1>1, LeafFacts, Worlds
  <2>3. CASE UNCHANGED <<target, queue>>
    <3>1. Formed'
      BY <2>1, <2>2, <2>3 DEF Formed
    <3>2. Lined' /\ (At(queue, "resuming")' <=> At(queue, "resuming"))
      BY <1>1, <2>1, <2>3, QueueStays
    <3>3. Ordered'
      BY <2>1, <2>2, <2>3, <3>2 DEF Ordered
    <3>4. Marked'
      BY <2>1, <2>2, <2>3 DEF Marked
    <3> QED BY <3>1, <3>2, <3>3, <3>4 DEF Orderly
  <2>4. CASE s # None /\ target' = [path |-> s, source |-> "pending"] /\ queue' = Disowned(queue)
    <3>1. target' \in Target /\ target'.path = s /\ target'.source = "pending" /\ target' # NoTarget
      BY <2>2, <2>4, Worlds DEF Target, Sources
    <3>2. /\ queue' \in Seq(Restoration) /\ Len(queue') = Len(queue) /\ Len(queue) \in Nat
          /\ \A i \in 1..Len(queue) : Likeness(queue[i], queue'[i]) /\ ~queue'[i].mine
      BY <2>2, <2>4, DisownedIs
    <3>3. Formed'
      BY <1>1, <2>1, <2>2, <3>1, <3>2 DEF Formed
    <3>4. /\ At(queue', "resuming") <=> At(queue, "resuming")
          /\ At(queue', "syncing") <=> At(queue, "syncing")
          /\ At(queue', "fallback") <=> At(queue, "fallback")
          /\ Len(queue) > 0 => queue'[1].path = queue[1].path
      <4>1. Len(queue) > 0 => 1 \in 1..Len(queue)
        BY <3>2
      <4> QED BY <3>2, <4>1 DEF At, Likeness
    <3>5. Mine(queue', target')
      BY <3>2 DEF Mine
    <3>6. Waiting(queue)'
      <4>1. Waiting(queue)
        BY <1>1, LeafFacts DEF Lined
      <4>2. \A i \in 1..Len(queue') : (i # 1 => queue'[i].at = "start")
              /\ (queue'[i].conn = "current" \/ "view" \in queue'[i].awaited => up')
        BY <2>1, <3>2, <4>1 DEF Waiting, Likeness
      <4>3. At(queue', "resuming") \/ At(queue', "syncing") => Len(queue) > 0
        BY <3>2 DEF At
      <4> QED BY <2>1, <3>1, <3>4, <4>1, <4>2, <4>3 DEF Waiting
    <3>7. Attended(queue', prompt')
      BY <1>1, <2>1, <3>2, LeafFacts DEF Lined, Attended, Likeness
    <3>8. Ordered'
      BY <2>1, <2>2, <3>1, <3>4, Worlds DEF Ordered
    <3>9. Marked'
      BY <2>1, <2>2, <3>1 DEF Marked
    <3> QED BY <3>3, <3>5, <3>6, <3>7, <3>8, <3>9 DEF Orderly, Lined
  <2> QED BY <2>1, <2>3, <2>4
<1> QED BY <1>1

LEMMA ActivateOrderly == Orderly /\ Activate => Orderly'
<1>1. ASSUME Orderly, Activate
      PROVE  Orderly'
  <2>1. /\ up /\ queue' = Reconciled("current", {})
        /\ UNCHANGED <<up, remote, hydrated, gone, store, shown, target, op, leaf, prompt, chosen>>
    BY <1>1 DEF Activate, world, shows
  <2>2. (queue # <<>> /\ queue' = Joined({})) \/ queue' = Begun("current", {})
    BY <1>1, <2>1, ReconciledIs
  <2>3. queue' \in Seq(Restoration) /\ Lined' /\ (At(queue, "resuming")' <=> At(queue, "resuming"))
    BY <1>1, <2>1, <2>2, QueueGrows
  <2>4. Formed'
    BY <1>1, <2>1, <2>3, LeafFacts DEF Formed
  <2>5. Ordered'
    <3>1. op.by = "prompt" <=> prompt'.pc = "creating"
      BY <1>1, <2>1, LeafFacts DEF Ordered
    <3> QED BY <1>1, <2>1, <2>3, <3>1, OrderedOn
  <2> QED BY <1>1, <2>1, <2>3, <2>4, <2>5, MarkedStays DEF Orderly
<1> QED BY <1>1

LEMMA ConnectOrderly == Orderly /\ Connect => Orderly'
<1>1. ASSUME Orderly, Connect
      PROVE  Orderly'
  <2>1. /\ ~up /\ up' = TRUE /\ remote' \in {remote, Boot}
        /\ op' = IF op.at = "reaching" THEN [op EXCEPT !.at = "syncing"] ELSE op
        /\ leaf' = [leaf EXCEPT !.pc = IF hydrated THEN "restoring" ELSE "syncing", !.ok = TRUE]
        /\ queue' = Reconciled("current", {"view"}) \/ queue' = queue
        /\ UNCHANGED <<hydrated, gone, store, shown, target, prompt, chosen>>
    BY <1>1 DEF Connect, shows
  <2>2. /\ op' \in Operation /\ op'.by = op.by /\ op'.goal = op.goal
        /\ \/ op'.at = "syncing" /\ op.at = "reaching"
           \/ op' = op /\ op.at # "reaching"
    <3>1. CASE op.at = "reaching"
      <4> DEFINE x == [op EXCEPT !.at = "syncing"]
      <4>1. x \in Operation /\ x.by = op.by /\ x.at = "syncing" /\ x.goal = op.goal
        BY <1>1, LeafFacts, OpAtIs
      <4>2. op' = x
        BY <2>1, <3>1
      <4> HIDE DEF x
      <4> QED BY <3>1, <4>1, <4>2
    <3>2. CASE op.at # "reaching"
      BY <1>1, <2>1, <3>2, LeafFacts
    <3> QED BY <3>1, <3>2
  <2>3. /\ leaf' \in Leaf /\ leaf'.pc = (IF hydrated THEN "restoring" ELSE "syncing")
           /\ leaf'.marked = leaf.marked
    BY <1>1, <2>1, LeafFacts DEF Leaf
  <2>4. queue' \in Seq(Restoration) /\ Lined' /\ (At(queue, "resuming")' <=> At(queue, "resuming"))
    <3>1. CASE queue' = Reconciled("current", {"view"})
      <4>1. (queue # <<>> /\ queue' = Joined({"view"})) \/ queue' = Begun("current", {"view"})
        BY <1>1, <3>1, ReconciledIs
      <4> QED BY <1>1, <2>1, <2>2, <4>1, QueueGrows
    <3>2. CASE queue' = queue
      BY <1>1, <2>1, <2>2, <3>2, QueueStays, LeafFacts
    <3> QED BY <2>1, <3>1, <3>2
  <2>5. Formed'
    BY <1>1, <2>1, <2>2, <2>3, <2>4, LeafFacts, Worlds DEF Formed
  <2>6. Ordered'
    BY <1>1, <2>1, <2>2, <2>4, LeafFacts, Worlds DEF Ordered
  <2>7. Marked'
    BY <1>1, <2>1, <2>3, LeafFacts DEF Marked
  <2> QED BY <2>4, <2>5, <2>6, <2>7 DEF Orderly
<1> QED BY <1>1

(* What is left of the queue when the connection is lost                   *)
Old(q) ==
  [i \in DOMAIN q |-> [q[i] EXCEPT !.conn = IF @ = "current" THEN "old" ELSE @, !.awaited = @ \ {"view"}]]

LEMMA OldIs ==
  ASSUME NEW q \in Seq(Restoration)
  PROVE  /\ Old(q) \in Seq(Restoration) /\ Len(Old(q)) = Len(q)
         /\ \A i \in 1..Len(q) :
              /\ Old(q)[i].path = q[i].path /\ Old(q)[i].source = q[i].source /\ Old(q)[i].at = q[i].at
              /\ Old(q)[i].mine = q[i].mine
              /\ Old(q)[i].conn # "current" /\ "view" \notin Old(q)[i].awaited
              /\ "prompt" \in Old(q)[i].awaited <=> "prompt" \in q[i].awaited
<1> DEFINE o(r) == [r EXCEPT !.conn = IF @ = "current" THEN "old" ELSE @, !.awaited = @ \ {"view"}]
<1>1. ASSUME NEW r \in Restoration
      PROVE  /\ o(r) \in Restoration /\ o(r).path = r.path /\ o(r).source = r.source /\ o(r).at = r.at
                /\ o(r).mine = r.mine
             /\ o(r).conn # "current" /\ "view" \notin o(r).awaited
             /\ "prompt" \in o(r).awaited <=> "prompt" \in r.awaited
  <2> DEFINE c == IF r.conn = "current" THEN "old" ELSE r.conn
             w == r.awaited \ {"view"}
  <2>1. c \in {"none", "old"} /\ w \subseteq {"view", "prompt"} /\ "view" \notin w
          /\ ("prompt" \in w <=> "prompt" \in r.awaited)
    BY <1>1, RestorationIs
  <2>2. o(r) = [r EXCEPT !.conn = c, !.awaited = w]
    OBVIOUS
  <2> HIDE DEF c, w
  <2> DEFINE x == [r EXCEPT !.conn = c, !.awaited = w]
  <2>3. x \in Restoration
    BY <1>1, <2>1 DEF Restoration
  <2>4. x.path = r.path /\ x.source = r.source /\ x.at = r.at /\ x.mine = r.mine /\ x.conn = c /\ x.awaited = w
    BY <1>1 DEF Restoration
  <2>5. o(r) = x
    BY <2>2
  <2> HIDE DEF o, x
  <2> QED BY <2>1, <2>3, <2>4, <2>5
<1>2. Old(q) = [i \in 1..Len(q) |-> o(q[i])]
  BY DEF Old
<1> HIDE DEF o
<1>3. Old(q) \in Seq(Restoration) /\ Len(Old(q)) = Len(q)
  BY <1>1, <1>2
<1> QED BY <1>1, <1>2, <1>3

LEMMA DisconnectOrderly == Orderly /\ Disconnect => Orderly'
<1>1. ASSUME Orderly, Disconnect
      PROVE  Orderly'
  <2> DEFINE cut == op.at \in {"syncing", "asked", "applied"}
             failed == queue # <<>> /\ (queue[1].at \in {"syncing", "fallback"} \/ (op.by = "restore" /\ cut))
             told == IF cut THEN Told(FALSE) ELSE prompt
  <2>1. /\ hydrated /\ up' = FALSE /\ UNCHANGED <<remote, hydrated, gone, store, shown>>
        /\ op' = IF cut THEN NoOp ELSE IF op.at = "looking" THEN [op EXCEPT !.at = "reaching"] ELSE op
        /\ queue' = IF failed THEN Tail(Old(queue)) ELSE Old(queue)
        /\ prompt' = IF prompt.pc = "gathering" \/ (failed /\ "prompt" \in queue[1].awaited)
                      THEN Over(told) ELSE told
        /\ target' = IF target = NoTarget /\ shown # None
                      THEN [path |-> shown, source |-> "disconnected"] ELSE target
        /\ chosen' = IF chosen = None THEN shown ELSE chosen
        /\ leaf' = [pc |-> "none", ok |-> FALSE, marked |-> FALSE]
    <3>1. queue # <<>> => Head(queue) = queue[1]
      BY <1>1, LeafFacts
    <3> QED BY <1>1, <3>1 DEF Disconnect, shows, Old
  <2>2. /\ queue \in Seq(Restoration) /\ Len(queue) \in Nat /\ Mine(queue, target) /\ Waiting(queue)
           /\ Attended(queue, prompt)
        /\ Ordered /\ Formed /\ prompt \in Sending
    BY <1>1, LeafFacts DEF Lined
  <2>3. /\ told \in Sending /\ (prompt.pc \in {"recovering", "reconciling"} => told = prompt)
        /\ cut => told.pc # "creating"
        /\ ~cut => told = prompt
    BY <1>1, <2>2, ToldIs
  <2>4. /\ prompt' \in Sending
        /\ \/ prompt' = told
           \/ /\ prompt'.pc = "idle"
              /\ prompt.pc = "gathering" \/ (failed /\ "prompt" \in queue[1].awaited)
    <3> HIDE DEF told, failed
    <3> QED BY <2>1, <2>3, OverIs
  <2>5. /\ target' \in Target
        /\ target' # NoTarget \/ (target' = target /\ shown = None)
        /\ target' = target \/ target = NoTarget
        /\ (target' = NoTarget) <=> (target'.path = None)
    <3>1. CASE target = NoTarget /\ shown # None
      <4>1. target' = [path |-> shown, source |-> "disconnected"] /\ shown \in Paths /\ shown # None
        BY <2>1, <2>2, <3>1 DEF Formed
      <4>2. target' \in Target /\ target'.path = shown
        BY <4>1 DEF Target, Sources
      <4> QED BY <3>1, <4>1, <4>2, Worlds
    <3>2. CASE ~(target = NoTarget /\ shown # None)
      BY <2>1, <2>2, <3>2 DEF Formed, Ordered
    <3> QED BY <3>1, <3>2
  <2>6. /\ Old(queue) \in Seq(Restoration) /\ Len(Old(queue)) = Len(queue)
        /\ \A i \in 1..Len(queue) :
              /\ Old(queue)[i].path = queue[i].path /\ Old(queue)[i].source = queue[i].source
                 /\ Old(queue)[i].at = queue[i].at
              /\ Old(queue)[i].mine = queue[i].mine
              /\ Old(queue)[i].conn # "current" /\ "view" \notin Old(queue)[i].awaited
              /\ "prompt" \in Old(queue)[i].awaited <=> "prompt" \in queue[i].awaited
    BY <2>2, OldIs
  <2> DEFINE d == IF failed THEN 1 ELSE 0
  <2>7. /\ d \in {0, 1} /\ (failed <=> d = 1) /\ queue' \in Seq(Restoration)
           /\ Len(queue') = Len(queue) - d /\ Len(queue') \in Nat
        /\ \A i \in 1..Len(queue') : i + d \in 1..Len(queue) /\ queue'[i] = Old(queue)[i + d]
    <3>1. CASE failed
      <4> DEFINE o == Old(queue)
      <4> HIDE DEF o
      <4>1. o \in Seq(Restoration) /\ Len(o) = Len(queue) /\ Len(queue) > 0 /\ queue' = Tail(o) /\ d = 1
        BY <2>1, <2>2, <2>6, <3>1 DEF o
      <4>2. /\ queue' \in Seq(Restoration) /\ Len(queue') = Len(queue) - 1 /\ Len(queue') \in Nat
            /\ \A i \in 1..Len(queue') : i + 1 \in 1..Len(queue) /\ queue'[i] = o[i + 1]
        BY <2>2, <4>1
      <4> QED BY <3>1, <4>1, <4>2 DEF o
    <3>2. CASE ~failed
      BY <2>1, <2>2, <2>6, <3>2
    <3> QED BY <3>1, <3>2
  <2> HIDE DEF d
  <2>8. \A i \in 1..Len(queue') :
          /\ i + d \in 1..Len(queue)
          /\ queue'[i].path = queue[i + d].path /\ queue'[i].at = queue[i + d].at
             /\ queue'[i].mine = queue[i + d].mine
          /\ queue'[i].conn # "current" /\ "view" \notin queue'[i].awaited
          /\ "prompt" \in queue'[i].awaited <=> "prompt" \in queue[i + d].awaited
    BY <2>6, <2>7
  <2>9. Mine(queue', target')
    <3>1. ASSUME NEW i \in 1..Len(queue'), queue'[i].mine, queue'[i].path # None
          PROVE  target'.path = queue'[i].path
      <4>1. target.path = queue[i + d].path /\ target.path # None
        BY <2>2, <2>8, <3>1 DEF Mine
      <4>2. target # NoTarget
        BY <4>1, Worlds
      <4> QED BY <2>5, <2>8, <3>1, <4>1, <4>2
    <3> QED BY <3>1 DEF Mine
  <2>10. \A i \in 1..Len(queue') : i # 1 => queue'[i].at = "start"
    <3>1. ASSUME NEW i \in 1..Len(queue'), i # 1
          PROVE  i + d # 1
      BY <2>7, <3>1
    <3> QED BY <2>2, <2>8, <3>1 DEF Waiting
  <2>11. /\ ~At(queue', "syncing") /\ ~At(queue', "fallback")
         /\ At(queue', "resuming") <=> At(queue, "resuming") /\ ~failed
         /\ At(queue', "resuming") => queue'[1].path = queue[1].path
    <3>1. CASE failed
      <4>1. Len(queue') > 0 => 1 \in 1..Len(queue') /\ 1 + d # 1
        BY <2>7, <3>1
      <4>2. Len(queue') > 0 => queue'[1].at = "start"
        BY <2>2, <2>8, <4>1 DEF Waiting
      <4> QED BY <3>1, <4>2 DEF At
    <3>2. CASE ~failed
      <4>1. d = 0 /\ Len(queue') = Len(queue) /\ (Len(queue) > 0 => 1 \in 1..Len(queue') /\ queue # <<>>)
        BY <2>2, <2>7, <3>2
      <4>2. Len(queue) > 0 => queue'[1].at = queue[1].at /\ queue'[1].path = queue[1].path
              /\ queue[1].at \notin {"syncing", "fallback"}
        <5>1. ASSUME Len(queue) > 0
              PROVE  queue'[1].at = queue[1].at /\ queue'[1].path = queue[1].path
          <6>1. 1 + d = 1
            BY <4>1
          <6> QED BY <2>8, <4>1, <5>1, <6>1
        <5> QED BY <3>2, <4>1, <5>1
      <4> QED BY <3>2, <4>1, <4>2 DEF At
    <3> QED BY <3>1, <3>2
  <2>12. cut => ~At(queue', "resuming")
    BY <2>2, <2>11 DEF Ordered, At
  <2>13. Waiting(queue)'
    <3>1. At(queue', "resuming") => queue'[1].path = op'.goal /\ target' # NoTarget
      BY <2>1, <2>2, <2>5, <2>11, <2>12 DEF Waiting
    <3> QED BY <2>8, <2>10, <2>11, <3>1 DEF Waiting
  <2>14. Attended(queue', prompt')
    <3>1. ASSUME NEW i \in 1..Len(queue'), "prompt" \in queue'[i].awaited
          PROVE  prompt' = prompt /\ prompt.pc \in {"recovering", "reconciling"}
      <4>1. i + d \in 1..Len(queue) /\ "prompt" \in queue[i + d].awaited
              /\ prompt.pc \in {"recovering", "reconciling"} /\ told = prompt
        BY <2>2, <2>3, <2>8, <3>1 DEF Attended
      <4>2. ~(failed /\ "prompt" \in queue[1].awaited)
        <5>1. ASSUME failed, "prompt" \in queue[1].awaited
              PROVE  FALSE
          <6>1. i + d # 1 /\ 1 \in 1..Len(queue)
            BY <2>2, <2>7, <3>1, <5>1
          <6> QED BY <2>2, <4>1, <5>1, <6>1 DEF Attended
        <5> QED BY <5>1
      <4> QED BY <2>1, <4>1, <4>2
    <3>2. ASSUME NEW i \in 1..Len(queue'), NEW j \in 1..Len(queue'), "prompt" \in queue'[i].awaited,
                 "prompt" \in queue'[j].awaited
          PROVE  i = j
      <4>1. i + d = j + d
        BY <2>2, <2>8, <3>2 DEF Attended
      <4> QED BY <2>7, <3>2, <4>1
    <3> QED BY <3>1, <3>2 DEF Attended
  <2>15. leaf' \in Leaf /\ leaf'.pc = "none" /\ ~leaf'.marked
    BY <2>1 DEF Leaf
  <2>16. op' \in Operation /\ chosen' \in Paths
    <3> HIDE DEF cut
    <3>1. op \in Operation /\ [op EXCEPT !.at = "reaching"] \in Operation
      BY <1>1, LeafFacts DEF Operation
    <3> QED BY <2>1, <2>2, <3>1, Worlds DEF Formed
  <2>17. Formed'
    BY <2>1, <2>2, <2>4, <2>5, <2>7, <2>15, <2>16 DEF Formed
  <2>18. Ordered'
    <3>1. CASE cut
      <4>1. op' = NoOp /\ prompt'.pc # "creating"
        BY <2>1, <2>3, <2>4, <3>1
      <4> QED BY <1>1, <2>5, <2>12, <2>17, <3>1, <4>1, OrderedDone DEF Formed
    <3>2. CASE ~cut
      <4>1. /\ op.at \notin {"syncing", "asked", "applied"} /\ told = prompt
            /\ \/ op.at # "looking" /\ op' = op
               \/ op.at = "looking" /\ op' = [op EXCEPT !.at = "reaching"]
        BY <2>1, <3>2
      <4>5. /\ op'.by = op.by /\ op'.goal = op.goal /\ ((op' = NoOp) <=> (op = NoOp))
            /\ op'.at \notin {"looking", "syncing", "asked", "applied"}
            /\ op'.at = op.at \/ (op.at = "looking" /\ op'.at = "reaching")
        <5>1. op \in Operation /\ NoOp.at = "none"
          BY <1>1, LeafFacts, Worlds
        <5> QED BY <4>1, <5>1 DEF Operation
      <4>2. At(queue', "resuming") <=> At(queue, "resuming")
        BY <2>11, <3>2 DEF At
      <4>3. prompt'.pc = "creating" <=> prompt.pc = "creating"
        <5>1. ASSUME failed, "prompt" \in queue[1].awaited
              PROVE  prompt.pc # "creating"
          <6>1. 1 \in 1..Len(queue)
            BY <2>2, <5>1
          <6> QED BY <2>2, <5>1, <6>1 DEF Attended
        <5> QED BY <2>4, <4>1, <5>1
      <4>4. (target' = NoTarget) <=> (target'.path = None)
        BY <2>5
      <4> QED BY <2>1, <2>2, <4>2, <4>3, <4>4, <4>5, Worlds DEF Ordered
    <3> QED BY <3>1, <3>2
  <2>19. Marked'
    BY <2>1, <2>15 DEF Marked
  <2> QED BY <2>9, <2>13, <2>14, <2>17, <2>18, <2>19 DEF Orderly, Lined
<1> QED BY <1>1

(* Only the prompt changes, which awaits neither restoration nor operation.*)
LEMMA PromptMoves ==
  ASSUME Orderly, UNCHANGED <<up, remote, hydrated, gone, store, shown, target, queue, op, leaf>>,
         chosen' \in Paths,
         prompt' \in Sending, prompt.pc \notin {"recovering", "reconciling", "creating"},
         prompt'.pc # "creating"
  PROVE  Orderly'
<1>1. Formed'
  BY LeafFacts DEF Formed
<1>2. Lined' /\ (At(queue, "resuming")' <=> At(queue, "resuming"))
  BY QueueStays
<1>3. Ordered'
  <2>1. op.by = "prompt" <=> prompt'.pc = "creating"
    BY LeafFacts DEF Ordered
  <2> QED BY <1>2, <2>1, OrderedOn
<1> QED BY <1>1, <1>2, <1>3, MarkedStays DEF Orderly

(* The prompt awaits a restoration.                                        *)
LEMMA PromptJoins ==
  ASSUME Orderly, UNCHANGED <<up, remote, hydrated, gone, store, shown, target, op, leaf, chosen>>,
         prompt' \in Sending, prompt.pc \notin {"recovering", "reconciling", "creating"},
         prompt'.pc \in {"recovering", "reconciling"},
         (queue # <<>> /\ queue' = Joined({"prompt"})) \/ queue' = Begun("none", {"prompt"})
  PROVE  Orderly'
<1>1. queue' \in Seq(Restoration) /\ Lined' /\ (At(queue, "resuming")' <=> At(queue, "resuming"))
  BY QueueGrows
<1>2. Formed'
  BY <1>1, LeafFacts DEF Formed
<1>3. Ordered'
  <2>1. op.by = "prompt" <=> prompt'.pc = "creating"
    BY LeafFacts DEF Ordered
  <2> QED BY <1>1, <2>1, OrderedOn
<1> QED BY <1>1, <1>2, <1>3, MarkedStays DEF Orderly

LEMMA PromptOrderly == Orderly /\ Prompt => Orderly'
<1>1. ASSUME Orderly, Prompt
      PROVE  Orderly'
  <2>1. /\ prompt.pc = "idle" /\ prompt' = [prompt EXCEPT !.pc = "connecting"]
        /\ UNCHANGED <<up, remote, hydrated, gone, store, shown, target, queue, op, leaf, chosen>>
    BY <1>1 DEF Prompt, world, shows
  <2>2. prompt' \in Sending /\ prompt'.pc = "connecting" /\ chosen' \in Paths
    BY <1>1, <2>1, LeafFacts DEF Sending
  <2> QED BY <1>1, <2>1, <2>2, PromptMoves
<1> QED BY <1>1

LEMMA ConnectedOrderly == Orderly /\ Connected => Orderly'
<1>1. ASSUME Orderly, Connected
      PROVE  Orderly'
  <2>1. /\ prompt.pc = "connecting"
        /\ UNCHANGED <<up, remote, hydrated, gone, store, shown, target, op, leaf, chosen>>
        /\ \/ prompt' = Over(prompt) /\ UNCHANGED queue
           \/ prompt' = [prompt EXCEPT !.pc = "targeting"] /\ UNCHANGED queue
           \/ queue # <<>> /\ queue' = Joined({"prompt"}) /\ prompt' = [prompt EXCEPT !.pc = "recovering"]
    BY <1>1 DEF Connected, world, shows, Joined
  <2>2. prompt \in Sending /\ chosen' \in Paths
    BY <1>1, <2>1, LeafFacts
  <2>3. CASE prompt' = Over(prompt) /\ UNCHANGED queue
    <3>1. prompt' \in Sending /\ prompt'.pc = "idle"
      BY <2>2, <2>3, OverIs
    <3> QED BY <1>1, <2>1, <2>2, <2>3, <3>1, PromptMoves
  <2>4. CASE prompt' = [prompt EXCEPT !.pc = "targeting"] /\ UNCHANGED queue
    <3>1. prompt' \in Sending /\ prompt'.pc = "targeting"
      BY <2>2, <2>4 DEF Sending
    <3> QED BY <1>1, <2>1, <2>2, <2>4, <3>1, PromptMoves
  <2>5. CASE queue # <<>> /\ queue' = Joined({"prompt"}) /\ prompt' = [prompt EXCEPT !.pc = "recovering"]
    <3>1. prompt' \in Sending /\ prompt'.pc = "recovering"
      BY <2>2, <2>5 DEF Sending
    <3> QED BY <1>1, <2>1, <2>5, <3>1, PromptJoins
  <2> QED BY <2>1, <2>3, <2>4, <2>5
<1> QED BY <1>1

LEMMA TargetingOrderly == Orderly /\ Targeting => Orderly'
<1>1. ASSUME Orderly, Targeting
      PROVE  Orderly'
  <2>1. /\ prompt.pc = "targeting"
           /\ prompt' = [prompt EXCEPT !.pc =
                            IF op.by \in {"none", "other"} THEN "ensuring" ELSE "awaiting"]
        /\ UNCHANGED <<up, remote, hydrated, gone, store, shown, target, queue, op, leaf, chosen>>
    BY <1>1 DEF Targeting, world, shows
  <2>2. prompt' \in Sending /\ prompt'.pc \in {"ensuring", "awaiting"} /\ chosen' \in Paths
    BY <1>1, <2>1, LeafFacts DEF Sending
  <2> QED BY <1>1, <2>1, <2>2, PromptMoves
<1> QED BY <1>1

LEMMA EnsuringOrderly == Orderly /\ Ensuring => Orderly'
<1>1. ASSUME Orderly, Ensuring
      PROVE  Orderly'
  <2>1. /\ prompt.pc = "ensuring"
        /\ UNCHANGED <<up, remote, hydrated, gone, store, shown, target, leaf, chosen>>
        /\ \/ queue' = Reconciled("none", {"prompt"})
              /\ prompt' = [prompt EXCEPT !.pc = "reconciling"] /\ UNCHANGED op
           \/ prompt' = Over(prompt) /\ UNCHANGED <<queue, op>>
           \/ op = NoOp /\ Hold("prompt", "none", New) /\ prompt' = [prompt EXCEPT !.pc = "creating"]
              /\ UNCHANGED queue
    BY <1>1 DEF Ensuring, world, shows
  <2>2. prompt \in Sending /\ chosen' \in Paths
    BY <1>1, <2>1, LeafFacts
  <2>3. CASE queue' = Reconciled("none", {"prompt"}) /\ prompt' = [prompt EXCEPT !.pc = "reconciling"]
          /\ UNCHANGED op
    <3>1. prompt' \in Sending /\ prompt'.pc = "reconciling"
      BY <2>2, <2>3 DEF Sending
    <3>2. (queue # <<>> /\ queue' = Joined({"prompt"})) \/ queue' = Begun("none", {"prompt"})
      BY <1>1, <2>3, ReconciledIs
    <3> QED BY <1>1, <2>1, <2>3, <3>1, <3>2, PromptJoins
  <2>4. CASE prompt' = Over(prompt) /\ UNCHANGED <<queue, op>>
    <3>1. prompt' \in Sending /\ prompt'.pc = "idle"
      BY <2>2, <2>4, OverIs
    <3> QED BY <1>1, <2>1, <2>2, <2>4, <3>1, PromptMoves
  <2>5. CASE op = NoOp /\ Hold("prompt", "none", New) /\ prompt' = [prompt EXCEPT !.pc = "creating"]
          /\ UNCHANGED queue
    <3>1. prompt' \in Sending /\ prompt'.pc = "creating" /\ op.by = "none"
      BY <2>2, <2>5, Worlds DEF Sending
    <3>2. /\ op' \in Operation /\ op'.by = "prompt" /\ op'.goal # None /\ op' # NoOp
          /\ op'.at \in {"reaching", "looking", "syncing"} /\ (op'.at = "reaching" <=> ~up)
      BY <1>1, <2>5, HoldIs, Worlds
    <3> QED BY <1>1, <2>1, <2>5, <3>1, <3>2, OpTurns
  <2> QED BY <2>1, <2>3, <2>4, <2>5
<1> QED BY <1>1

LEMMA PlacingOrderly == Orderly /\ Placing => Orderly'
<1>1. ASSUME Orderly, Placing
      PROVE  Orderly'
  <2>1. /\ prompt.pc = "placing"
        /\ UNCHANGED <<up, remote, hydrated, gone, store, shown, target, queue, leaf, chosen>>
        /\ \/ op = NoOp /\ Hold("prompt", "none", New) /\ prompt' = [prompt EXCEPT !.pc = "creating"]
           \/ prompt' = Gather(prompt, store) /\ UNCHANGED op
    BY <1>1 DEF Placing, world, shows
  <2>2. prompt \in Sending /\ chosen' \in Paths /\ store \in Paths
    BY <1>1, <2>1, LeafFacts
  <2>3. CASE op = NoOp /\ Hold("prompt", "none", New) /\ prompt' = [prompt EXCEPT !.pc = "creating"]
    <3>1. prompt' \in Sending /\ prompt'.pc = "creating" /\ op.by = "none"
      BY <2>2, <2>3, Worlds DEF Sending
    <3>2. /\ op' \in Operation /\ op'.by = "prompt" /\ op'.goal # None /\ op' # NoOp
          /\ op'.at \in {"reaching", "looking", "syncing"} /\ (op'.at = "reaching" <=> ~up)
      BY <1>1, <2>3, HoldIs, Worlds
    <3> QED BY <1>1, <2>1, <2>3, <3>1, <3>2, OpTurns
  <2>4. CASE prompt' = Gather(prompt, store) /\ UNCHANGED op
    <3>1. prompt' \in Sending /\ prompt'.pc # "creating"
      BY <2>2, <2>4, GatherIs
    <3> QED BY <1>1, <2>1, <2>2, <2>4, <3>1, PromptMoves
  <2> QED BY <2>1, <2>3, <2>4
<1> QED BY <1>1

LEMMA SendPromptOrderly == Orderly /\ SendPrompt => Orderly'
<1>1. ASSUME Orderly, SendPrompt
      PROVE  Orderly'
  <2>1. prompt.pc = "gathering"
          /\ UNCHANGED <<up, remote, hydrated, gone, store, shown, target, queue, op, leaf>>
    BY <1>1 DEF SendPrompt, world, shows
  <2>2. prompt \in Sending /\ chosen \in Paths /\ prompt.strayed \in BOOLEAN
    BY <1>1, LeafFacts DEF Sending
  <2>3. CASE prompt' = Over(prompt) /\ UNCHANGED chosen
    <3>1. prompt' \in Sending /\ prompt'.pc = "idle"
      BY <2>2, <2>3, OverIs
    <3> QED BY <1>1, <2>1, <2>2, <2>3, <3>1, PromptMoves
  <2>4. ASSUME NEW s \in {remote} \cup (IF op.at = "asked" THEN {op.goal} ELSE {}),
               chosen' = IF chosen = None THEN s ELSE chosen,
               prompt' = [pc |-> "idle", of |-> None, strayed |-> prompt.strayed \/ s # chosen']
        PROVE  Orderly'
    <3>1. s \in Paths /\ chosen' \in Paths
      BY <1>1, <2>2, <2>4, LeafFacts, Worlds
    <3>2. prompt' \in Sending /\ prompt'.pc = "idle"
      BY <2>2, <2>4, Worlds DEF Sending
    <3> QED BY <1>1, <2>1, <3>1, <3>2, PromptMoves
  <2> QED BY <1>1, <2>3, <2>4 DEF SendPrompt
<1> QED BY <1>1

LEMMA NextOrderly == Orderly /\ [SessionNext]_sessionVars => Orderly'
<1>1. ASSUME Orderly, SessionNext
      PROVE  Orderly'
  <2>1. CASE StartHead \/ Targeting \/ Ensuring \/ Placing
    BY <1>1, <2>1, StartHeadOrderly, TargetingOrderly, EnsuringOrderly, PlacingOrderly
  <2>2. CASE HeadSyncs \/ ViewSyncs \/ Flush \/ Connected \/ SendPrompt
    BY <1>1, <2>2, HeadSyncsOrderly, ViewSyncsOrderly, FlushOrderly, ConnectedOrderly, SendPromptOrderly
  <2>3. CASE Unreached \/ Looks \/ OpSyncs \/ Apply \/ Refuse \/ Decline \/ Result \/ SessionSettled
    BY <1>1, <2>3, UnreachedOrderly, LooksOrderly, OpSyncsOrderly, ApplyOrderly, RefuseOrderly, DeclineOrderly,
       ResultOrderly, SettledOrderly
  <2>4. CASE (\E s \in Stored \cup {None} : Hydrate(s)) \/ (\E s \in Sessions : Choose(s)) \/ (\E s \in Stored : Delete(s))
    BY <1>1, <2>4, HydrateOrderly, ChooseOrderly, DeleteOrderly
  <2>5. CASE Activate \/ OtherBegins \/ OtherEnds \/ Connect \/ Disconnect \/ Prompt
    BY <1>1, <2>5, ActivateOrderly, OthersOrderly, ConnectOrderly, DisconnectOrderly, PromptOrderly
  <2> QED BY <1>1, <2>1, <2>2, <2>3, <2>4, <2>5 DEF SessionNext, Continue, Work
<1>2. ASSUME Orderly, UNCHANGED sessionVars
      PROVE  Orderly'
  BY <1>2 DEF sessionVars, Orderly, Formed, Ordered, Lined, Mine, Waiting, Attended, Marked, At
<1> QED BY <1>1, <1>2

(* Restorations end in their order, operations exclude each other, and a   *)
(* prompt awaits what is under way for it, whatever the user does.         *)
THEOREM OrderlyAlways == SessionSpec => []Orderly
<1> QED BY InitOrderly, NextOrderly, PTL DEF SessionSpec

(* What crosses the choices of the user is written down once.              *)
Noted == upset \in {"none"} \cup Upsets

LEMMA UpsetStays == SessionNext => upset' = upset \/ (Undisturbed /\ upset' \in Upsets)
<1>1. {"competing", "overtaken", "stale", "undrawn"} \subseteq Upsets
  BY DEF Upsets
<1>2. ASSUME NEW how \in Upsets, NEW crosses, Crossed(how, crosses)
      PROVE  upset' = upset \/ (Undisturbed /\ upset' \in Upsets)
  BY <1>2 DEF Crossed
<1>3. StartHead \/ Targeting \/ Ensuring => upset' = upset
  BY DEF StartHead, Targeting, Ensuring
<1>4. Placing => upset' = upset \/ (Undisturbed /\ upset' \in Upsets)
  BY <1>1, <1>2 DEF Placing
<1>5. HeadSyncs \/ ViewSyncs \/ Connected \/ SendPrompt => upset' = upset
  BY DEF HeadSyncs, ViewSyncs, Connected, SendPrompt
<1>6. Unreached \/ Looks \/ OpSyncs \/ Apply \/ Refuse \/ Decline => upset' = upset
  BY DEF Unreached, Looks, OpSyncs, Apply, Refuse, Decline
<1>7. Result \/ SessionSettled \/ Flush => upset' = upset \/ (Undisturbed /\ upset' \in Upsets)
  BY <1>1, <1>2 DEF Result, SessionSettled, Flush
<1>8. ASSUME NEW s, Hydrate(s) \/ Choose(s) \/ Delete(s)
      PROVE  upset' = upset \/ (Undisturbed /\ upset' \in Upsets)
  BY <1>1, <1>2, <1>8 DEF Hydrate, Choose, Delete
<1>9. Activate \/ OtherBegins \/ OtherEnds \/ Connect \/ Prompt => upset' = upset
  BY DEF Activate, OtherBegins, OtherEnds, Connect, Prompt
<1>10. Disconnect => upset' = upset \/ (Undisturbed /\ upset' \in Upsets)
  BY <1>1, <1>2 DEF Disconnect
<1> QED BY <1>3, <1>4, <1>5, <1>6, <1>7, <1>8, <1>9, <1>10 DEF SessionNext, Continue, Work

LEMMA NotedAlways == SessionSpec => []Noted
<1>1. SessionInit => Noted
  BY DEF SessionInit, Noted
<1>2. Noted /\ [SessionNext]_sessionVars => Noted'
  BY UpsetStays DEF Noted, sessionVars
<1> QED BY <1>1, <1>2, PTL DEF SessionSpec

LEMMA OrderlyTyped == Orderly /\ Noted => SessionTypeOK
<1>1. ASSUME Orderly, Noted
      PROVE  SessionTypeOK
  <2>1. /\ Formed /\ Ordered /\ Waiting(queue) /\ queue \in Seq(Restoration)
           /\ DOMAIN queue = 1..Len(queue) /\ Len(queue) \in Nat
    BY <1>1, LeafFacts DEF Lined
  <2>2. {up, hydrated, leaf.ok, leaf.marked} \subseteq BOOLEAN
    BY <2>1 DEF Formed, Leaf
  <2>3. /\ remote \in Sessions /\ {store, shown, chosen} \subseteq Sessions \cup {None}
        /\ target.path \in Sessions \cup {None} /\ target.source \in {"none", "pending", "disconnected"}
    BY <2>1 DEF Formed, Target, Paths, Sources
  <2>4. ASSUME NEW i \in DOMAIN queue
        PROVE  /\ queue[i].path \in Sessions \cup {None} /\ queue[i].mine \in BOOLEAN
               /\ queue[i].conn \in {"none", "current", "old"}
               /\ queue[i].at \in {"start"} \cup IF i = 1 THEN {"syncing", "resuming", "fallback"} ELSE {}
               /\ queue[i].awaited \subseteq {"view", "prompt"}
               /\ queue[i].conn = "current" => up
    <3>1. i \in 1..Len(queue) /\ queue[i] \in Restoration
      BY <2>1, <2>4
    <3>2. (i # 1 => queue[i].at = "start") /\ (queue[i].conn = "current" => up)
      BY <2>1, <3>1 DEF Waiting
    <3> QED BY <3>1, <3>2, RestorationIs DEF Paths
  <2>5. /\ op.by \in {"none", "user", "prompt", "restore", "other"}
        /\ op.at \in {"none", "reaching", "looking", "syncing", "asked", "applied", "settling", "running"}
    BY <2>1 DEF Formed, Operation
  <2>6. op.by = "restore" <=> queue # <<>> /\ Head(queue).at = "resuming"
    <3>1. queue # <<>> <=> Len(queue) > 0
      BY <2>1
    <3>2. queue # <<>> => Head(queue) = queue[1]
      BY <2>1
    <3> QED BY <2>1, <3>1, <3>2 DEF Ordered, At
  <2>7. /\ leaf.pc \in {"none", "restoring", "syncing"}
        /\ prompt.pc \in {"idle", "connecting", "recovering", "targeting", "awaiting", "ensuring",
                          "creating", "reconciling", "placing", "gathering"}
        /\ prompt.of \in Sessions \cup {None} /\ prompt.strayed \in BOOLEAN
        /\ gone \subseteq Stored /\ upset \in {"none"} \cup Upsets
    BY <1>1, <2>1 DEF Formed, Leaf, Sending, Paths, Noted
  <2> QED BY <2>2, <2>3, <2>4, <2>5, <2>6, <2>7 DEF SessionTypeOK
<1> QED BY <1>1

LEMMA OrderlyMarked == Orderly => MarkedSound
<1>1. ASSUME Orderly
      PROVE  MarkedSound
  <2>1. Marked /\ up \in BOOLEAN
    BY <1>1, LeafFacts
  <2> QED BY <2>1 DEF Marked, MarkedSound
<1> QED BY <1>1

(* The leaf, its restorations and the prompt keep their types.             *)
THEOREM SessionTypeCorrect == SessionSpec => []SessionTypeOK
<1> QED BY OrderlyAlways, NotedAlways, OrderlyTyped, PTL

(* The user is told that the connection is restored only when the session  *)
(* shown before it was lost is back, whatever happens meanwhile.           *)
THEOREM MarkedAlways == SessionSpec => []MarkedSound
<1> QED BY OrderlyAlways, OrderlyMarked, PTL

-----------------------------------------------------------------------------
(* Every step keeps what is owed.                                          *)

LEMMA InitSteady == SessionInit => Steady
<1>1. ASSUME SessionInit
      PROVE  Steady
  <2>1. /\ up = FALSE /\ remote = Boot /\ store = None /\ shown = None /\ target = NoTarget
           /\ queue = <<>> /\ op = NoOp
        /\ prompt.pc = "idle" /\ ~prompt.strayed /\ chosen = None /\ hydrated = FALSE
    BY <1>1 DEF SessionInit
  <2>2. op.by = "none" /\ op.at = "none" /\ ~Choosing
    BY <2>1, Worlds DEF Choosing
  <2> QED BY <2>1, <2>2 DEF Steady, Owing, Down, Placed
<1> QED BY <1>1

(* What the prompt may come to while nothing else of it changes            *)
LEMMA SteadyKept ==
  ASSUME Steady, UNCHANGED <<up, remote, hydrated, store, shown, chosen, target, op>>,
         prompt'.strayed = prompt.strayed,
         \/ prompt' = prompt
         \/ prompt'.pc = "idle"
         \/ /\ hydrated /\ (prompt'.pc = "gathering" => up)
            /\ prompt'.pc \in {"ensuring", "reconciling", "placing", "gathering"} => op.by # "user"
            /\ prompt'.pc \in {"placing", "gathering"} => target = NoTarget /\ op.by \in {"none", "other"}
            /\ prompt'.pc \in {"reconciling", "placing", "gathering"} => shown # None
  PROVE  Steady'
<1>1. Owing'
  BY DEF Steady, Owing
<1>2. Down'
  BY DEF Steady, Down
<1>3. Placed'
  BY DEF Steady, Placed, Choosing
<1> QED BY <1>1, <1>2, <1>3 DEF Steady

(* A restoration fails.                                                    *)
LEMMA FailIs ==
  ASSUME Orderly, queue # <<>>, Fail
  PROVE  /\ target' = target /\ prompt'.strayed = prompt.strayed
         /\ prompt' = prompt \/ prompt'.pc = "idle" \/ (prompt'.pc = "targeting" /\ prompt.pc # "idle")
<1>1. target' = target /\ Settle(prompt, queue, FALSE)
  BY DEF Fail
<1>2. /\ prompt \in Sending /\ leaf \in Leaf /\ queue \in Seq(Restoration) /\ Attended(queue, prompt)
         /\ 1 \in 1..Len(queue)
      /\ None \in Paths
  BY LeafFacts, Worlds DEF Lined
<1>3. /\ prompt'.strayed = prompt.strayed
      /\ "prompt" \notin queue[1].awaited => prompt' = prompt
      /\ "prompt" \in queue[1].awaited => prompt'.pc \in {"idle", "targeting"}
  BY <1>1, <1>2, SettleIs
<1>4. "prompt" \in queue[1].awaited => prompt.pc # "idle"
  BY <1>2 DEF Attended
<1> QED BY <1>1, <1>3, <1>4

LEMMA FailSteady ==
  ASSUME Orderly, Steady, queue # <<>>, Fail, UNCHANGED <<up, remote, hydrated, store, shown, chosen, op>>
  PROVE  Steady'
<1>1. /\ target' = target /\ prompt'.strayed = prompt.strayed
      /\ prompt' = prompt \/ prompt'.pc = "idle" \/ (prompt'.pc = "targeting" /\ prompt.pc # "idle")
  BY FailIs
<1>2. prompt.pc # "idle" => hydrated
  BY DEF Steady, Owing
<1> QED BY <1>1, <1>2, SteadyKept

LEMMA StartHeadSteady == Orderly /\ Steady /\ StartHead => Steady'
<1>1. ASSUME Orderly, Steady, StartHead
      PROVE  Steady'
  <2>1. /\ queue # <<>> /\ queue[1].at = "start" /\ Head(queue) = queue[1] /\ 1 \in 1..Len(queue)
        /\ Mine(queue, target) /\ Waiting(queue)
        /\ UNCHANGED <<up, remote, hydrated, gone, store, shown, chosen>>
    <3>1. /\ queue # <<>> /\ queue[1].at = "start" /\ Head(queue) = queue[1]
          /\ UNCHANGED <<up, remote, hydrated, gone, store, shown, chosen>>
      BY <1>1 DEF StartHead, world, shows
    <3>2. 1 \in 1..Len(queue)
      BY <1>1, <3>1, LeafFacts
    <3> QED BY <1>1, <3>1, <3>2, LeafFacts DEF Lined
  <2>2. /\ prompt.pc # "idle" => hydrated
        /\ prompt.pc = "reconciling" => op.by \in {"none", "other"} /\ shown # None
    BY <1>1, <2>1, LeafFacts DEF Steady, Owing, Ordered, At
  <2>3. CASE Fail /\ UNCHANGED op
    BY <1>1, <2>1, <2>3, FailSteady
  <2>4. CASE queue[1].path = None /\ ~up /\ FinishRestore(prompt) /\ UNCHANGED op
    <3>1. prompt \in Sending /\ store \in Paths /\ Ends(prompt)
      BY <1>1, <2>4, LeafFacts DEF Ends
    <3>2. /\ target' = target \/ (target' = NoTarget /\ Current(queue[1]))
          /\ prompt'.strayed = prompt.strayed
          /\ \/ prompt' = prompt
             \/ /\ prompt.pc \in {"recovering", "reconciling"}
                /\ prompt'.pc \in {"idle", "targeting", "placing"}
                /\ prompt'.pc = "placing" => target' = NoTarget /\ prompt.pc = "reconciling"
      BY <1>1, <2>1, <3>1, EndsIs
    <3>3. target' = target
      BY <2>4, <3>2 DEF Current, Same
    <3> QED BY <1>1, <2>1, <2>2, <2>4, <3>2, <3>3, SteadyKept
  <2>5. CASE queue' = [queue EXCEPT ![1].at = "syncing"] /\ UNCHANGED <<target, op, prompt, leaf>>
    BY <1>1, <2>1, <2>5, SteadyKept
  <2>6. CASE /\ Current(queue[1]) /\ queue[1].path # None /\ op = NoOp
          /\ Hold("restore", queue[1].conn, queue[1].path)
             /\ UNCHANGED <<target, prompt, leaf>>
    <3>1. target # NoTarget /\ (queue[1].conn # "none" => up)
      <4>1. queue[1].mine /\ queue[1].conn # "old"
        BY <2>6 DEF Current, Same
      <4>2. target.path = queue[1].path
        BY <2>1, <2>6, <4>1 DEF Mine
      <4>3. queue[1].conn = "current" => up
        BY <2>1 DEF Waiting
      <4>4. queue[1].conn \in {"none", "current", "old"}
        BY <1>1, <2>1, LeafFacts, RestorationIs
      <4> QED BY <2>6, <4>1, <4>2, <4>3, <4>4, Worlds
    <3>2. op'.by = "restore" /\ op'.at \in {"syncing", "reaching"} /\ (op'.at = "syncing" <=> up)
      BY <2>6, <3>1 DEF Hold
    <3>3. ~Choosing'
      BY <3>2 DEF Choosing
    <3>4. Owing'
      BY <1>1, <2>1, <2>6, <3>1, <3>2 DEF Steady, Owing
    <3>5. Down'
      BY <1>1, <2>1, <2>6, <3>1, <3>2 DEF Steady, Down
    <3>6. Placed'
      BY <1>1, <2>1, <2>6, <3>1, <3>2, <3>3 DEF Steady, Placed
    <3> QED BY <3>4, <3>5, <3>6 DEF Steady
  <2> QED
    <3>1. \/ Fail /\ UNCHANGED op
          \/ queue' = [queue EXCEPT ![1].at = "syncing"] /\ UNCHANGED <<target, op, prompt, leaf>>
          \/ queue[1].path = None /\ ~up /\ FinishRestore(prompt) /\ UNCHANGED op
          \/ /\ Current(queue[1]) /\ queue[1].path # None /\ op = NoOp
                /\ Hold("restore", queue[1].conn, queue[1].path)
             /\ UNCHANGED <<target, prompt, leaf>>
      BY <1>1, <2>1 DEF StartHead
    <3> QED BY <2>3, <2>4, <2>5, <2>6, <3>1
<1> QED BY <1>1

(* The projection comes to what the runtime has.                           *)
LEMMA SyncSteady ==
  ASSUME Orderly, Steady, up, store' = remote, UNCHANGED <<up, remote, hydrated, shown, op>>,
         \/ target' = target /\ chosen' = chosen
         \/ target' = NoTarget /\ chosen' = None,
         prompt'.strayed = prompt.strayed,
         \/ prompt' = prompt
         \/ prompt'.pc = "idle"
         \/ prompt'.pc = "targeting" /\ prompt.pc # "idle"
         \/ prompt'.pc = "placing" /\ prompt.pc = "reconciling" /\ target' = NoTarget /\ op.by # "restore"
  PROVE  Steady'
<1>1. /\ remote # None /\ remote \in Sessions /\ store \in Paths
      /\ op.by \in {"none", "user", "prompt", "restore", "other"}
      /\ op.by = "prompt" <=> prompt.pc = "creating"
      /\ op.by \in {"user", "prompt"} => op.goal # None
  BY LeafFacts, Worlds DEF Ordered
<1>2. Owing'
  BY <1>1 DEF Steady, Owing
<1>3. Down'
  BY DEF Down
<1>4. /\ target' # NoTarget => chosen' = target'.path
      /\ up' /\ target' = NoTarget /\ ~Choosing' => store' \in {None, remote'} /\ chosen' \in {None, store'}
  BY <1>1 DEF Steady, Placed, Choosing
<1>5. op'.by \in {"user", "prompt"} /\ op'.at # "settling" /\ target' = NoTarget /\ shown' = op'.goal =>
        store' = op'.goal \/ chosen' = None
  BY <1>1 DEF Steady, Placed, Choosing
<1>6. Choosing' /\ target' = NoTarget => chosen' \in {None, store'} \/ (store' = op'.goal /\ shown' # store')
  BY <1>1, <1>5 DEF Steady, Placed, Choosing
<1>7. /\ op'.by = "prompt" /\ op'.at # "settling" /\ target' = NoTarget =>
           chosen' \in Elsewhere \cup {None, op'.goal}
      /\ op'.at = "applied" => remote' = op'.goal
      /\ op'.by = "restore" => op'.at # "looking" /\ (op'.at = "settling" => remote' = op'.goal /\ store' = op'.goal)
      /\ store' = None => shown' = None
      /\ shown' = None /\ target' = NoTarget => chosen' = None
  BY <1>1 DEF Steady, Placed
<1> QED BY <1>2, <1>3, <1>4, <1>5, <1>6, <1>7 DEF Steady, Placed

LEMMA HeadSyncsSteady == Orderly /\ Steady /\ HeadSyncs => Steady'
<1>1. ASSUME Orderly, Steady, HeadSyncs
      PROVE  Steady'
  <2>1. /\ queue # <<>> /\ queue[1].at \in {"syncing", "fallback"} /\ Head(queue) = queue[1]
        /\ UNCHANGED <<up, remote, hydrated, gone, shown, op>>
    BY <1>1, LeafFacts DEF HeadSyncs, world
  <2>2. up /\ op.by # "restore" /\ (queue[1].at = "syncing" => queue[1].path = None)
    BY <1>1, <2>1, LeafFacts DEF Lined, Waiting, At, Ordered
  <2>3. CASE /\ store' = remote
             /\ FinishRestore(prompt)
             /\ chosen' = IF queue[1].at = "fallback" /\ Current(queue[1]) THEN None ELSE chosen
    <3>1. prompt \in Sending /\ remote \in Paths /\ Ends(prompt)
      BY <1>1, <2>3, LeafFacts, Worlds DEF Ends
    <3>2. /\ prompt'.strayed = prompt.strayed
          /\ \/ prompt' = prompt
             \/ /\ prompt.pc \in {"recovering", "reconciling"}
                /\ prompt'.pc \in {"idle", "targeting", "placing"}
                /\ prompt'.pc = "placing" => target' = NoTarget /\ prompt.pc = "reconciling"
      BY <1>1, <2>1, <3>1, EndsIs
    <3>3. target' = IF Current(queue[1]) THEN NoTarget ELSE target
      BY <2>1, <2>3 DEF FinishRestore
    <3>4. \/ target' = target /\ chosen' = chosen
          \/ target' = NoTarget /\ chosen' = None
      BY <2>1, <2>2, <2>3, <3>3 DEF Current, Same
    <3> QED BY <1>1, <2>1, <2>2, <2>3, <3>2, <3>4, SyncSteady
  <2>4. CASE Fail /\ UNCHANGED <<store, chosen>>
    BY <1>1, <2>1, <2>4, FailSteady
  <2> QED BY <1>1, <2>1, <2>3, <2>4 DEF HeadSyncs
<1> QED BY <1>1

LEMMA ViewSyncsSteady == Orderly /\ Steady /\ ViewSyncs => Steady'
<1>1. ASSUME Orderly, Steady, ViewSyncs
      PROVE  Steady'
  <2>1. /\ leaf.pc = "syncing" /\ store' \in {remote, store}
        /\ UNCHANGED <<up, remote, hydrated, gone, shown, chosen, target, queue, op, prompt>>
    BY <1>1 DEF ViewSyncs, world
  <2>2. up
    BY <1>1, <2>1, LeafFacts DEF Marked
  <2>3. CASE store' = remote
    BY <1>1, <2>1, <2>2, <2>3, SyncSteady
  <2>4. CASE store' = store
    BY <1>1, <2>1, <2>4, SteadyKept
  <2> QED BY <2>1, <2>3, <2>4
<1> QED BY <1>1

(* An operation fails; what the projection shows then is what the runtime  *)
(* has, unless something is owed.                                          *)
LEMMA OpFailsSteady ==
  ASSUME Orderly, Steady, NEW missing \in BOOLEAN, OpFails(missing), missing => up,
         UNCHANGED <<up, remote, hydrated, shown, chosen>>,
         store' = store \/ (up /\ store' = remote) \/ (up /\ store' # None /\ target # NoTarget),
         up /\ target = NoTarget => store' \in {None, remote} /\ chosen \in {None, store'}
  PROVE  Steady'
<1>1. /\ op' = NoOp /\ target' = target /\ prompt'.strayed = prompt.strayed
      /\ prompt' = prompt \/ prompt'.pc = "idle" \/ (prompt'.pc = "targeting" /\ prompt.pc # "idle")
  BY OpFailsIs
<1>2. op'.by = "none" /\ op'.at = "none" /\ ~Choosing'
  BY <1>1, Worlds DEF Choosing
<1>3. remote # None
  BY LeafFacts, Worlds
<1>4. store' = store \/ (up /\ store' # None)
  BY <1>3
<1>5. Owing'
  BY <1>1, <1>2, <1>4 DEF Steady, Owing
<1>6. Down'
  BY <1>1, <1>2, <1>4 DEF Steady, Down
<1>7. Placed'
  BY <1>1, <1>2, <1>4 DEF Steady, Placed
<1> QED BY <1>5, <1>6, <1>7 DEF Steady

LEMMA UnreachedSteady == Orderly /\ Steady /\ Unreached => Steady'
<1>1. ASSUME Orderly, Steady, Unreached
      PROVE  Steady'
  <2>1. op.at = "reaching" /\ OpFails(FALSE) /\ UNCHANGED <<up, remote, hydrated, gone, store, shown, chosen>>
    BY <1>1 DEF Unreached, world, shows
  <2>2. ~up
    BY <1>1, <2>1, LeafFacts DEF Ordered
  <2> QED BY <1>1, <2>1, <2>2, OpFailsSteady
<1> QED BY <1>1

(* What holds of an operation that is under way                            *)
LEMMA OnTheWay ==
  ASSUME Orderly, Steady, op.at \in {"looking", "syncing", "asked", "applied", "settling"}
  PROVE  /\ up \/ (op.by = "user" /\ op.at = "settling")
         /\ op.by \in {"user", "prompt", "restore"} /\ hydrated /\ op.goal # None /\ remote # None
         /\ prompt.pc \notin {"placing", "gathering"}
         /\ op.by = "restore" => target # NoTarget /\ ~Choosing
         /\ op.at # "applied" => ~Choosing
<1>1. /\ Ordered /\ Lined /\ op.by \in {"none", "user", "prompt", "restore", "other"} /\ remote # None
  BY LeafFacts, Worlds
<1>2. op.by \in {"user", "prompt", "restore"}
  BY <1>1 DEF Ordered
<1>3. op.by = "restore" => target # NoTarget
  BY <1>1 DEF Ordered, Lined, Waiting
<1>4. (up \/ (op.by = "user" /\ op.at = "settling")) /\ hydrated /\ prompt.pc \notin {"placing", "gathering"}
  BY <1>2 DEF Steady, Owing, Down
<1>5. op.goal # None
  BY <1>1, <1>2 DEF Ordered
<1>6. (op.at # "applied" => ~Choosing) /\ (op.by = "restore" => ~Choosing)
  BY DEF Choosing
<1> QED BY <1>1, <1>2, <1>3, <1>4, <1>5, <1>6

(* A step that leaves the choices of the user undisturbed crosses none.    *)
LEMMA Uncrossed ==
  ASSUME NEW how, how # "none", NEW crosses, Crossed(how, crosses), Undisturbed'
  PROVE  Undisturbed /\ ~crosses
BY DEF Crossed, Undisturbed

LEMMA OpStep ==
  ASSUME Orderly, NEW a \in {"reaching", "syncing", "asked", "applied", "settling"}, op' = [op EXCEPT !.at = a]
  PROVE  op'.by = op.by /\ op'.at = a /\ op'.goal = op.goal
<1> DEFINE x == [op EXCEPT !.at = a]
<1>1. x.by = op.by /\ x.at = a /\ x.goal = op.goal
  BY LeafFacts, OpAtIs
<1>2. op' = x
  OBVIOUS
<1> HIDE DEF x
<1> QED BY <1>1, <1>2

LEMMA OpSyncsSteady == Orderly /\ Steady /\ OpSyncs => Steady'
<1>1. ASSUME Orderly, Steady, OpSyncs
      PROVE  Steady'
  <2>1. /\ op.at = "syncing" /\ UNCHANGED <<up, remote, hydrated, gone, shown, chosen>>
        /\ \/ store' \in {remote, store} /\ OpFails(FALSE)
           \/ store' = remote /\ op' = [op EXCEPT !.at = "asked"] /\ UNCHANGED <<target, queue, leaf, prompt>>
    BY <1>1 DEF OpSyncs, world
  <2>2. /\ up /\ op.by \in {"user", "prompt", "restore"} /\ hydrated /\ op.goal # None /\ remote # None
        /\ prompt.pc \notin {"placing", "gathering"} /\ (op.by = "restore" => target # NoTarget)
        /\ ~Choosing
    BY <1>1, <2>1, OnTheWay
  <2>3. target = NoTarget => store \in {None, remote} /\ chosen \in {None, store} /\ chosen \in {None, remote}
    BY <1>1, <2>2 DEF Steady, Placed
  <2>4. CASE store' \in {remote, store} /\ OpFails(FALSE)
    BY <1>1, <2>1, <2>2, <2>3, <2>4, OpFailsSteady
  <2>5. CASE store' = remote /\ op' = [op EXCEPT !.at = "asked"] /\ UNCHANGED <<target, queue, leaf, prompt>>
    <3>1. op'.by = op.by /\ op'.at = "asked" /\ op'.goal = op.goal
      BY <1>1, <2>5, OpStep
    <3>2. ~Choosing'
      BY <3>1 DEF Choosing
    <3>3. Owing'
      BY <1>1, <2>1, <2>2, <2>5, <3>1 DEF Steady, Owing
    <3>4. Down'
      BY <2>1, <2>2 DEF Down
    <3>5. op.by \in {"user", "prompt"} /\ target = NoTarget /\ shown = op.goal => remote = op.goal \/ chosen = None
      BY <1>1, <2>1, <2>2, <2>3 DEF Steady, Placed
    <3>6. Placed'
      BY <1>1, <2>1, <2>2, <2>3, <2>5, <3>1, <3>2, <3>5 DEF Steady, Placed
    <3> QED BY <3>3, <3>4, <3>6 DEF Steady
  <2> QED BY <2>1, <2>4, <2>5
<1> QED BY <1>1

LEMMA ApplySteady == Orderly /\ Steady /\ Apply => Steady'
<1>1. ASSUME Orderly, Steady, Apply
      PROVE  Steady'
  <2>1. /\ op.at = "asked" /\ remote' = op.goal /\ op' = [op EXCEPT !.at = "applied"]
        /\ UNCHANGED <<up, hydrated, gone, store, shown, target, queue, leaf, prompt, chosen>>
    BY <1>1 DEF Apply, shows
  <2>2. /\ up /\ op.by \in {"user", "prompt", "restore"} /\ hydrated /\ op.goal # None /\ remote # None
        /\ prompt.pc \notin {"placing", "gathering"} /\ (op.by = "restore" => target # NoTarget)
        /\ ~Choosing
    BY <1>1, <2>1, OnTheWay
  <2>3. target = NoTarget => store \in {None, remote} /\ chosen \in {None, store}
    BY <1>1, <2>2 DEF Steady, Placed
  <2>4. op'.by = op.by /\ op'.at = "applied" /\ op'.goal = op.goal
    BY <1>1, <2>1, OpStep
  <2>5. Choosing' <=> op.by # "restore"
    BY <2>2, <2>4 DEF Choosing
  <2>6. Owing'
    BY <1>1, <2>1, <2>2, <2>4 DEF Steady, Owing
  <2>7. Down'
    BY <2>1, <2>2 DEF Down
  <2>8. Placed'
    BY <1>1, <2>1, <2>2, <2>3, <2>4, <2>5 DEF Steady, Placed
  <2> QED BY <2>6, <2>7, <2>8 DEF Steady
<1> QED BY <1>1

LEMMA RefuseSteady == Orderly /\ Steady /\ Refuse => Steady'
<1>1. ASSUME Orderly, Steady, Refuse
      PROVE  Steady'
  <2>1. op.at = "asked" /\ (OpFails(TRUE) \/ OpFails(FALSE))
          /\ UNCHANGED <<up, remote, hydrated, gone, store, shown, chosen>>
    BY <1>1 DEF Refuse, world, shows
  <2>2. up /\ ~Choosing
    BY <1>1, <2>1, OnTheWay
  <2>3. target = NoTarget => store \in {None, remote} /\ chosen \in {None, store}
    BY <1>1, <2>2 DEF Steady, Placed
  <2>4. CASE OpFails(TRUE)
    BY <1>1, <2>1, <2>2, <2>3, <2>4, OpFailsSteady
  <2>5. CASE OpFails(FALSE)
    BY <1>1, <2>1, <2>2, <2>3, <2>5, OpFailsSteady
  <2> QED BY <2>1, <2>4, <2>5
<1> QED BY <1>1

LEMMA LooksSteady == Orderly /\ Steady /\ Looks => Steady'
<1>1. ASSUME Orderly, Steady, Looks
      PROVE  Steady'
  <2>1. /\ op.at = "looking" /\ op' \in {[op EXCEPT !.at = "syncing"], [op EXCEPT !.at = "settling"]}
        /\ UNCHANGED <<up, remote, hydrated, gone, store, shown, target, queue, leaf, prompt, chosen>>
    BY <1>1 DEF Looks, world, shows
  <2>2. /\ up /\ op.by \in {"user", "prompt"} /\ hydrated /\ op.goal # None
        /\ prompt.pc \notin {"placing", "gathering"} /\ ~Choosing
    BY <1>1, <2>1, OnTheWay DEF Steady, Placed
  <2>3. op'.by = op.by /\ op'.at \in {"syncing", "settling"} /\ op'.goal = op.goal
    BY <1>1, <2>1, OpStep
  <2>4. ~Choosing'
    BY <2>3 DEF Choosing
  <2>5. Owing'
    BY <1>1, <2>1, <2>2, <2>3 DEF Steady, Owing
  <2>6. Down'
    BY <2>1, <2>2 DEF Down
  <2>7. Placed'
    BY <1>1, <2>1, <2>2, <2>3, <2>4 DEF Steady, Placed
  <2> QED BY <2>5, <2>6, <2>7 DEF Steady
<1> QED BY <1>1

LEMMA DeclineSteady == Orderly /\ Steady /\ Decline => Steady'
<1>1. ASSUME Orderly, Steady, Decline
      PROVE  Steady'
  <2>1. /\ op.at = "asked" /\ UNCHANGED <<up, remote, hydrated, gone, store, shown, chosen>>
        /\ \/ OpFails(FALSE)
           \/ op.by # "restore" /\ op' = [op EXCEPT !.at = "settling"] /\ UNCHANGED <<target, queue, leaf, prompt>>
    BY <1>1 DEF Decline, world, shows
  <2>2. /\ up /\ op.by \in {"user", "prompt", "restore"} /\ hydrated /\ op.goal # None
        /\ prompt.pc \notin {"placing", "gathering"} /\ ~Choosing
    BY <1>1, <2>1, OnTheWay
  <2>3. target = NoTarget => store \in {None, remote} /\ chosen \in {None, store}
    BY <1>1, <2>2 DEF Steady, Placed
  <2>4. CASE OpFails(FALSE)
    BY <1>1, <2>1, <2>2, <2>3, <2>4, OpFailsSteady
  <2>5. CASE op.by # "restore" /\ op' = [op EXCEPT !.at = "settling"] /\ UNCHANGED <<target, queue, leaf, prompt>>
    <3>1. op'.by = op.by /\ op'.at = "settling" /\ op'.goal = op.goal
      BY <1>1, <2>5, OpStep
    <3>2. ~Choosing'
      BY <3>1 DEF Choosing
    <3>3. Owing'
      BY <1>1, <2>1, <2>2, <2>5, <3>1 DEF Steady, Owing
    <3>4. Down'
      BY <2>1, <2>2 DEF Down
    <3>5. Placed'
      BY <1>1, <2>1, <2>2, <2>5, <3>1, <3>2 DEF Steady, Placed
    <3> QED BY <3>3, <3>4, <3>5 DEF Steady
  <2> QED BY <2>1, <2>4, <2>5
<1> QED BY <1>1

(* What an operation that comes to its session makes of the choice: its own*)
(* session, unless it restores one.                                        *)
LEMMA OwedIs ==
  ASSUME Steady, op.at = "applied", target = NoTarget, op.by \in {"user", "prompt"}
  PROVE  Owed = op.goal
BY DEF Steady, Placed, Owed

LEMMA ResultSteady == Orderly /\ Steady /\ Result /\ Undisturbed' => Steady'
<1>1. ASSUME Orderly, Steady, Result, Undisturbed'
      PROVE  Steady'
  <2>1. /\ op.at = "applied" /\ store' = op.goal /\ UNCHANGED <<up, remote, hydrated, gone>>
        /\ chosen' = Owed
        /\ \/ op.by = "restore" /\ OpFails(FALSE) /\ UNCHANGED shown
           \/ op' = [op EXCEPT !.at = "settling"] /\ shown' = op.goal
              /\ UNCHANGED <<target, queue, leaf, prompt>>
        /\ Crossed("competing", op.by # "restore" /\ target # NoTarget)
    BY <1>1 DEF Result, world
  <2>2. op.by # "restore" => target = NoTarget
    BY <1>1, <2>1, Uncrossed
  <2>3. /\ up /\ op.by \in {"user", "prompt", "restore"} /\ hydrated /\ op.goal # None /\ remote # None
        /\ prompt.pc \notin {"placing", "gathering"} /\ (op.by = "restore" => target # NoTarget)
    BY <1>1, <2>1, OnTheWay
  <2>4. remote = op.goal
    BY <1>1, <2>1 DEF Steady, Placed
  <2>5. chosen' = IF op.by = "restore" THEN chosen ELSE op.goal
    BY <1>1, <2>1, <2>2, <2>3, OwedIs DEF Owed
  <2>6. CASE op.by = "restore" /\ OpFails(FALSE) /\ UNCHANGED shown
    BY <1>1, <2>1, <2>3, <2>4, <2>5, <2>6, OpFailsSteady
  <2>7. CASE op' = [op EXCEPT !.at = "settling"] /\ shown' = op.goal
          /\ UNCHANGED <<target, queue, leaf, prompt>>
    <3>1. op'.by = op.by /\ op'.at = "settling" /\ op'.goal = op.goal
      BY <1>1, <2>7, OpStep
    <3>2. ~Choosing'
      BY <3>1 DEF Choosing
    <3>3. Owing'
      BY <1>1, <2>1, <2>3, <2>7, <3>1 DEF Steady, Owing
    <3>4. Down'
      BY <2>1, <2>3 DEF Down
    <3>5. Placed'
      BY <1>1, <2>1, <2>2, <2>3, <2>4, <2>5, <2>7, <3>1, <3>2 DEF Steady, Placed
    <3> QED BY <3>3, <3>4, <3>5 DEF Steady
  <2> QED BY <2>1, <2>6, <2>7
<1> QED BY <1>1

LEMMA SettledSteady == Orderly /\ Steady /\ SessionSettled /\ Undisturbed' => Steady'
<1>1. ASSUME Orderly, Steady, SessionSettled, Undisturbed'
      PROVE  Steady'
  <2>1. /\ op.at = "settling" /\ op' = NoOp /\ shown' = store
           /\ UNCHANGED <<up, remote, hydrated, gone, store, chosen>>
        /\ \/ op.by = "restore" /\ FinishRestore(Told(TRUE))
           \/ op.by # "restore" /\ prompt' = Told(TRUE) /\ UNCHANGED <<target, queue, leaf>>
        /\ Crossed("competing", op.by = "prompt" /\ target # NoTarget)
    BY <1>1 DEF SessionSettled, world
  <2>2. op.by = "prompt" => target = NoTarget
    BY <1>1, <2>1, Uncrossed
  <2>3. /\ up \/ op.by = "user"
        /\ op.by \in {"user", "prompt", "restore"} /\ hydrated /\ op.goal # None
        /\ prompt.pc \notin {"placing", "gathering"} /\ (op.by = "restore" => target # NoTarget)
        /\ ~Choosing
    BY <1>1, <2>1, OnTheWay
  <2>4. /\ op.by = "restore" => store = op.goal /\ remote = op.goal
        /\ shown # None => store # None
        /\ target = NoTarget => (up => store \in {None, remote}) /\ chosen \in {None, store}
        /\ ~up /\ target = NoTarget => store = None /\ shown = None /\ chosen = None
        /\ target # NoTarget => chosen = target.path
    BY <1>1, <2>1, <2>3 DEF Steady, Placed, Down
  <2>5. op'.by = "none" /\ op'.at = "none" /\ ~Choosing'
    BY <2>1, Worlds DEF Choosing
  <2>6. /\ Told(TRUE) \in Sending /\ Told(TRUE).strayed = prompt.strayed
        /\ prompt.pc \in {"recovering", "reconciling"} => Told(TRUE) = prompt
        /\ \/ Told(TRUE) = prompt
           \/ Told(TRUE).pc \in {"idle", "ensuring"}
           \/ op.by = "prompt" /\ up /\ store # None /\ Told(TRUE).pc = "gathering"
    BY <1>1, ToldIs
  <2>7. /\ prompt'.strayed = prompt.strayed
        /\ \/ prompt' = prompt
           \/ prompt'.pc \in {"idle", "targeting", "ensuring"}
           \/ op.by = "prompt" /\ up /\ store # None /\ prompt'.pc = "gathering"
           \/ prompt'.pc = "placing" /\ prompt.pc = "reconciling" /\ target' = NoTarget
        /\ \/ target' = target
           \/ target' = NoTarget /\ target.path = store /\ target # NoTarget /\ store = remote
    <3>1. CASE op.by = "restore" /\ FinishRestore(Told(TRUE))
      <4>1. /\ queue # <<>> /\ store \in Paths /\ queue[1].path = op.goal /\ 1 \in 1..Len(queue)
               /\ Mine(queue, target)
        BY <1>1, <3>1, LeafFacts DEF Ordered, Lined, Waiting, At
      <4>2. /\ target' = target \/ (target' = NoTarget /\ Current(queue[1]))
            /\ prompt'.strayed = prompt.strayed
            /\ \/ prompt' = Told(TRUE)
               \/ /\ prompt'.pc \in {"idle", "targeting", "placing"}
                  /\ prompt'.pc = "placing" => target' = NoTarget /\ prompt.pc = "reconciling"
        BY <1>1, <2>1, <2>6, <3>1, <4>1, EndsIs DEF Ends
      <4>3. Current(queue[1]) => target.path = op.goal
        BY <2>3, <4>1 DEF Current, Same, Mine
      <4>4. store = op.goal /\ remote = op.goal /\ target # NoTarget
        BY <2>3, <2>4, <3>1
      <4>5. /\ \/ prompt' = prompt
               \/ prompt'.pc \in {"idle", "targeting", "ensuring"}
               \/ prompt'.pc = "placing" /\ prompt.pc = "reconciling" /\ target' = NoTarget
        BY <2>6, <3>1, <4>2
      <4> QED BY <4>2, <4>3, <4>4, <4>5
    <3>2. CASE op.by # "restore" /\ prompt' = Told(TRUE) /\ UNCHANGED <<target, queue, leaf>>
      BY <2>6, <3>2
    <3> QED BY <2>1, <3>1, <3>2
  <2>8. Owing'
    BY <1>1, <2>1, <2>2, <2>3, <2>4, <2>5, <2>7 DEF Steady, Owing
  <2>9. Down'
    BY <1>1, <2>1, <2>3, <2>4, <2>5, <2>7 DEF Down
  <2>10. Placed'
    <3>1. target' # NoTarget => chosen' = target'.path
      BY <2>1, <2>4, <2>7
    <3>2. target' = NoTarget => chosen \in {None, store} /\ (up => store \in {None, remote})
      BY <2>4, <2>7
    <3> QED BY <1>1, <2>1, <2>5, <3>1, <3>2 DEF Steady, Placed
  <2> QED BY <2>8, <2>9, <2>10 DEF Steady
<1> QED BY <1>1

LEMMA HydrateSteady == \A s \in Stored \cup {None} : Orderly /\ Steady /\ Quiet /\ Hydrate(s) /\ Undisturbed' => Steady'
<1>1. ASSUME NEW s \in Stored \cup {None}, Orderly, Steady, Quiet, Hydrate(s), Undisturbed'
      PROVE  Steady'
  <2> DEFINE late == prompt.pc \in {"creating", "reconciling", "gathering"}
             crosses == s # None /\ (late \/ (s = shown /\ (target # NoTarget \/ store # shown)))
  <2>1. /\ hydrated' = TRUE /\ UNCHANGED <<up, remote, gone, store, shown, op, leaf, prompt>>
        /\ target' = IF s \in {None, shown} THEN target ELSE [path |-> s, source |-> "pending"]
        /\ chosen' = IF s = None THEN chosen ELSE s
        /\ Crossed(IF late THEN "overtaken" ELSE "competing", crosses)
    BY <1>1 DEF Hydrate, shows
  <2>2. ~crosses
    <3> DEFINE how == IF late THEN "overtaken" ELSE "competing"
    <3>1. how # "none" /\ Crossed(how, crosses)
      BY <2>1
    <3> HIDE DEF how, crosses
    <3> QED BY <1>1, <3>1, Uncrossed
  <2>3. s # None => prompt.pc \notin {"creating", "reconciling", "placing", "gathering", "ensuring"}
    BY <1>1, <2>2 DEF Quiet
  <2>4. (s # None => op.by # "prompt") /\ (Choosing' <=> Choosing)
    BY <1>1, <2>1, <2>3, LeafFacts DEF Ordered, Choosing
  <2>5. \/ s = None /\ target' = target /\ chosen' = chosen
        \/ s # None /\ s = shown /\ target = NoTarget /\ store = s /\ target' = target /\ chosen' = s
        \/ s # None /\ target'.path = s /\ target' # NoTarget /\ chosen' = s
    <3>1. CASE s # None /\ s # shown
      <4>1. target' = [path |-> s, source |-> "pending"]
        BY <2>1, <3>1
      <4>2. target'.path = s
        BY <4>1
      <4> QED BY <2>1, <3>1, <4>2, Worlds
    <3> QED BY <2>1, <2>2, <3>1
  <2>6. Owing'
    BY <1>1, <2>1, <2>3, <2>4, <2>5 DEF Steady, Owing
  <2>7. Down'
    BY <1>1, <2>1, <2>5 DEF Steady, Down
  <2>8. Placed'
    BY <1>1, <2>1, <2>4, <2>5 DEF Steady, Placed
  <2> QED BY <2>6, <2>7, <2>8 DEF Steady
<1> QED BY <1>1

LEMMA ActivateSteady == Steady /\ Activate => Steady'
<1>1. ASSUME Steady, Activate
      PROVE  Steady'
  <2>1. UNCHANGED <<up, remote, hydrated, gone, store, shown, target, op, leaf, prompt, chosen>>
    BY <1>1 DEF Activate, world, shows
  <2> QED BY <1>1, <2>1, SteadyKept
<1> QED BY <1>1

LEMMA ChooseSteady == \A s \in Sessions : Orderly /\ Steady /\ Quiet /\ Choose(s) /\ Undisturbed' => Steady'
<1>1. ASSUME NEW s \in Sessions, Orderly, Steady, Quiet, Choose(s), Undisturbed'
      PROVE  Steady'
  <2>1. /\ hydrated /\ op = NoOp /\ s # shown /\ Hold("user", "none", s)
        /\ Crossed("overtaken", prompt.pc \in {"reconciling", "gathering"})
        /\ UNCHANGED <<up, remote, hydrated, gone, store, shown, chosen, target, queue, leaf, prompt>>
    BY <1>1 DEF Choose, world, shows
  <2>2. prompt.pc \notin {"reconciling", "gathering", "ensuring", "placing"}
    BY <1>1, <2>1, Uncrossed DEF Quiet
  <2>3. /\ op'.by = "user" /\ op'.goal = s /\ op'.at \in {"reaching", "looking", "syncing"} /\ (op'.at = "reaching" <=> ~up)
    BY <1>1, <2>1, HoldIs
  <2>4. ~Choosing /\ ~Choosing'
    BY <2>1, <2>3, Worlds DEF Choosing
  <2>5. Owing'
    BY <1>1, <2>1, <2>2, <2>3 DEF Steady, Owing
  <2>6. Down'
    BY <1>1, <2>1, <2>3 DEF Steady, Down
  <2>7. Placed'
    BY <1>1, <2>1, <2>3, <2>4 DEF Steady, Placed
  <2> QED BY <2>5, <2>6, <2>7 DEF Steady
<1> QED BY <1>1

LEMMA OthersSteady == Orderly /\ Steady /\ (OtherBegins \/ OtherEnds) => Steady'
<1>1. ASSUME Orderly, Steady, OtherBegins \/ OtherEnds
      PROVE  Steady'
  <2>1. /\ op.by \in {"none", "other"} /\ op'.by \in {"none", "other"} /\ op'.at \in {"none", "running"}
        /\ UNCHANGED <<up, remote, hydrated, gone, store, shown, chosen, target, queue, leaf, prompt>>
    BY <1>1, Worlds DEF OtherBegins, OtherEnds, world, shows
  <2>2. ~Choosing /\ ~Choosing'
    BY <2>1 DEF Choosing
  <2>3. Owing'
    BY <1>1, <2>1 DEF Steady, Owing
  <2>4. Down'
    BY <1>1, <2>1 DEF Steady, Down
  <2>5. Placed'
    BY <1>1, <2>1, <2>2 DEF Steady, Placed
  <2> QED BY <2>3, <2>4, <2>5 DEF Steady
<1> QED BY <1>1

LEMMA ConnectSteady == Orderly /\ Steady /\ Quiet /\ Connect => Steady'
<1>1. ASSUME Orderly, Steady, Quiet, Connect
      PROVE  Steady'
  <2>1. /\ ~up /\ up' = TRUE /\ UNCHANGED <<hydrated, gone, store, shown, target, prompt, chosen>>
        /\ op' = IF op.at = "reaching" THEN [op EXCEPT !.at = "syncing"] ELSE op
    BY <1>1 DEF Connect, shows
  <2>2. /\ op.at \in {"none", "reaching", "running"} \/ (op.by = "user" /\ op.at = "settling")
        /\ prompt.pc \notin {"placing", "gathering"}
    BY <1>1, <2>1 DEF Steady, Owing, Down, Quiet
  <2>3. /\ op'.by = op.by /\ op'.goal = op.goal
        /\ op'.at \in {"none", "syncing", "running"} \/ (op.by = "user" /\ op'.at = "settling")
    <3>1. CASE op.at = "reaching"
      BY <1>1, <2>1, <3>1, OpStep
    <3>2. CASE op.at # "reaching"
      BY <2>1, <2>2, <3>2
    <3> QED BY <3>1, <3>2
  <2>4. ~Choosing' /\ (op.by \in {"user", "prompt"} => op.goal # None)
    BY <1>1, <2>3, LeafFacts DEF Choosing, Ordered
  <2>5. Owing'
    BY <1>1, <2>1, <2>2, <2>3 DEF Steady, Owing
  <2>6. Down'
    BY <2>1 DEF Down
  <2>7. target = NoTarget => store = None /\ shown = None /\ chosen = None
    BY <1>1, <2>1 DEF Steady, Down
  <2>8. Placed'
    BY <1>1, <2>1, <2>3, <2>4, <2>7 DEF Steady, Placed
  <2> QED BY <2>5, <2>6, <2>8 DEF Steady
<1> QED BY <1>1

LEMMA DisconnectSteady == Orderly /\ Steady /\ Quiet /\ Disconnect /\ Undisturbed' => Steady'
<1>1. ASSUME Orderly, Steady, Quiet, Disconnect, Undisturbed'
      PROVE  Steady'
  <2> DEFINE cut == op.at \in {"syncing", "asked", "applied"}
             told == IF cut THEN Told(FALSE) ELSE prompt
  <2>1. /\ hydrated /\ up /\ up' = FALSE
        /\ UNCHANGED <<remote, hydrated, gone, store, shown>>
        /\ op' = IF cut THEN NoOp ELSE IF op.at = "looking" THEN [op EXCEPT !.at = "reaching"] ELSE op
        /\ prompt' = told \/ prompt' = Over(told)
        /\ prompt.pc = "gathering" => prompt' = Over(told)
        /\ target' = IF target = NoTarget /\ shown # None
                      THEN [path |-> shown, source |-> "disconnected"] ELSE target
        /\ chosen' = IF chosen = None THEN shown ELSE chosen
        /\ Crossed("undrawn", store # shown \/ (op.by # "user" /\ op.at = "settling"))
    BY <1>1 DEF Disconnect, shows
  <2>2. store = shown /\ (op.at = "settling" => op.by = "user")
    BY <1>1, <2>1, Uncrossed
  <2>3. /\ told \in Sending /\ told.strayed = prompt.strayed
        /\ told = prompt \/ told.pc = "idle"
    BY <1>1, ToldIs, LeafFacts
  <2>4. /\ prompt'.strayed = prompt.strayed /\ prompt'.pc \notin {"placing", "gathering"}
        /\ prompt' = prompt \/ prompt'.pc = "idle"
    <3>1. Over(told).pc = "idle" /\ Over(told).strayed = told.strayed
      BY <2>3, OverIs
    <3>2. prompt.pc # "placing"
      BY <1>1 DEF Quiet
    <3> HIDE DEF told
    <3> QED BY <2>1, <2>3, <3>1, <3>2
  <2>5. /\ op'.by \in {"none", op.by} /\ op'.at \in {"none", "reaching", "running", "settling"}
        /\ op'.at = "none" => op'.by = "none"
        /\ op'.by # "none" => op'.goal = op.goal
        /\ op'.at = "settling" => op'.by = "user"
    <3>1. CASE cut
      BY <2>1, <3>1, Worlds
    <3>2. CASE op.at = "looking"
      <4>1. op' = [op EXCEPT !.at = "reaching"]
        BY <2>1, <3>2
      <4> QED BY <1>1, <4>1, OpStep
    <3>3. CASE ~cut /\ op.at # "looking"
      <4>1. op' = op /\ op.at \in {"none", "running", "settling"}
        BY <1>1, <2>1, <3>3, LeafFacts DEF Ordered, Operation
      <4> QED BY <1>1, <2>2, <4>1, LeafFacts DEF Ordered
    <3> QED BY <3>1, <3>2, <3>3
  <2>6. ~Choosing'
    BY <2>5 DEF Choosing
  <2>7. \/ shown = None /\ target = NoTarget /\ target' = NoTarget
        \/ target # NoTarget /\ target' = target
        \/ target = NoTarget /\ shown # None /\ target'.path = shown /\ target' # NoTarget
    <3>1. CASE target = NoTarget /\ shown # None
      <4>1. target' = [path |-> shown, source |-> "disconnected"]
        BY <2>1, <3>1
      <4>2. target'.path = shown
        BY <4>1
      <4> QED BY <3>1, <4>2, Worlds
    <3>2. CASE ~(target = NoTarget /\ shown # None)
      BY <2>1, <3>2
    <3> QED BY <3>1, <3>2
  <2>8. target = NoTarget => chosen \in {None, store}
    BY <1>1, <2>1, <2>2 DEF Steady, Placed
  <2>9. target # NoTarget => chosen = target.path /\ target.path # None
    BY <1>1, LeafFacts DEF Steady, Placed, Ordered
  <2>10. op.by \in {"user", "prompt"} => op.goal # None
    BY <1>1, LeafFacts DEF Ordered
  <2>11. Owing'
    BY <1>1, <2>1, <2>4, <2>5, <2>7 DEF Steady, Owing
  <2>12. Down'
    BY <2>1, <2>2, <2>5, <2>7, <2>8 DEF Down
  <2>13. target' = NoTarget => shown = None /\ chosen' = None
    BY <2>1, <2>2, <2>7, <2>8
  <2>14. Placed'
    <3>1. target' # NoTarget => chosen' = target'.path
      BY <2>1, <2>2, <2>7, <2>8, <2>9
    <3> QED BY <1>1, <2>1, <2>5, <2>6, <2>10, <2>13, <3>1 DEF Steady, Placed
  <2> QED BY <2>11, <2>12, <2>14 DEF Steady
<1> QED BY <1>1

LEMMA FlushSteady == Orderly /\ Steady /\ Flush /\ Undisturbed' => Steady'
<1>1. ASSUME Orderly, Steady, Flush, Undisturbed'
      PROVE  Steady'
  <2>1. /\ store # shown /\ shown' = store
           /\ UNCHANGED <<up, remote, hydrated, gone, store, target, queue, op, leaf, prompt>>
        /\ IF Choosing /\ store = op.goal
           THEN chosen' = Owed /\ Crossed("competing", op.by # "restore" /\ target # NoTarget)
           ELSE chosen' = chosen
    BY <1>1 DEF Flush, world
  <2>2. store # None
    BY <1>1, <2>1 DEF Steady, Placed
  <2>3. Choosing' <=> Choosing
    BY <2>1 DEF Choosing
  <2>4. Choosing => hydrated /\ up
    BY <1>1, LeafFacts DEF Steady, Owing, Choosing, Ordered
  <2>5. \/ Choosing /\ store = op.goal /\ target = NoTarget /\ chosen' = store
        \/ ~(Choosing /\ store = op.goal) /\ chosen' = chosen
    <3>1. CASE Choosing /\ store = op.goal
      <4>1. target = NoTarget
        BY <1>1, <2>1, <3>1, Uncrossed DEF Choosing
      <4>2. Owed = op.goal
        BY <1>1, <3>1, <4>1, OwedIs DEF Choosing
      <4> QED BY <2>1, <3>1, <4>1, <4>2
    <3>2. CASE ~(Choosing /\ store = op.goal)
      BY <2>1, <3>2
    <3> QED BY <3>1, <3>2
  <2>6. Owing'
    BY <1>1, <2>1, <2>2, <2>4, <2>5 DEF Steady, Owing
  <2>7. Down'
    BY <1>1, <2>1, <2>2, <2>4, <2>5 DEF Steady, Down
  <2>8. Placed'
    BY <1>1, <2>1, <2>2, <2>3, <2>4, <2>5 DEF Steady, Placed
  <2> QED BY <2>6, <2>7, <2>8 DEF Steady
<1> QED BY <1>1

LEMMA DeleteSteady == \A s \in Stored : Steady /\ Delete(s) => Steady'
<1>1. ASSUME NEW s \in Stored, Steady, Delete(s)
      PROVE  Steady'
  <2>1. UNCHANGED <<up, remote, hydrated, store, shown, target, queue, op, leaf, prompt, chosen>>
    BY <1>1 DEF Delete, shows
  <2> QED BY <1>1, <2>1, SteadyKept
<1> QED BY <1>1

LEMMA PromptSteady == Orderly /\ Steady /\ Prompt => Steady'
<1>1. ASSUME Orderly, Steady, Prompt
      PROVE  Steady'
  <2>1. /\ hydrated /\ prompt' = [prompt EXCEPT !.pc = "connecting"]
        /\ UNCHANGED <<up, remote, hydrated, gone, store, shown, target, queue, op, leaf, chosen>>
    BY <1>1 DEF Prompt, world, shows
  <2>2. prompt'.pc = "connecting" /\ prompt'.strayed = prompt.strayed
    BY <1>1, <2>1, LeafFacts DEF Sending
  <2> QED BY <1>1, <2>1, <2>2, SteadyKept
<1> QED BY <1>1

LEMMA ConnectedSteady == Orderly /\ Steady /\ Connected => Steady'
<1>1. ASSUME Orderly, Steady, Connected
      PROVE  Steady'
  <2>1. /\ prompt.pc = "connecting"
        /\ UNCHANGED <<up, remote, hydrated, gone, store, shown, target, op, leaf, chosen>>
        /\ \/ prompt' = Over(prompt)
           \/ prompt' = [prompt EXCEPT !.pc = "targeting"]
           \/ prompt' = [prompt EXCEPT !.pc = "recovering"]
    BY <1>1 DEF Connected, world, shows
  <2>2. prompt'.pc \in {"idle", "targeting", "recovering"} /\ prompt'.strayed = prompt.strayed
    <3>1. prompt \in Sending
      BY <1>1, LeafFacts
    <3>2. CASE prompt' = Over(prompt)
      BY <3>1, <3>2, OverIs
    <3>3. CASE prompt' = [prompt EXCEPT !.pc = "targeting"]
      BY <3>1, <3>3 DEF Sending
    <3>4. CASE prompt' = [prompt EXCEPT !.pc = "recovering"]
      BY <3>1, <3>4 DEF Sending
    <3> QED BY <2>1, <3>2, <3>3, <3>4
  <2>3. hydrated
    BY <1>1, <2>1 DEF Steady, Owing
  <2> QED BY <1>1, <2>1, <2>2, <2>3, SteadyKept
<1> QED BY <1>1

LEMMA TargetingSteady == Orderly /\ Steady /\ Targeting => Steady'
<1>1. ASSUME Orderly, Steady, Targeting
      PROVE  Steady'
  <2>1. /\ prompt.pc = "targeting"
           /\ prompt' = [prompt EXCEPT !.pc =
                            IF op.by \in {"none", "other"} THEN "ensuring" ELSE "awaiting"]
        /\ UNCHANGED <<up, remote, hydrated, gone, store, shown, target, queue, op, leaf, chosen>>
    BY <1>1 DEF Targeting, world, shows
  <2>2. /\ prompt'.pc = (IF op.by \in {"none", "other"} THEN "ensuring" ELSE "awaiting")
        /\ prompt'.strayed = prompt.strayed
    BY <1>1, <2>1, LeafFacts DEF Sending
  <2>3. hydrated
    BY <1>1, <2>1 DEF Steady, Owing
  <2> QED BY <1>1, <2>1, <2>2, <2>3, SteadyKept
<1> QED BY <1>1

(* A prompt begins to create a session.                                    *)
LEMMA CreatingSteady ==
  ASSUME Orderly, Steady, hydrated, op = NoOp, Hold("prompt", "none", New),
         prompt' = [prompt EXCEPT !.pc = "creating"], shown # New,
         target = NoTarget => chosen \in Elsewhere \cup {None},
         UNCHANGED <<up, remote, hydrated, store, shown, target, chosen>>
  PROVE  Steady'
<1>1. prompt'.pc = "creating" /\ prompt'.strayed = prompt.strayed
  BY LeafFacts DEF Sending
<1>2. /\ op'.by = "prompt" /\ op'.goal = New /\ op'.at \in {"reaching", "looking", "syncing"}
      /\ op'.at = "reaching" <=> ~up
  BY HoldIs, Worlds
<1>3. ~Choosing /\ ~Choosing'
  BY <1>2, Worlds DEF Choosing
<1>4. Owing'
  BY <1>1, <1>2 DEF Steady, Owing
<1>5. Down'
  BY <1>2 DEF Steady, Down
<1>6. Placed'
  BY <1>2, <1>3 DEF Steady, Placed
<1> QED BY <1>4, <1>5, <1>6 DEF Steady

LEMMA EnsuringSteady == Orderly /\ Steady /\ Ensuring => Steady'
<1>1. ASSUME Orderly, Steady, Ensuring
      PROVE  Steady'
  <2>1. /\ prompt.pc = "ensuring"
        /\ UNCHANGED <<up, remote, hydrated, gone, store, shown, target, leaf, chosen>>
        /\ \/ shown # None /\ prompt' = [prompt EXCEPT !.pc = "reconciling"] /\ UNCHANGED op
           \/ prompt' = Over(prompt) /\ UNCHANGED op
           \/ shown = None /\ op = NoOp /\ Hold("prompt", "none", New)
              /\ prompt' = [prompt EXCEPT !.pc = "creating"]
    BY <1>1 DEF Ensuring, world, shows
  <2>2. hydrated /\ op.by # "user" /\ prompt \in Sending
    BY <1>1, <2>1, LeafFacts DEF Steady, Owing
  <2>3. CASE shown # None /\ prompt' = [prompt EXCEPT !.pc = "reconciling"] /\ UNCHANGED op
    <3>1. prompt'.pc = "reconciling" /\ prompt'.strayed = prompt.strayed
      BY <2>2, <2>3 DEF Sending
    <3> QED BY <1>1, <2>1, <2>2, <2>3, <3>1, SteadyKept
  <2>4. CASE prompt' = Over(prompt) /\ UNCHANGED op
    <3>1. prompt'.pc = "idle" /\ prompt'.strayed = prompt.strayed
      BY <2>2, <2>4, OverIs
    <3> QED BY <1>1, <2>1, <2>4, <3>1, SteadyKept
  <2>5. CASE shown = None /\ op = NoOp /\ Hold("prompt", "none", New)
          /\ prompt' = [prompt EXCEPT !.pc = "creating"]
    <3>1. target = NoTarget => chosen = None
      BY <1>1, <2>5 DEF Steady, Placed
    <3> QED BY <1>1, <2>1, <2>2, <2>5, <3>1, Worlds, CreatingSteady
  <2> QED BY <2>1, <2>3, <2>4, <2>5
<1> QED BY <1>1

LEMMA PlacingSteady == Orderly /\ Steady /\ Placing /\ Undisturbed' => Steady'
<1>1. ASSUME Orderly, Steady, Placing, Undisturbed'
      PROVE  Steady'
  <2>1. /\ prompt.pc = "placing"
        /\ UNCHANGED <<up, remote, hydrated, gone, store, shown, target, leaf, chosen>>
        /\ \/ /\ shown \in Elsewhere /\ up /\ op = NoOp /\ Hold("prompt", "none", New)
              /\ prompt' = [prompt EXCEPT !.pc = "creating"] /\ Crossed("stale", store # shown)
           \/ prompt' = Gather(prompt, store) /\ UNCHANGED op
    <3>1. PICK known \in {up, up /\ spent.drops = 0} :
            IF shown \in Elsewhere /\ known /\ op = NoOp
            THEN /\ Hold("prompt", "none", New)
                 /\ prompt' = [prompt EXCEPT !.pc = "creating"]
                 /\ Crossed("stale", store # shown)
            ELSE prompt' = Gather(prompt, store) /\ UNCHANGED <<op, upset>>
      BY <1>1 DEF Placing
    <3>2. known => up
      BY ZenonT(30)
    <3>3. /\ prompt.pc = "placing"
          /\ UNCHANGED <<up, remote, hydrated, gone, store, shown, target, leaf, chosen>>
      BY <1>1 DEF Placing, world, shows
    <3>4. CASE shown \in Elsewhere /\ known /\ op = NoOp
      BY <3>1, <3>2, <3>3, <3>4
    <3>5. CASE ~(shown \in Elsewhere /\ known /\ op = NoOp)
      BY <3>1, <3>3, <3>5
    <3> QED BY <3>4, <3>5
  <2>2. /\ hydrated /\ target = NoTarget /\ op.by \in {"none", "other"} /\ shown # None
        /\ prompt \in Sending /\ store \in Paths
    BY <1>1, <2>1, LeafFacts DEF Steady, Owing
  <2>3. CASE /\ shown \in Elsewhere /\ up /\ op = NoOp /\ Hold("prompt", "none", New)
             /\ prompt' = [prompt EXCEPT !.pc = "creating"] /\ Crossed("stale", store # shown)
    <3>1. store = shown
      BY <1>1, <2>3, Uncrossed
    <3>2. chosen \in Elsewhere \cup {None}
      <4>1. ~Choosing
        BY <2>2 DEF Choosing
      <4> QED BY <1>1, <2>2, <2>3, <3>1, <4>1 DEF Steady, Placed
    <3>3. shown # New
      BY <2>3, SessionAssumption
    <3> QED BY <1>1, <2>1, <2>2, <2>3, <3>2, <3>3, CreatingSteady
  <2>4. CASE prompt' = Gather(prompt, store) /\ UNCHANGED op
    <3>1. prompt'.pc = (IF up THEN "gathering" ELSE "idle") /\ prompt'.strayed = prompt.strayed
      BY <2>2, <2>4, GatherIs
    <3> QED BY <1>1, <2>1, <2>2, <2>4, <3>1, SteadyKept
  <2> QED BY <2>1, <2>3, <2>4
<1> QED BY <1>1

LEMMA SendPromptSteady == Orderly /\ Steady /\ SendPrompt => Steady'
<1>1. ASSUME Orderly, Steady, SendPrompt
      PROVE  Steady'
  <2>1. prompt.pc = "gathering"
          /\ UNCHANGED <<up, remote, hydrated, gone, store, shown, target, queue, op, leaf>>
    BY <1>1 DEF SendPrompt, world, shows
  <2>2. /\ up /\ target = NoTarget /\ op.by \in {"none", "other"} /\ op.at # "asked" /\ store # None
           /\ shown # None /\ hydrated /\ ~prompt.strayed
        /\ ~Choosing
    BY <1>1, <2>1, LeafFacts DEF Steady, Owing, Placed, Ordered, Choosing
  <2>3. store = remote /\ chosen \in {None, remote}
    BY <1>1, <2>2 DEF Steady, Placed
  <2>4. CASE prompt' = Over(prompt) /\ UNCHANGED chosen
    <3>1. prompt'.pc = "idle" /\ prompt'.strayed = prompt.strayed
      BY <1>1, <2>4, LeafFacts, OverIs
    <3> QED BY <1>1, <2>1, <2>4, <3>1, SteadyKept
  <2>5. ASSUME NEW s \in {remote} \cup (IF op.at = "asked" THEN {op.goal} ELSE {}),
               chosen' = IF chosen = None THEN s ELSE chosen,
               prompt' = [pc |-> "idle", of |-> None, strayed |-> prompt.strayed \/ s # chosen']
        PROVE  Steady'
    <3>1. s = remote /\ chosen' = remote
      BY <2>2, <2>3, <2>5
    <3>2. prompt'.pc = "idle" /\ ~prompt'.strayed
      BY <2>2, <2>5, <3>1
    <3>3. ~Choosing'
      BY <2>1, <2>2 DEF Choosing
    <3>4. Owing'
      BY <1>1, <2>1, <2>2, <3>2 DEF Steady, Owing
    <3>5. Down'
      BY <2>1, <2>2 DEF Down
    <3>6. Placed'
      BY <1>1, <2>1, <2>2, <2>3, <3>1, <3>3 DEF Steady, Placed
    <3> QED BY <3>4, <3>5, <3>6 DEF Steady
  <2> QED BY <1>1, <2>4, <2>5 DEF SendPrompt
<1> QED BY <1>1

LEMMA NextSteady == Orderly /\ Steady /\ Undisturbed' /\ [SessionNext]_sessionVars => Steady'
<1>1. ASSUME Orderly, Steady, Undisturbed', SessionNext
      PROVE  Steady'
  <2>1. CASE StartHead \/ Targeting \/ Ensuring \/ Placing
    BY <1>1, <2>1, StartHeadSteady, TargetingSteady, EnsuringSteady, PlacingSteady
  <2>2. CASE HeadSyncs \/ ViewSyncs \/ Flush \/ Connected \/ SendPrompt
    BY <1>1, <2>2, HeadSyncsSteady, ViewSyncsSteady, FlushSteady, ConnectedSteady, SendPromptSteady
  <2>3. CASE Unreached \/ Looks \/ OpSyncs \/ Apply \/ Refuse \/ Decline \/ Result \/ SessionSettled
    BY <1>1, <2>3, UnreachedSteady, LooksSteady, OpSyncsSteady, ApplySteady, RefuseSteady, DeclineSteady,
       ResultSteady, SettledSteady
  <2>4. CASE Quiet /\ \/ \E s \in Stored \cup {None} : Hydrate(s)
                      \/ \E s \in Sessions : Choose(s)
                      \/ \E s \in Stored : Delete(s)
    BY <1>1, <2>4, HydrateSteady, ChooseSteady, DeleteSteady
  <2>5. CASE Quiet /\ (Activate \/ OtherBegins \/ OtherEnds \/ Connect \/ Disconnect \/ Prompt)
    BY <1>1, <2>5, ActivateSteady, OthersSteady, ConnectSteady, DisconnectSteady, PromptSteady
  <2> QED BY <1>1, <2>1, <2>2, <2>3, <2>4, <2>5 DEF SessionNext, Continue, Work
<1>2. ASSUME Steady, UNCHANGED sessionVars
      PROVE  Steady'
  BY <1>2 DEF sessionVars, Steady, Owing, Down, Placed, Choosing
<1> QED BY <1>1, <1>2

(* A leaf keeps what it owes as long as nothing has crossed the choices of *)
(* the user: lost connections, restorations, refusals, deleted sessions,   *)
(* new runtimes, prompts and choices that wait for each other do not.      *)
THEOREM LeafInvAlways == SessionSpec => [](Orderly /\ (Undisturbed => Steady))
<1>1. SessionInit => Orderly /\ (Undisturbed => Steady)
  BY InitOrderly, InitSteady
<1>2. Orderly /\ (Undisturbed => Steady) /\ [SessionNext]_sessionVars => (Orderly /\ (Undisturbed => Steady))'
  <2>1. ASSUME Orderly, Undisturbed => Steady, [SessionNext]_sessionVars, Undisturbed'
        PROVE  Steady'
    <3>1. Undisturbed
      BY <2>1, UpsetStays DEF Undisturbed, Upsets, sessionVars
    <3> QED BY <2>1, <3>1, NextSteady
  <2> QED BY <2>1, NextOrderly
<1> QED BY <1>1, <1>2, PTL DEF SessionSpec

LEMMA SteadyKeeps == Orderly /\ (Undisturbed => Steady) => SavedKept /\ PromptWhereChosen
<1>1. ASSUME Orderly, Undisturbed => Steady
      PROVE  SavedKept
  <2>1. CASE target # NoTarget
    BY <1>1, <2>1 DEF Steady, Placed, SavedKept
  <2>2. CASE target = NoTarget
    BY <1>1, <2>2, LeafFacts DEF Steady, Placed, Down, SavedKept
  <2> QED BY <2>1, <2>2
<1>2. ASSUME Undisturbed => Steady
      PROVE  PromptWhereChosen
  BY <1>2 DEF Steady, Owing, PromptWhereChosen
<1> QED BY <1>1, <1>2

(* The session that is saved with the layout is the one the leaf owes the  *)
(* user, and what the user is told of the connection is true.              *)
THEOREM LeafSoundAlways == SessionSpec => []Sound
<1>1. Orderly /\ Noted /\ (Undisturbed => Steady) => Sound
  BY OrderlyTyped, OrderlyMarked, SteadyKeeps DEF Sound
<1> QED BY <1>1, LeafInvAlways, NotedAlways, PTL

(* A prompt goes to the session that the leaf owes the user, or nowhere.   *)
THEOREM PromptWhereChosenAlways == SessionSpec => []PromptWhereChosen
<1>1. Orderly /\ (Undisturbed => Steady) => PromptWhereChosen
  BY SteadyKeeps
<1> QED BY <1>1, LeafInvAlways, PTL
=============================================================================
