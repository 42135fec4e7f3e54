------------------------- MODULE ComposerSubmission -------------------------
(***************************************************************************)
(* The drafts of one Composer and what becomes of them: written, stashed,  *)
(* sent, cancelled, retracted (ComposerDraftState and                      *)
(* ComposerSubmissionLifecycle), through the view's sendPrompt and         *)
(* TurnAbortController to the runtime's turns and back.                    *)
(*                                                                         *)
(* A text is its number: what the user types is a new text.  Slash         *)
(* activations and references are part of it; files are apart, for their   *)
(* preview URLs are revoked.                                               *)
(***************************************************************************)
EXTENDS Naturals, Sequences

CONSTANTS
  Files,     \* files the user attaches, each stored once
  MaxTexts,  \* bound on texts
  MaxSends   \* bound on submissions

ASSUME ConstantAssumption == MaxTexts \in Nat /\ MaxSends \in Nat

VARIABLES
  view,     \* composer, draft state and submission lifecycle
  srv,      \* the runtime's turn
  pend,     \* the send that is pending
  retr,     \* retractions asked, oldest first, with their results
  written,  \* the last text
  stored,   \* the files stored
  sends,    \* the last submission
  mishaps   \* history: the Mishaps there have been

vars == <<view, srv, pend, retr, written, stored, sends, mishaps>>

(* What the code does not provide for.  "late" ends when the view is next  *)
(* told that nothing streams.                                              *)
Mishaps == {
  "repeat",   \* a retraction is asked again while one is in flight
  "rework",   \* a draft restored by Stop is changed before its send is decided
  "crossed",  \* the palette sends a prompt while a retraction is in flight
  "late"}     \* a turn is counted as running when the runtime has ended it

Empty == [text |-> 0, files |-> {}]
NoPend == [id |-> 0, draft |-> Empty, marker |-> 0, slash |-> FALSE, aborted |-> FALSE, restored |-> FALSE, stage |-> "none"]
NoRec == [id |-> 0, draft |-> Empty, marker |-> 0]
Idle == [turn |-> 0, phase |-> "none"]
Steered == MaxSends + 1   \* the turn of a steer that was promoted to a prompt

Init ==
  /\ view = [draft |-> Empty, stash |-> Empty, revoked |-> {}, rec |-> NoRec, retracting |-> FALSE,
             committed |-> FALSE, stopping |-> FALSE, aborting |-> FALSE, streaming |-> FALSE,
             marker |-> 0, history |-> {}]
  /\ srv = Idle /\ pend = NoPend /\ retr = <<>>
  /\ written = 0 /\ stored = {} /\ sends = 0 /\ mishaps = {}

-----------------------------------------------------------------------------
(* What the handlers do to the view.                                       *)

(* clearDraft(true)                                                        *)
Cleared(v) == [v EXCEPT !.draft = Empty, !.revoked = @ \cup v.draft.files]

Stashed_Released(v) == [v EXCEPT !.stash = v.draft, !.revoked = @ \cup v.draft.files]

(* replaceStashedDraft                                                     *)
Stashed(v) == [v EXCEPT !.stash = v.draft, !.revoked = @ \cup v.stash.files]

(* restoreStashedDraftIfComposerEmpty                                      *)
Unstashed(v) == IF v.draft = Empty THEN [v EXCEPT !.draft = v.stash, !.stash = Empty] ELSE v

Remembered(v, d) == [v EXCEPT !.history = @ \cup ({d.text} \ {0}), !.revoked = @ \cup d.files]

(* commitRecoverableSubmission                                             *)
Commit(v, track) ==
  IF v.rec = NoRec THEN v ELSE [Remembered(v, v.rec.draft) EXCEPT !.rec = NoRec, !.committed = track]

(* observeTurnProgress                                                     *)
Observe(v) == IF v.retracting \/ v.rec.marker = v.marker THEN v ELSE Commit(v, TRUE)

(* acceptSubmittedDraft: with the submission's id, and for good            *)
Recoverable(v, p) ==
  Observe(Unstashed([v EXCEPT !.rec = [id |-> p.id, draft |-> p.draft, marker |-> p.marker], !.committed = FALSE]))
Accept(v, d, track) == Unstashed([Remembered(v, d) EXCEPT !.committed = track])

(* restorePendingSubmissionDraft                                           *)
Restorable(v, p) == ~p.slash /\ ~p.restored /\ v.draft = Empty
Restore(v, p) == IF Restorable(v, p) THEN [v EXCEPT !.draft = p.draft] ELSE v

(* removeRestoredPendingDraft                                              *)
Removed(v, p) == IF p.restored /\ v.draft = p.draft THEN [v EXCEPT !.draft = Empty] ELSE v

(* finishPendingSend                                                       *)
Finish(v) == /\ view' = [v EXCEPT !.stopping = FALSE]
             /\ pend' = NoPend

Inactive_Committing(v) ==
  [Commit(v, FALSE) EXCEPT !.streaming = FALSE, !.committed = FALSE, !.stopping = FALSE, !.aborting = FALSE]

Inactive_Tracking(v) ==
  [(IF v.retracting THEN v ELSE Commit(v, FALSE)) EXCEPT !.streaming = FALSE, !.stopping = FALSE, !.aborting = FALSE]

(* setStreaming(false), and setActivity(false) of the turn's abort         *)
Inactive(v) ==
  [(IF v.retracting THEN v ELSE Commit(v, FALSE)) EXCEPT
     !.streaming = FALSE, !.committed = FALSE, !.stopping = FALSE, !.aborting = FALSE]

(* TurnAbortController.request                                             *)
Abort(v) == [v EXCEPT !.aborting = TRUE, !.stopping = v.aborting => @]

Happens(mishap, when) == mishaps' = mishaps \cup {m \in {mishap} : when}
SeesNoTurn == mishaps' = mishaps \ {"late"}

TurnActive == pend # NoPend \/ view.rec # NoRec \/ view.retracting \/ view.committed \/ view.streaming

-----------------------------------------------------------------------------
(* The user.                                                               *)

(* A draft that Stop has restored while its send is undecided              *)
Undecided == pend.restored /\ view.draft = pend.draft
Reworked == Happens("rework", Undecided)

Type ==
  /\ written < MaxTexts /\ Reworked
  /\ written' = written + 1
  /\ view' = [view EXCEPT !.draft.text = written + 1]
  /\ UNCHANGED <<srv, pend, retr, stored, sends>>

Erase ==
  /\ view.draft.text # 0 /\ Reworked
  /\ view' = [view EXCEPT !.draft.text = 0]
  /\ UNCHANGED <<srv, pend, retr, written, stored, sends>>

(* addFiles, when the file is stored: whichever draft there is by then     *)
Store(f) ==
  /\ f \notin stored /\ Reworked
  /\ stored' = stored \cup {f}
  /\ view' = [view EXCEPT !.draft.files = @ \cup {f}]
  /\ UNCHANGED <<srv, pend, retr, written, sends>>

RemoveFile(f) ==
  /\ f \in view.draft.files /\ Reworked
  /\ view' = [view EXCEPT !.draft.files = @ \ {f}, !.revoked = @ \cup {f}]
  /\ UNCHANGED <<srv, pend, retr, written, stored, sends>>

Clear ==
  /\ ~TurnActive /\ view.draft.text # 0
  /\ view' = Cleared(view)
  /\ UNCHANGED <<srv, pend, retr, written, stored, sends, mishaps>>

Stash ==
  /\ view.draft # Empty /\ Reworked
  /\ view' = [Stashed(view) EXCEPT !.draft = Empty]
  /\ UNCHANGED <<srv, pend, retr, written, stored, sends>>

RestoreStash ==
  /\ view.stash # Empty /\ view.draft = Empty
  /\ view' = Unstashed(view)
  /\ UNCHANGED <<srv, pend, retr, written, stored, sends, mishaps>>

(* Enter and the button send between turns, the palette's command at any   *)
(* time when no send is pending.                                           *)
Send(slash) ==
  /\ pend = NoPend /\ view.draft # Empty /\ sends < MaxSends
  /\ Happens("crossed", view.retracting /\ ~slash)
  /\ sends' = sends + 1
  /\ pend' = [NoPend EXCEPT !.id = sends + 1, !.draft = view.draft, !.marker = view.marker,
                            !.slash = slash, !.stage = IF slash THEN "planning" ELSE "preparing"]
  /\ view' = IF slash THEN view ELSE [view EXCEPT !.draft = Empty]
  /\ UNCHANGED <<srv, retr, written, stored>>

(* Enter in the middle of a turn; an idle runtime makes it a prompt.       *)
Steer ==
  /\ TurnActive /\ pend = NoPend /\ view.draft # Empty
  /\ view' = Cleared(view)
  /\ srv' = IF srv = Idle THEN [turn |-> Steered, phase |-> "accepted"] ELSE srv
  /\ UNCHANGED <<pend, retr, written, stored, sends, mishaps>>

(* Stop or Escape: cancels the send, asks to retract the submission, or    *)
(* aborts the turn.                                                        *)
CancelSend ==
  /\ pend # NoPend /\ ~pend.slash
  /\ pend' = [pend EXCEPT !.aborted = TRUE, !.restored = @ \/ Restorable(view, pend)]
  /\ view' = [Restore(view, pend) EXCEPT !.stopping = TRUE]
  /\ UNCHANGED <<srv, retr, written, stored, sends, mishaps>>

StopTurn ==
  /\ TurnActive /\ (pend = NoPend \/ pend.slash)
  /\ Len(retr) < 2 /\ Happens("repeat", view.retracting)
  /\ LET v == Observe(view)
     IN IF v.rec = NoRec THEN view' = Abort(v) /\ UNCHANGED retr
        ELSE /\ view' = [v EXCEPT !.retracting = TRUE, !.stopping = TRUE]
             /\ retr' = Append(retr, [id |-> v.rec.id, draft |-> v.rec.draft, result |-> "none"])
  /\ UNCHANGED <<srv, pend, written, stored, sends>>

-----------------------------------------------------------------------------
(* A pending send.                                                         *)

(* sendPrompt has connected, found its session and gathered the context.   *)
Prepare ==
  /\ pend.stage = "preparing"
  /\ IF pend.aborted THEN Finish(Restore(view, pend))
     ELSE pend' = [pend EXCEPT !.stage = "asked"] /\ UNCHANGED view
  /\ UNCHANGED <<srv, retr, written, stored, sends, mishaps>>

(* The runtime takes the prompt once it is idle.                           *)
Take ==
  /\ pend.stage = "asked" /\ srv = Idle
  /\ pend' = [pend EXCEPT !.stage = "started"]
  /\ srv' = [turn |-> pend.id, phase |-> "accepted"]
  /\ UNCHANGED <<view, retr, written, stored, sends, mishaps>>

(* Its answer: a send that was cancelled meanwhile is retracted.           *)
Started ==
  /\ pend.stage = "started"
  /\ IF pend.aborted THEN pend' = [pend EXCEPT !.stage = "undoing"] /\ UNCHANGED <<view, mishaps>>
     ELSE Finish(Recoverable(view, pend)) /\ Happens("late", srv.turn # pend.id)
  /\ UNCHANGED <<srv, retr, written, stored, sends>>

(* The runtime retracts a turn whose output has not begun.                 *)
Retractable(id) == srv.turn = id /\ srv.phase \in {"accepted", "streaming"}

(* The answer to retractAcceptedPrompt                                     *)
Undone ==
  /\ pend.stage = "undoing"
  /\ IF Retractable(pend.id)
     THEN srv' = Idle /\ SeesNoTurn /\ Finish(Inactive(Restore(view, pend)))
     ELSE /\ UNCHANGED srv /\ Happens("late", srv.turn # pend.id)
          /\ Finish(Accept(Removed(view, pend), pend.draft, TRUE))
  /\ UNCHANGED <<retr, written, stored, sends>>

(* Anything on the way fails.                                              *)
SendFails ==
  /\ pend.stage \in {"preparing", "asked", "started", "undoing"}
  /\ Finish(Restore(view, pend))
  /\ UNCHANGED <<srv, retr, written, stored, sends, mishaps>>

(* acceptSlashSubmission                                                   *)
PlanAccepted ==
  /\ pend.stage = "planning"
  /\ pend' = [pend EXCEPT !.stage = "planned"]
  /\ view' = IF view.draft = pend.draft
             THEN Accept([view EXCEPT !.draft = Empty], pend.draft, FALSE) ELSE view
  /\ UNCHANGED <<srv, retr, written, stored, sends, mishaps>>

PlanEnds ==
  /\ pend.stage \in {"planning", "planned"}
  /\ Finish(view)
  /\ UNCHANGED <<srv, retr, written, stored, sends, mishaps>>

-----------------------------------------------------------------------------
(* Retraction of a submission that was accepted.                           *)

(* The runtime takes retractions in their order.                           *)
Judge(i) ==
  /\ i \in DOMAIN retr /\ retr[i].result = "none" /\ (i > 1 => retr[i - 1].result # "none")
  /\ IF Retractable(retr[i].id)
     THEN /\ srv' = Idle /\ view' = Inactive(view) /\ SeesNoTurn
          /\ retr' = [retr EXCEPT ![i].result = "retracted"]
     ELSE /\ retr' = [retr EXCEPT ![i].result = IF srv.turn = retr[i].id THEN "output-started" ELSE "not-found"]
          /\ UNCHANGED <<srv, view, mishaps>>
  /\ UNCHANGED <<pend, written, stored, sends>>

(* The others: that of a turn which has been retracted already succeeds.   *)
Remaining ==
  [i \in 1..(Len(retr) - 1) |->
     IF Head(retr).result = "retracted" /\ retr[i + 1].id = Head(retr).id
     THEN [retr[i + 1] EXCEPT !.result = "retracted"] ELSE retr[i + 1]]

(* It was too late to retract: the turn goes on, if there still is one.    *)
Resumed(v) == Commit([v EXCEPT !.retracting = FALSE], TRUE)
Outlived == Happens("late", view.rec # NoRec /\ srv.turn # view.rec.id)

Answered ==
  /\ retr # <<>> /\ Head(retr).result # "none"
  /\ LET r == Head(retr)
         v == [view EXCEPT !.retracting = FALSE]
         kept == IF v.draft = Empty THEN v ELSE Stashed(v)
     IN \/ /\ r.result = "retracted"
           /\ view' = [kept EXCEPT !.rec = NoRec, !.committed = FALSE, !.stopping = FALSE, !.draft = r.draft]
           /\ UNCHANGED mishaps
        \/ r.result = "output-started" /\ view' = Resumed(view) /\ Outlived
        \/ r.result = "not-found" /\ view' = Abort(Resumed(view)) /\ Outlived
  /\ retr' = Remaining
  /\ UNCHANGED <<srv, pend, written, stored, sends>>

(* It has no answer: an error, half a minute, or the connection, without   *)
(* which nothing is aborted.                                               *)
RetractionFails ==
  /\ retr # <<>> /\ Outlived
  /\ view' \in {Resumed(view), Abort(Resumed(view))}
  /\ retr' = Remaining
  /\ UNCHANGED <<srv, pend, written, stored, sends>>

-----------------------------------------------------------------------------
(* The runtime's turn as the view is shown it.                             *)

TurnStreams ==
  /\ srv.phase = "accepted"
  /\ srv' = [srv EXCEPT !.phase = "streaming"]
  /\ view' = Observe([view EXCEPT !.streaming = TRUE])
  /\ UNCHANGED <<pend, retr, written, stored, sends, mishaps>>

(* Output that counts: a tool starts, a text is complete                   *)
TurnOutputs ==
  /\ srv.phase = "streaming"
  /\ srv' = [srv EXCEPT !.phase = "output"]
  /\ view' = Observe([view EXCEPT !.marker = srv.turn])
  /\ UNCHANGED <<pend, retr, written, stored, sends, mishaps>>

(* Whatever the runtime has been asked of it                               *)
TurnEnds ==
  /\ srv # Idle /\ srv' = Idle /\ SeesNoTurn
  /\ view' = Inactive(view)
  /\ UNCHANGED <<pend, retr, written, stored, sends>>

(* A connection change or a tab shows the same session again.              *)
Refresh ==
  /\ \/ view.streaming /\ view' = Observe(view) /\ UNCHANGED mishaps
     \/ ~view.streaming /\ view' = Inactive(view) /\ SeesNoTurn
  /\ UNCHANGED <<srv, pend, retr, written, stored, sends>>

(* The abort request fails.                                                *)
AbortFails ==
  /\ view.aborting
  /\ view' = [view EXCEPT !.aborting = FALSE, !.stopping = FALSE]
  /\ UNCHANGED <<srv, pend, retr, written, stored, sends, mishaps>>

Next ==
  \/ Type \/ Erase \/ Clear \/ Stash \/ RestoreStash \/ Steer \/ CancelSend \/ StopTurn
  \/ \E f \in Files : Store(f) \/ RemoveFile(f)
  \/ \E slash \in BOOLEAN : Send(slash)
  \/ Prepare \/ Take \/ Started \/ Undone \/ SendFails \/ PlanAccepted \/ PlanEnds
  \/ \E i \in 1..2 : Judge(i)
  \/ Answered \/ RetractionFails
  \/ TurnStreams \/ TurnOutputs \/ TurnEnds \/ Refresh \/ AbortFails

Spec == Init /\ [][Next]_vars

-----------------------------------------------------------------------------
TypeOK ==
  LET Drafts == [text : 0..MaxTexts, files : SUBSET Files]
  IN /\ {view.draft, view.stash, view.rec.draft, pend.draft} \subseteq Drafts
     /\ {view.retracting, view.committed, view.stopping, view.aborting, view.streaming} \subseteq BOOLEAN
     /\ view.history \subseteq 1..written /\ view.revoked \subseteq stored /\ stored \subseteq Files
     /\ {view.marker, srv.turn} \subseteq 0..Steered /\ {view.rec.id, pend.id} \subseteq 0..sends
     /\ srv.phase \in {"none", "accepted", "streaming", "output"}
     /\ pend.stage \in {"none", "preparing", "asked", "started", "undoing", "planning", "planned"}
     /\ Len(retr) <= 2 /\ written \in 0..MaxTexts /\ sends \in 0..MaxSends
     /\ mishaps \subseteq Mishaps

(* No text that the view counts as sent waits to be sent again, and none   *)
(* waits twice: cancelling and retracting give a draft back exactly when   *)
(* its submission is gone.                                                 *)
NoneTwice ==
  LET waiting == {view.draft.text, view.stash.text} \ {0}
  IN /\ waiting \cap (view.history \cup (IF view.retracting THEN {} ELSE {view.rec.draft.text})) = {}
     /\ view.draft.text = view.stash.text => view.draft.text = 0

(* No draft that is shown, stashed or may come back holds a file whose     *)
(* preview has been revoked.                                               *)
Unrevoked ==
  view.revoked \cap (view.draft.files \cup view.stash.files \cup view.rec.draft.files
                     \cup (IF pend.slash \/ pend.restored THEN {} ELSE pend.draft.files)) = {}

(* Both hold as long as retraction and sending have not got in each        *)
(* other's way.                                                            *)
Untangled == mishaps \subseteq {"late"}
Once == Untangled => NoneTwice
Consistent == TypeOK /\ (Untangled => Unrevoked)

(* When the runtime has no turn and owes no answer, the composer is free:  *)
(* unless an answer came, or failed to, after the turn's end.              *)
Freed == "late" \notin mishaps /\ srv = Idle /\ pend = NoPend /\ retr = <<>> => ~TurnActive
=============================================================================
