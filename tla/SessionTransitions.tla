------------------------- MODULE SessionTransitions -------------------------
(***************************************************************************)
(* One leaf and the session it is to show: what it owes the user after a   *)
(* lost connection or a saved layout (SessionRecovery), the transitions    *)
(* between sessions (SessionController), the restoration of a connection   *)
(* (ConnectedViewRestorationController), and the prompts that have to wait *)
(* for them.                                                               *)
(*                                                                         *)
(* The epoch of a connection is the value of `conn`: a restoration has     *)
(* none, the current one or an old one.  What promises continue with       *)
(* happens before anything else does.                                      *)
(***************************************************************************)
EXTENDS Naturals, Sequences

CONSTANTS
  Stored,         \* sessions on disk
  Boot,           \* the session a runtime gives a view that it does not know
  New,            \* the session the user, or a prompt, creates in the leaf's directory
  None,
  Elsewhere,      \* sessions in another directory of the vault than the leaf's
  MaxDrops,       \* bound on lost connections
  MaxHydrations,  \* bound on layout states the leaf is given
  MaxFaults       \* bound on requests that fail and sessions that are deleted

ASSUME SessionAssumption ==
  /\ {Boot, New, None} \cap Stored = {} /\ Boot # New /\ None \notin {Boot, New}
  /\ MaxDrops \in Nat /\ MaxHydrations \in Nat /\ MaxFaults \in Nat
  /\ Elsewhere \subseteq Stored \cup {Boot}

Sessions == Stored \cup {Boot, New}

VARIABLES
  up,        \* is the transport connected?
  remote,    \* the session the runtime has for this view
  store,     \* the session of the projection
  shown,     \* the session of the tab, which follows the projection
  target,    \* SessionRecovery.target
  queue,     \* its restorations: the head works, the last is `active`
  op,        \* the operation that keeps session transitions out
  leaf,      \* the restoration of the connection, and what the user was told
  prompt,    \* the prompt that is being sent; did one go elsewhere than owed?
  chosen,    \* history: the session the leaf owes the user
  hydrated,  \* was the leaf given its saved state?
  gone,      \* sessions that were deleted
  spent,     \* disturbances so far
  upset      \* history: what first crossed the choices of the user, of Upsets

Upsets == {
  "competing",  \* a session is chosen or created while another one is owed
  "overtaken",  \* a session is chosen while a prompt is on its way to one
  "stale",      \* a prompt leaves a session that is shown but no longer is the chat
  "undrawn"}    \* the connection is lost while a session is to be drawn

shows == <<store, shown>>
world == <<up, remote, hydrated, gone>>
sessionVars == <<up, remote, store, shown, target, queue, op, leaf, prompt, chosen, hydrated, gone, spent, upset>>

NoTarget == [path |-> None, source |-> "none"]
NoOp == [by |-> "none", at |-> "none", goal |-> None]

SessionInit ==
  /\ up = FALSE /\ remote = Boot /\ store = None /\ shown = None
  /\ target = NoTarget /\ queue = <<>> /\ op = NoOp
  /\ leaf = [pc |-> "none", ok |-> FALSE, marked |-> FALSE]
  /\ prompt = [pc |-> "idle", of |-> None, strayed |-> FALSE]
  /\ chosen = None /\ hydrated = FALSE /\ gone = {}
  /\ spent = [drops |-> 0, hydrations |-> 0, faults |-> 0] /\ upset = "none"

Fault == spent.faults < MaxFaults /\ spent' = [spent EXCEPT !.faults = @ + 1]

(* Nothing has crossed the choices of the user yet.                        *)
Undisturbed == upset = "none"

Crossed(how, crosses) == upset' = IF Undisturbed /\ crosses THEN how ELSE upset

(* No promise has settled whose continuation is still to run.              *)
Quiet == prompt.pc \notin {"targeting", "ensuring", "placing"} /\ (queue # <<>> => Head(queue).at # "start")

-----------------------------------------------------------------------------
(* SessionRecovery.                                                        *)

(* Is the restoration one of the present target?                           *)
Same(r) == IF r.path = None THEN target = NoTarget ELSE r.mine

(* requireCurrent                                                          *)
Current(r) == Same(r) /\ r.conn # "old"

(* The target is another one: object identity makes it a new token.        *)
Disowned(q) == [i \in DOMAIN q |-> [q[i] EXCEPT !.mine = FALSE]]

(* reconcile: `who` awaits the restoration that is under way for the same  *)
(* target and connection, or one that is begun after it.                   *)
Reconciled(conn, who) ==
  IF queue # <<>> /\ Same(queue[Len(queue)]) /\ conn \in {"none", queue[Len(queue)].conn}
  THEN [queue EXCEPT ![Len(queue)].awaited = @ \cup who]
  ELSE Append(queue, [path |-> target.path, source |-> target.source, mine |-> TRUE,
                      conn |-> conn, at |-> "start", awaited |-> who])

(* A prompt is sent, or fails and stays in the composer.                   *)
Over(p) == [p EXCEPT !.pc = "idle", !.of = None]

(* submitAuthorizedPrompt reads its target; without a connection it has    *)
(* none.                                                                   *)
Gather(p, session) == IF up THEN [p EXCEPT !.pc = "gathering", !.of = session] ELSE Over(p)

(* The promise of the head settles, with p the prompt and q the queue.     *)
Settle(p, q, ok) ==
  LET awaited == Head(q).awaited
  IN /\ queue' = Tail(q)
     /\ prompt' = IF "prompt" \notin awaited THEN p
                  ELSE IF ~ok THEN Over(p)
                  ELSE [p EXCEPT !.pc = IF @ = "recovering" THEN "targeting" ELSE "placing"]
     /\ leaf' = IF "view" \in awaited THEN [leaf EXCEPT !.pc = "syncing", !.ok = ok] ELSE leaf

(* Mutant: what was restored is not compared with what is owed.            *)
FinishRestore_Hasty(p) == target' = NoTarget /\ Settle(p, Disowned(queue), TRUE)

(* restoreTarget ends: the target is given up if it still is the same.     *)
FinishRestore(p) ==
  IF Current(Head(queue))
  THEN target' = NoTarget /\ Settle(p, Disowned(queue), TRUE)
  ELSE UNCHANGED target /\ Settle(p, queue, FALSE)

Fail == UNCHANGED target /\ Settle(prompt, queue, FALSE)

(* An operation runs at once or not at all; before a session is created,   *)
(* the shown one is looked at, which may be blank unless it is stored.     *)
Hold(by, conn, goal) ==
  op' = [by |-> by, goal |-> goal,
         at |-> IF ~up /\ conn = "none" THEN "reaching"
                ELSE IF by # "restore" /\ goal = New /\ shown \in {Boot, New} THEN "looking"
                ELSE "syncing"]

(* restoreTarget and restoreRecoveryTarget begin.                          *)
StartHead ==
  /\ queue # <<>> /\ Head(queue).at = "start"
  /\ LET r == Head(queue)
     IN IF ~Current(r) THEN Fail /\ UNCHANGED op
        ELSE IF r.path = None
        THEN IF up
             THEN queue' = [queue EXCEPT ![1].at = "syncing"] /\ UNCHANGED <<target, op, prompt, leaf>>
             ELSE FinishRestore(prompt) /\ UNCHANGED op
        ELSE IF op # NoOp THEN Fail /\ UNCHANGED op
        ELSE /\ Hold("restore", r.conn, r.path)
             /\ queue' = [queue EXCEPT ![1].at = "resuming"]
             /\ UNCHANGED <<target, prompt, leaf>>
  /\ UNCHANGED <<world, shows, chosen, spent, upset>>

(* synchronizeFrontend, when nothing is owed or what is owed is gone.      *)
HeadSyncs ==
  /\ queue # <<>> /\ Head(queue).at \in {"syncing", "fallback"}
  /\ \/ /\ store' = remote
        /\ FinishRestore(prompt)
        /\ chosen' = IF Head(queue).at = "fallback" /\ Current(Head(queue)) THEN None ELSE chosen
        /\ UNCHANGED spent
     \/ Fault /\ Fail /\ UNCHANGED <<store, chosen>>
  /\ UNCHANGED <<world, shown, op, upset>>

-----------------------------------------------------------------------------
(* runSessionTransition and dispatchSessionMutation.                       *)

(* Mutant: a transition that fails leaves the promise of its end pending.  *)
Told_Deaf(ok) ==
  IF prompt.pc = "awaiting" /\ op.by # "other" /\ ok THEN [prompt EXCEPT !.pc = "ensuring"]
  ELSE IF op.by = "prompt" THEN IF ok /\ store # None THEN Gather(prompt, store) ELSE Over(prompt)
  ELSE prompt

(* What the end of the operation is to a prompt that awaits it.            *)
Told(ok) ==
  IF prompt.pc = "awaiting" /\ op.by # "other"
  THEN [prompt EXCEPT !.pc = IF ok THEN "ensuring" ELSE "idle"]
  ELSE IF op.by = "prompt" THEN IF ok /\ store # None THEN Gather(prompt, store) ELSE Over(prompt)
  ELSE prompt

(* The operation throws; a saved session that no longer exists is replaced *)
(* by the one there is.                                                    *)
OpFails(missing) ==
  /\ op' = NoOp
  /\ IF op.by # "restore" THEN prompt' = Told(FALSE) /\ UNCHANGED <<target, queue, leaf>>
     ELSE IF missing /\ Head(queue).source = "pending" /\ Current(Head(queue))
     THEN /\ queue' = [queue EXCEPT ![1].at = "fallback"]
          /\ prompt' = Told(FALSE)
          /\ UNCHANGED <<target, leaf>>
     ELSE UNCHANGED target /\ Settle(Told(FALSE), queue, FALSE)

(* ensureTransport fails; Connect is its success.                          *)
Unreached ==
  /\ op.at = "reaching" /\ OpFails(FALSE)
  /\ UNCHANGED <<world, shows, chosen, spent, upset>>

(* createSession: a blank session where the runtime works in the leaf's    *)
(* directory already is kept.                                              *)
Looks ==
  /\ op.at = "looking"
  /\ \E at \in {"syncing", "settling"} : op' = [op EXCEPT !.at = at]
  /\ UNCHANGED <<world, shows, target, queue, leaf, prompt, chosen, spent, upset>>

(* protocol.synchronize; the restoration of a connection looks again       *)
(* whether it is wanted.                                                   *)
OpSyncs ==
  /\ op.at = "syncing"
  /\ \/ /\ store' = remote
        /\ IF op.by = "restore" /\ Head(queue).conn # "none" /\ ~Current(Head(queue)) THEN OpFails(FALSE)
           ELSE op' = [op EXCEPT !.at = "asked"] /\ UNCHANGED <<target, queue, leaf, prompt>>
        /\ UNCHANGED spent
     \/ Fault /\ OpFails(FALSE) /\ UNCHANGED store
  /\ UNCHANGED <<world, shown, chosen, upset>>

(* The runtime changes the session, or refuses.                            *)
Apply ==
  /\ op.at = "asked" /\ op.goal \notin gone
  /\ remote' = op.goal
  /\ op' = [op EXCEPT !.at = "applied"]
  /\ UNCHANGED <<up, hydrated, gone, shows, target, queue, leaf, prompt, chosen, spent, upset>>

Refuse ==
  /\ op.at = "asked"
  /\ IF op.goal \in gone THEN OpFails(TRUE) /\ UNCHANGED spent ELSE Fault /\ OpFails(FALSE)
  /\ UNCHANGED <<world, shows, chosen, upset>>

(* It refuses with no more than a note: there is nothing to restore, and   *)
(* otherwise nothing to change.                                            *)
Decline ==
  /\ op.at = "asked" /\ Fault
  /\ IF op.by = "restore" THEN OpFails(FALSE)
     ELSE op' = [op EXCEPT !.at = "settling"] /\ UNCHANGED <<target, queue, leaf, prompt>>
  /\ UNCHANGED <<world, shows, chosen, upset>>

(* What the leaf owes the user once the operation has its session: a choice*)
(* of the user, and what a prompt creates when nothing, or only a session  *)
(* of another directory, is owed.                                          *)
Owed ==
  IF op.by = "user" \/ (op.by = "prompt" /\ chosen \in Elsewhere \cup {None}) THEN op.goal ELSE chosen

(* The patch and the result; settlePresentation shows the patch at once.   *)
Result ==
  /\ op.at = "applied"
  /\ store' = op.goal
  /\ IF op.by = "restore" /\ ~Current(Head(queue)) THEN OpFails(FALSE) /\ UNCHANGED shown
     ELSE /\ op' = [op EXCEPT !.at = "settling"]
          /\ shown' = op.goal
          /\ UNCHANGED <<target, queue, leaf, prompt>>
  /\ chosen' = Owed
  /\ Crossed("competing", op.by # "restore" /\ target # NoTarget)
  /\ UNCHANGED <<world, spent>>

(* Two frames later.                                                       *)
SessionSettled ==
  /\ op.at = "settling"
  /\ op' = NoOp
  /\ shown' = store
  /\ IF op.by = "restore" THEN FinishRestore(Told(TRUE))
     ELSE prompt' = Told(TRUE) /\ UNCHANGED <<target, queue, leaf>>
  /\ Crossed("competing", op.by = "prompt" /\ target # NoTarget)
  /\ UNCHANGED <<world, store, chosen, spent>>

-----------------------------------------------------------------------------
(* The leaf, its connection and its user.                                  *)

(* setState: a saved path that is not shown becomes the target.            *)
Hydrate(s) ==
  /\ spent.hydrations < MaxHydrations
  /\ hydrated' = TRUE
  /\ target' = IF s \in {None, shown} THEN target ELSE [path |-> s, source |-> "pending"]
  /\ queue' = IF s \in {None, shown} THEN queue ELSE Disowned(queue)
  /\ chosen' = IF s = None THEN chosen ELSE s
  /\ spent' = [spent EXCEPT !.hydrations = @ + 1]
  /\ LET late == prompt.pc \in {"creating", "reconciling", "gathering"}
     IN Crossed(IF late THEN "overtaken" ELSE "competing",
                s # None /\ (late \/ (s = shown /\ (target # NoTarget \/ store # shown))))
  /\ UNCHANGED <<up, remote, gone, shows, op, leaf, prompt>>

(* activateSessionContext, for a leaf that is hydrated or focused          *)
Activate ==
  /\ hydrated /\ up
  /\ queue' = Reconciled("current", {})
  /\ UNCHANGED <<world, shows, target, op, leaf, prompt, chosen, spent, upset>>

(* handleStoredSessionSelect and createSession                             *)
Choose(s) ==
  /\ hydrated /\ op = NoOp /\ s # shown /\ s # Boot
  /\ Hold("user", "none", s)
  /\ Crossed("overtaken", prompt.pc \in {"reconciling", "gathering"})
  /\ UNCHANGED <<world, shows, target, queue, leaf, prompt, chosen, spent>>

(* Compaction, export and the like conflict with a transition.             *)
OtherBegins ==
  /\ up /\ op = NoOp
  /\ op' = [by |-> "other", at |-> "running", goal |-> None]
  /\ UNCHANGED <<world, shows, target, queue, leaf, prompt, chosen, spent, upset>>

OtherEnds ==
  /\ op.by = "other"
  /\ op' = NoOp
  /\ UNCHANGED <<world, shows, target, queue, leaf, prompt, chosen, spent, upset>>

(* The transport connects; the runtime may know the view, or is a new one. *)
Connect ==
  /\ ~up /\ up' = TRUE
  /\ remote' \in {remote, Boot}
  /\ op' = IF op.at = "reaching" THEN [op EXCEPT !.at = "syncing"] ELSE op
  /\ leaf' = [leaf EXCEPT !.pc = IF hydrated THEN "restoring" ELSE "syncing", !.ok = TRUE]
  /\ queue' = IF hydrated THEN Reconciled("current", {"view"}) ELSE queue
  /\ UNCHANGED <<hydrated, gone, shows, target, prompt, chosen, spent, upset>>

(* The connection is lost: local waits end at once, the tab is remembered  *)
(* unless something is owed already, the epoch is over.  Obsidian gives a  *)
(* leaf its state before a connection can be lost.                         *)
Disconnect ==
  /\ hydrated /\ up /\ up' = FALSE
  /\ spent.drops < MaxDrops /\ spent' = [spent EXCEPT !.drops = @ + 1]
  /\ LET cut == op.at \in {"syncing", "asked", "applied"}
         old == [i \in DOMAIN queue |->
                   [queue[i] EXCEPT !.conn = IF @ = "current" THEN "old" ELSE @, !.awaited = @ \ {"view"}]]
         failed == queue # <<>> /\ (Head(queue).at \in {"syncing", "fallback"} \/ (op.by = "restore" /\ cut))
         told == IF cut THEN Told(FALSE) ELSE prompt
     IN /\ op' = IF cut THEN NoOp
                 ELSE IF op.at = "looking" THEN [op EXCEPT !.at = "reaching"] ELSE op
        /\ queue' = IF failed THEN Tail(old) ELSE old
        /\ prompt' = IF prompt.pc = "gathering" \/ (failed /\ "prompt" \in Head(queue).awaited)
                     THEN Over(told) ELSE told
  /\ target' = IF target = NoTarget /\ shown # None THEN [path |-> shown, source |-> "disconnected"] ELSE target
  /\ chosen' = IF chosen = None THEN shown ELSE chosen
  /\ leaf' = [pc |-> "none", ok |-> FALSE, marked |-> FALSE]
  /\ Crossed("undrawn", store # shown \/ (op.by # "user" /\ op.at = "settling"))
  /\ UNCHANGED <<remote, hydrated, gone, shows>>

(* restoreConnectedView goes on when the session is restored or not.       *)
ViewSyncs ==
  /\ leaf.pc = "syncing"
  /\ \/ store' = remote /\ leaf' = [leaf EXCEPT !.pc = "none", !.marked = leaf.ok] /\ UNCHANGED spent
     \/ Fault /\ leaf' = [leaf EXCEPT !.pc = "none"] /\ UNCHANGED store
  /\ UNCHANGED <<world, shown, target, queue, op, prompt, chosen, upset>>

(* The runtime has made a choice of the user that is not answered yet.     *)
Choosing == op.by \in {"user", "prompt"} /\ op.at = "applied"

(* FrontendSnapshotBatcher                                                 *)
Flush ==
  /\ store # shown
  /\ shown' = store
  /\ IF Choosing /\ store = op.goal
     THEN chosen' = Owed /\ Crossed("competing", op.by # "restore" /\ target # NoTarget)
     ELSE UNCHANGED <<chosen, upset>>
  /\ UNCHANGED <<world, store, target, queue, op, leaf, prompt, spent>>

Delete(s) ==
  /\ s \notin gone /\ s # remote /\ Fault
  /\ gone' = gone \cup {s}
  /\ UNCHANGED <<up, remote, hydrated, shows, target, queue, op, leaf, prompt, chosen, upset>>

-----------------------------------------------------------------------------
(* sendPrompt with ensureActiveSessionTarget.                              *)

Prompt ==
  /\ hydrated /\ prompt.pc = "idle"
  /\ prompt' = [prompt EXCEPT !.pc = "connecting"]
  /\ UNCHANGED <<world, shows, target, queue, op, leaf, chosen, spent, upset>>

(* ensureConnectedTransport, then waitForCurrent                           *)
Connected ==
  /\ prompt.pc = "connecting"
  /\ IF ~up THEN prompt' = Over(prompt) /\ UNCHANGED queue
     ELSE IF queue = <<>> THEN prompt' = [prompt EXCEPT !.pc = "targeting"] /\ UNCHANGED queue
     ELSE /\ queue' = [queue EXCEPT ![Len(queue)].awaited = @ \cup {"prompt"}]
          /\ prompt' = [prompt EXCEPT !.pc = "recovering"]
  /\ UNCHANGED <<world, shows, target, op, leaf, chosen, spent, upset>>

(* sessionTargetTransition                                                 *)
Targeting ==
  /\ prompt.pc = "targeting"
  /\ prompt' = [prompt EXCEPT !.pc = IF op.by \in {"none", "other"} THEN "ensuring" ELSE "awaiting"]
  /\ UNCHANGED <<world, shows, target, queue, op, leaf, chosen, spent, upset>>

(* Mutant: a tab is taken for the session that is owed.                    *)
Ensuring_Trusting ==
  /\ prompt.pc = "ensuring"
  /\ IF shown # None THEN prompt' = [prompt EXCEPT !.pc = "placing"] /\ UNCHANGED op
     ELSE IF op # NoOp THEN prompt' = Over(prompt) /\ UNCHANGED op
     ELSE Hold("prompt", "none", New) /\ prompt' = [prompt EXCEPT !.pc = "creating"]
  /\ UNCHANGED <<world, shows, target, queue, leaf, chosen, spent, upset>>

(* Without a tab a session is created, with one it is reconciled.          *)
Ensuring ==
  /\ prompt.pc = "ensuring"
  /\ IF shown # None
     THEN /\ queue' = Reconciled("none", {"prompt"})
          /\ prompt' = [prompt EXCEPT !.pc = "reconciling"]
          /\ UNCHANGED op
     ELSE IF op # NoOp THEN prompt' = Over(prompt) /\ UNCHANGED <<queue, op>>
     ELSE Hold("prompt", "none", New) /\ prompt' = [prompt EXCEPT !.pc = "creating"] /\ UNCHANGED queue
  /\ UNCHANGED <<world, shows, target, leaf, chosen, spent, upset>>

(* A session of another directory is left for a new one, unless another    *)
(* transition is under way; a lost connection makes the directory unknown  *)
(* until the session is drawn again.                                       *)
Placing ==
  /\ prompt.pc = "placing"
  /\ \E known \in {up, up /\ spent.drops = 0} :
       IF shown \in Elsewhere /\ known /\ op = NoOp
       THEN /\ Hold("prompt", "none", New)
            /\ prompt' = [prompt EXCEPT !.pc = "creating"]
            /\ Crossed("stale", store # shown)
       ELSE prompt' = Gather(prompt, store) /\ UNCHANGED <<op, upset>>
  /\ UNCHANGED <<world, shows, target, queue, leaf, chosen, spent>>

(* submitAuthorizedPrompt: the chat must be the same as before its context *)
(* was gathered; a change that is on its way may come first.               *)
SendPrompt ==
  /\ prompt.pc = "gathering"
  /\ IF store # prompt.of THEN prompt' = Over(prompt) /\ UNCHANGED chosen
     ELSE \E s \in {remote} \cup (IF op.at = "asked" THEN {op.goal} ELSE {}) :
            /\ chosen' = IF chosen = None THEN s ELSE chosen
            /\ prompt' = [pc |-> "idle", of |-> None, strayed |-> prompt.strayed \/ s # chosen']
  /\ UNCHANGED <<world, shows, target, queue, op, leaf, spent, upset>>

-----------------------------------------------------------------------------
Continue == StartHead \/ Targeting \/ Ensuring \/ Placing

Work == Unreached \/ Looks \/ OpSyncs \/ Apply \/ Refuse \/ Decline \/ Result \/ SessionSettled

SessionNext ==
  \/ Continue
  \/ /\ Quiet
     /\ \/ HeadSyncs \/ Work \/ ViewSyncs \/ Flush \/ Connected \/ SendPrompt
        \/ \E s \in Stored \cup {None} : Hydrate(s)
        \/ \E s \in Sessions : Choose(s)
        \/ \E s \in Stored : Delete(s)
        \/ Activate \/ OtherBegins \/ OtherEnds
        \/ Connect \/ Disconnect \/ Prompt

SessionSpec == SessionInit /\ [][SessionNext]_sessionVars

(* Promises continue, requests are answered or fail with the connection;   *)
(* a continuation that comes first delays them only (hence SF).            *)
SessionFairness ==
  /\ WF_sessionVars(Continue) /\ SF_sessionVars(Quiet /\ HeadSyncs) /\ SF_sessionVars(Quiet /\ Work)
  /\ SF_sessionVars(Quiet /\ Connected) /\ SF_sessionVars(Quiet /\ SendPrompt)

SessionFairSpec == SessionSpec /\ SessionFairness

-----------------------------------------------------------------------------
SessionTypeOK ==
  /\ {up, hydrated, leaf.ok, leaf.marked} \subseteq BOOLEAN
  /\ remote \in Sessions /\ {store, shown, chosen} \subseteq Sessions \cup {None}
  /\ target.path \in Sessions \cup {None} /\ target.source \in {"none", "pending", "disconnected"}
  /\ \A i \in DOMAIN queue :
       /\ queue[i].path \in Sessions \cup {None} /\ queue[i].mine \in BOOLEAN
       /\ queue[i].conn \in {"none", "current", "old"}
       /\ queue[i].at \in {"start"} \cup IF i = 1 THEN {"syncing", "resuming", "fallback"} ELSE {}
       /\ queue[i].awaited \subseteq {"view", "prompt"}
       /\ queue[i].conn = "current" => up
  /\ op.by \in {"none", "user", "prompt", "restore", "other"}
  /\ op.at \in {"none", "reaching", "syncing", "looking", "asked", "applied", "settling", "running"}
  /\ op.by = "restore" <=> queue # <<>> /\ Head(queue).at = "resuming"
  /\ leaf.pc \in {"none", "restoring", "syncing"}
  /\ prompt.pc \in {"idle", "connecting", "recovering", "targeting", "awaiting", "ensuring",
                    "creating", "reconciling", "placing", "gathering"}
  /\ prompt.of \in Sessions \cup {None} /\ prompt.strayed \in BOOLEAN
  /\ gone \subseteq Stored /\ upset \in {"none"} \cup Upsets

(* The path that getState saves with the layout is that of the session the *)
(* leaf owes the user: the session a runtime gives it meanwhile does not   *)
(* take its place, and neither does an older restoration that ends late.   *)
(* A session may still have to be drawn.                                   *)
SavedKept ==
  Undisturbed /\ hydrated /\ chosen # None /\ ~Choosing =>
    chosen \in (IF target = NoTarget THEN {shown, store} ELSE {target.path})

(* The user is told that the connection is restored only when the session  *)
(* shown before it was lost is back.                                       *)
MarkedSound == leaf.marked => up /\ target.source # "disconnected"

(* A prompt goes to the session that the leaf owes the user, whatever else *)
(* the connection, the runtime and the restorations have come to meanwhile,*)
(* or nowhere.                                                             *)
PromptWhereChosen == Undisturbed => ~prompt.strayed

(* Every prompt is sent or fails, and every restoration ends: they wait    *)
(* for each other, for transitions and for the connection.                 *)
PromptsAnswered ==
  /\ prompt.pc # "idle" ~> prompt.pc = "idle"
  /\ queue # <<>> ~> queue = <<>>

(* A lost session is neither forgotten nor announced before it is back.    *)
Sound == SessionTypeOK /\ SavedKept /\ MarkedSound
=============================================================================
