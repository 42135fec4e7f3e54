# Chatobby for Obsidian: models, checks and proofs

Chatobby for Obsidian is the *connector*: a plugin that runs in Obsidian's
renderer, installs and supervises a local agent *runtime* (a separate process),
and shows that runtime's state in its views. Paths below are relative to the
repository root (`src/runtime/...`); in `PROJECT.json` they carry the prefix
`src/` of the checkout.

The TLA+ modules in this directory model the parts of the connector whose
correctness rests on the order of steps: what is on disk when a process dies,
which answer belongs to which question, what has been reported and what has
not. TLC checks them on small instances; for all eleven models TLAPS proves the
safety properties, and the three refinements, for every value of the constants
(under conditions that the theorem or the property names, sections 4 and 6).

    tlc -workers 2 -config FrontendSync_view.cfg MCFrontendSync
    tlapm RuntimeInstallation_proofs.tla

## 1. The system

### 1.1 Parts

| Component | State it keeps | Operations | Talks to |
| --- | --- | --- | --- |
| Runtime installation (`runtime/infrastructure/runtime-installation.ts`) | files under the account-local install root: `current.json`, `pending-installation.json`, `versions/*`, the lock directory | `prepareInstall`, `activate`, `finalize`, `rollback`, `resumePendingInstall`, `removeInstalledRuntime` | update manager; other vaults' connectors through the same files |
| Runtime update manager (`runtime/application/runtime-update-manager.ts`) | the pending installation, joined promises, update status | check, install, activate, finalize, roll back, recover | installation, runtime manager, views |
| Runtime manager (`runtime/application/runtime-manager.ts`) | phase, generation, attempt, process handle, lease, ready descriptor, restart budget | `ensureReady`, `stop`, maintenance, recovery | managed process, lease and descriptor files, demand registry |
| Bootstrap, demand, view controller (`runtime/application/*.ts`) | who needs the runtime | acquire, release, start, retry | runtime manager, views |
| Development pair (`development-pair-*.ts`) | pending and current receipts | adopt, recover, restore | installation, plugin files |
| Session registry (`frontend-session-registry.ts`) | one transport per channel, a utility transport, generations | register, ensure, unregister, replace runtime | transports, views |
| View transport (`transport/ws-client.ts`) | connection state machine, reconnect timer | open, retry, disconnect, set runtime | generated client |
| Generated client (`vendor/chatobby-client/ws-client.ts`) | socket, request table, cutover buffer | connect, request, subscribe | runtime, protocol controller |
| Frontend projection sync (`frontend/*.ts`) | store snapshot, lifecycle, epoch, capabilities, timers | bind, synchronize, apply replay and patches, destroy | client, views |
| Feed, composer, sessions, screens (`features/*`, `ui/*`) | documents of blocks, drafts, request epochs | reducers and request controllers | frontend sync, transport |
| Obsidian bridge (`obsidian-bridge/*`) | second socket on which the runtime calls into Obsidian; connection state | connect, hello, grace timer, route and cancel requests | runtime, Obsidian |
| Directory observation (`features/projects/application/project-directory-observation-service.ts`) | queue of folder renames, pending rescan, attempts, request in flight, retry timer | observe, pump, retry, require rescan | bridge, vault events |
| Semantic context (`obsidian-context/*`) | last snapshot and its sequence | invalidate, refresh | bridge |

`main.ts` wires these: it first recovers an interrupted installation, then
starts observing the vault, then opens views. An update runs through three of
them: the update manager prepares a package, activates it, restarts the runtime
through the runtime manager, waits for a view to reconnect through the frontend
sync, and only then finalizes; a failure before that rolls back.

### 1.2 What is hard

* **Crash recovery.** Obsidian may quit between any two file operations. The
  journal has to describe the disk at each such point, and a later plugin load
  has to be able to act on it.
* **Several processes on one directory.** Every vault that is open runs its own
  connector on the same install root.
* **Epochs.** Views connect, lose their connection and ask anew; answers to the
  earlier questions still arrive, patches overtake subscription results, and
  timers fire in states that their authors did not have in mind.
* **At-least-once requests over a lossy channel.** The directory observation
  repeats requests whose answer was late, not lost, and replaces a queue it can
  no longer trust by one scan.
* **Partial failure.** A rename fails half way through a swap; a directory is
  locked and only partly deleted.
* **Joined promises.** Views, the bootstrap, the installer and the recovery of
  a lost runtime all ask for the same runtime; they share starts, finalizations
  and rollbacks, and a promise that settles moves all of them at once.
* **Cancellation between awaits.** Stop, unloading, a closed view, a replaced
  runtime or a retracted prompt end an operation that has several awaits behind
  it and several before it; what it already did has to be found again.

What makes each part correct:

| Component | Correct when |
| --- | --- |
| Installation | the runtime that the pointer names is whole; a load can take up every journal; until acceptance everything replaced still exists; rollback is exact |
| Lock | one process at a time; an abandoned lock is reclaimed |
| Update manager | one installation at a time, finalised or rolled back once whoever asks |
| Runtime manager | one process per generation, none orphaned, none started after stop |
| Frontend sync | the store is a replica of the runtime's sequence; a live view has missed nothing; a view that may still synchronise does |
| Transport, session registry | one client per transport, no client survives disconnect or a replaced runtime |
| Bridge | one owner, no request answered twice, a stale socket decides nothing |
| Semantic context | what the runtime read of Obsidian is still so, or it is told |
| Development pair | no runtime runs beside a connector of another pair; a staged pair is promoted or refused |
| Directory observation | every rename is known, queued or covered by a rescan; renames are learnt in order |
| Composer | text a user typed is sent or kept, never both, never neither |
| Session transitions | a prompt goes to the session the leaf owes its user, whatever it shows meanwhile |
| Feed | the reducers keep one block per id and settle every streaming block |

`PROJECT.json` lists all components, the unmodelled ones with the reason, and
the hazards with the line at which each bites.

## 2. Modules

| Module | Models |
| --- | --- |
| `RuntimeInstallation` | the installation files and the connector processes that change them |
| `MCRuntimeInstallation` | its sets of kill points and failures for TLC |
| `RuntimeInstallation_proofs` | type correctness, the inductive invariant and seven properties, proved; and of `InstallationLock` mutual exclusion and the refinement of `ExclusiveLock` |
| `ExclusiveLock` | what a lock promises |
| `InstallationLock` | `withInstallationLock`, one file-system call per action |
| `RuntimeManager` | start attempts, recoveries, closings and the runtime processes |
| `RuntimeManager_proofs` | its inductive invariant, `Sound` and `StopMeansStopped`, proved |
| `RuntimeUpdate` | the update manager and everybody who asks it for a runtime |
| `RuntimeUpdate_proofs` | its inductive invariant, `OneMutation`, `HealthyKept` and `Sound`, proved |
| `FrontendSessions` | the session registry with its transports, sockets and retry timers |
| `FrontendSessions_proofs` | its inductive invariant and `Sound`, proved |
| `ProjectionReplica` | what a projection store promises: a copy of a prefix of one source |
| `FrontendSync` | store, protocol controller, cutover buffer, view binding, and the runtime behind a connection |
| `MCFrontendSync` | its comparison of the release of the buffer with a fold, for TLC |
| `FrontendSync_proofs` | its inductive invariant, `Sound`, `CutoverComplete` and the refinement of `ProjectionReplica`, proved |
| `DevelopmentPair` | the adoption of a staged development build over its receipts, cache and runtime |
| `MCDevelopmentPair` | its pairs for TLC |
| `DevelopmentPair_proofs` | its inductive invariant, `Sound` and `Proven`, proved |
| `ComposerSubmission` | drafts, submissions, cancellation and retraction of one composer |
| `SessionTransitions` | the session one leaf owes its user: restorations, transitions and prompts |
| `ComposerSubmission_proofs` | the two inductive invariants of what becomes of a prompt: `Consistent`, `Once` and `Freed` of `ComposerSubmission`, `Sound` and `PromptWhereChosen` of `SessionTransitions`, proved |
| `ObsidianBridge` | the bridge's owners, client, socket and requests, and the context it pushes |
| `DirectoryMirror` | what the runtime is promised about folder renames |
| `DirectoryObservation` | the observation service, the bridge's socket and the runtime behind it |
| `DirectoryObservation_proofs` | its inductive invariant, `Sound` and the refinement of `DirectoryMirror`, proved; and of `ObsidianBridge` the inductive invariant, `BridgeSound` and `HeldFresh` |

Each module has one interface to its neighbours, kept as an assumption that the
neighbour's module discharges in its own terms: `RuntimeUpdate` sees the
journal of `RuntimeInstallation` as a phase and the start of `RuntimeManager` as
one step that succeeds or fails; `FrontendSessions` sees a runtime that is bound
and unbound; `FrontendSync` sees the connection of `FrontendSessions` as up or
lost; `DirectoryObservation` sees of `ObsidianBridge` only whether its socket is
ready. They are not composed in one state space: each alone comes to some
hundred thousand states. The semantic context is composed with the bridge, because
what it promises is about both.

### 2.1 RuntimeInstallation

State: the files (`pointer` = `current.json`, `journal` =
`pending-installation.json`, `dirs`, `staged`, `backup`, `failed` = the
directories below `versions/`, `litter` = a temporary file left in the root),
the recorded `lock` owner, and for each process its control point `pc` and the
`handle` it holds. A directory holds nothing, something damaged, a package
shipped before, or the package an operation copied, so a property can say
*which* package is where. `before` is history: what an operation found.

Actions follow the awaits of the code. `BeginPrepare`, `Prune`, `Stage`,
`Displace`, `Promote`, `RecordPrepared` are `prepareInstall`; each has a `...Fails`
twin for the throw of its file operation, with the error path that the code
runs, whose own renames may fail as well (`Compensated`). `Activate` to
`Release` are `activate` and `finalize`; `BeginRollback` to `EndRollback` are
`rollback`; `LoadClean`, `Resume`, `ResumeRefused` are the plugin load;
`BeginRemove` to `EndRemove` are `removeInstalledRuntime`, whose parallel
deletions happen in either order; `RemoveFails` is the throw of one of them, which
leaves some packages whole or in part, and the pointer unless it was removed
before. (`Promise.all` rejects at the first failure; a deletion that goes on after
it is taken to have ended before it.) `Crash` kills a process at a point of
`CrashPoints`. `prepareInstall` and `removeInstalledRuntime` run under the
lock, everything else does not, as in the code. Here the lock itself is taken
in one step; `InstallationLock` opens that step up.

Packages are verified by content: `Intact` stands for the manifest and hash
checks. Package download, manifests and the development resolver leave the
installation alone and are not modelled; `rollback(pluginVersion)` and
`removeVersion` have no caller.

### 2.2 InstallationLock

State: whether the lock directory exists, the process in its `owner.json`,
whether it is old, who is alive, and what each contender read. `Create` and
`Contend` are the two results of `mkdir`; `WriteOwner` the record;
`SetMode` the chmod between the two, whose failure leaves a lock without owner;
`ReadOwner`, `ReadAge`, `Judge`, `Clear`, `Remake` the path through
`installationLockOwnerIsGone` (`ReadAge` looks at the age of a lock whose owner
cannot be read); `Leave` the `finally`; `Exit` the end of a
process anywhere; `Age` the 30 s after which a lock without an owner counts as
abandoned. Process ids are not reused.

### 2.3 FrontendSync

One view. A patch is its position in the runtime's sequence, so the content
that the store shows is the sequence of the positions it applied.
`Connect`, `Restore`, `Drop`, `Ask`, `FireTimer`, `Close` are what happens to the
view and the controller; `BufferPatch` and `HandlePatch` are the client's and the
store's patch path; the other `Handle...` actions are the continuations of
`performSynchronize` and of the error paths. Requests and answers carry
`current`, which turns false when the epoch they belong to ends: that is the
code's comparison of epoch counters. `GoLive` contains the whole tail of a
synchronisation, the release of the buffered patches in order and the timers
they set included. Malformed frames, refused requests and timers that fire within
another synchronisation (outside `Quiet`) are `Trouble`, which `spent` counts:
what is claimed only without it says so by `Untroubled`.

The release is stated in closed form: the store ends at the last patch that
extends it without a gap (`Reached`, `AppliedAll`), and each patch beyond it, or of
another instance, sets a timer (`TimersFor`). `MCFrontendSync` has TLC compare both with what
the code does, `applyPatch` on one patch after the other in sequence order
(`ReleasedInOrder`).

The runtime's side (`Emit`, `EmitGap`, `EmitMalformed`, `Replace`,
`AnswerNegotiation`, `TakeCut`, `SendAnswer`) is what the protocol lets it do:
patches may be sent between taking the cut of a subscription and sending its
result. Messages of one connection keep their order (one WebSocket).

Detailed screens, intents and the reducers inside a patch are abstracted away.

### 2.4 DirectoryObservation

The service's fields are one record `svc`; `Retry`, `RetryRescan`,
`RequireRescan`, `Pump`, `ObserveRename` are its methods, functions from record
to record, as they call each other synchronously. Sending fails when the socket
is closing but nobody was told yet (`bridge = "closing"`), and then the code
retries from inside `pump`; that recursion is in `SendRescan` and
`SendObservation`. The runtime carries a request out (`Apply`), asks to be asked
again (`Refuse`, a retryable answer), or answers *rejected*, *conflict* or
*recovery-required* with `retryable = false` (`Decline`): then the service drops the
rename or clears the rescan like after a success, because it looks at nothing but
`retryable`. `HandleTimeout` leaves the request and its answer under way.

`missed` is history: the renames since the last scan that the runtime declined, and
those made while the answer to a rescan was on its way (`Settling`). The
properties, and `DirectoryMirror`, say exactly how far these reach: everything
else is still learnt.

### 2.5 RuntimeManager

The manager in managed mode. `m` holds its fields; `attempt`, `recovery` and
`closing` are the three kinds of asynchronous work with their control points and
locals: a start (`ensurePromise`: `Resolve`, `ReadExisting`, `Authenticate`,
`ProbeExisting`, `DiscardStale`, `Prepare`, `Launch`, `Spawned`,
`CandidateAppears`, `Verify`, `Accept`, each with its failure), the recovery of a
runtime whose process exited or whose connections failed (`Report`, `GiveUp`,
`RetryNow`, `DiscardLost`, `Recovered`), and a stop, a maintenance commit or an
unloading (`BeginStop`, `Commit`, `BeginDetach`, `Drain`, `ExitOverdue`,
`Closed`, `Detached`). The generation counter is the flag `live` of the attempt,
which every increment clears. `proc`, `descriptor` and `tokens` are the
processes and the two files that lead a later start to them: processes come up
(`Serve`), exit, crash or hang on their own at any time. The restart policy
counts failures up to the breaker.

A start may be asked for at any time (`Ensure`): during a stop, a maintenance
commit or a detach, when a start that was cancelled is joined (166) or a new one
begins beside the closing, and after a detach, which the plugin also calls when
its mode changes. `GiveUp` is a control probe that fails: because the runtime
hangs, or, as a fault, although it answers others. A second closing is not asked
for while one waits.

`mishap` is history, set at the step at which the code loses track: `"forgone"` (the
restart timer fires while a cancelled start is still ending, 756), `"overrun"` (the
end of a closing forgets what a start has set meanwhile, 246-248, 305-307),
`"misjudged"` (a runtime that answers and has no process handle is given up, and its
descriptor removed, 736-741). What is claimed is claimed of every behaviour up to
there, and safety also beyond a `"forgone"`.

Assumed: a control probe (3 s) answers before a shutdown is given up (75 s); the
sockets of a process that is gone close at once.

### 2.6 RuntimeUpdate

`RuntimeUpdateManager` with its callers. `Call`, `Confirm`, `FallBack` and the
`Finalize...`/`Rollback...` actions are `ensureRuntime` with the finalization or
rollback of a recovered installation that callers join; `Offer` to `Install` are
`installInternal`: admission by the runtime (`Admit`, `Commit`), `Prepare`,
restart (`StartSucceeds`, `StartFails`), `Seal`, and the way back (`Unwind`,
`Undo`). `BootStarts`, `BootProvisions` and `Retry` are the bootstrap
coordinator. A request may come at any time, also while the runtime stops or a
package is undone; `draining` are the stops that still wait for the start they
cancelled, and `stray` is history: a request started the runtime while a package was
being undone (`Undoing`). `Work` and `Die` are the runtime; `Restart` ends Obsidian at any
point and runs `recoverInterruptedInstallation`.

Not in this abstraction: automatic restarts (they are `RuntimeManager`'s), the
check for updates and the download, reuse of a package that is installed
already, and the bootstrap's stop of a runtime it provisioned.

### 2.7 FrontendSessions

One entry `e[c]` for each channel and one for the utility transport: life of the
view, transport with URL, socket, reconnect timer and attempts, and the
`connectEntry` in flight with those who await it. `Register`, `Ask`,
`AskUtility`, `Unregister`, `BindRuntime`, `DisconnectRuntime` are the registry;
`ConnectOk`, `ConnectFails`, `Replaced`, `Closed`, `ClosedForGood`, `RetryFires`
the transport and its client. What a bind awaits is decided when it begins: the
channels registered then, or the utility transport (`Binding`). A transport retries
`MaxAttempts` times, then nothing happens until somebody asks (`GivenUp`). `Spawn`
and `Exit` are runtimes coming and going.
Assumed: one `ensureUtility` at a time; credentials for the handshake are there.

### 2.8 ObsidianBridge

`Configure`, `Remove`, `DisposeBridge` and `Reconcile` (a microtask) are the
coordinator; `Connect`, which may find that no socket can be created
(`Refused`, 145-151), `Opened`, `GraceEnds`, `Drop`, `Closed`, `RetryFires` the client with
its grace timers, which nothing cancels; `Invoke` and `Settle` the router's
requests. Assumed: no message is delivered after `close()`, request ids are
unique, and the shortest retry (2 s) is longer than the grace (0.5 s).

`agreed` is what the hello and `capabilities_changed` told of the plugins, and the
fingerprint with which the two-second `Watch` compares; `Toggle` changes them, also
back. `ctx` is the semantic context service: `Change` stands for any event it
listens to, `Flush` for its timer; an answered request or a prompt (`Capture`)
flushes first and captures only if the last snapshot was given up. `held` is what
the runtime read over the bridge that stands. Domains and revisions are one;
pings are left out.

### 2.9 ComposerSubmission

A text is its number. `Type` to `RestoreStash` are what the user does to the draft
and the stash; `Send`, `Steer`, `CancelSend`, `StopTurn` the submission
lifecycle; `Prepare` to `PlanEnds` the view's `sendPrompt` up to the runtime's
answer; `Judge`, `Answered`, `RetractionFails` a retraction, from the runtime's
decision to what the composer makes of it; `Turn...` and `Refresh` the turn as
the view is shown it. `Send` asks for no more than the code: a prompt from the palette
is sent in the middle of a turn as well, and the runtime takes it once it is idle.
A retraction fails by an error frame, by its timeout or with the connection, which the
view is told of separately (`RetractionFails`, `Refresh`); the first two abort the turn
(231-236).

`mishaps` is history, the things that the code does not provide for: a retraction
asked again while one is in flight (`"repeat"`), a draft that Stop restored and the user
changes while its submission is undecided (`"rework"`), a prompt sent from the palette
while a retraction is in flight (`"crossed"`), and a turn that is counted as running
when the runtime has ended it (`"late"`, until the view is next told that nothing
streams). Each is recorded at the step at which it happens; what is claimed is
claimed of all behaviours up to there. Not modelled: a prompt status of "retracted"
without an abort, prompts that slash plans send themselves, interactions, history
recall, compaction, a third retraction while two are in flight; that an earlier turn's
collapsing blocks may move the output marker is abstracted away.

### 2.10 SessionTransitions

One leaf. `target` and `queue` are `SessionRecovery`: what is owed, and the
restorations, each waiting for the one before (`Reconciled`, `StartHead`,
`HeadSyncs`, `FinishRestore`, `Fail`); identity of the target object is the flag `mine`,
the epoch of a connection the field `conn`. `op` is the operation that the
`OperationCoordinator` admits: a restoration, a choice of the user, a session
created by a prompt, or another that excludes them (`Hold`, `OpSyncs`, `Apply`,
`Refuse`, `Result`, `SessionSettled` follow `dispatchSessionMutation` and
`runSessionTransition`; `Looks` finds that a blank session need not be created,
201-208; `Decline` is a refusal by a notice). `Connect`, `ViewSyncs`, `Disconnect` are the
`ConnectedViewRestorationController` and `markTransportDisconnected`; `Hydrate`,
`Activate`, `Choose` what Obsidian and the user ask; `Flush` the snapshot batcher;
`Prompt` to `SendPrompt` are `sendPrompt` with `ensureActiveSessionTarget` and
`submitAuthorizedPrompt`: `Placing` is the comparison of directories (267-273), by which a
prompt leaves a session that lies `Elsewhere` for a new one. `chosen` is history: the
session the leaf owes the user, among them one that a prompt created in the leaf's
directory. `upset` is history too: what first crossed that choice, one of `"competing"`,
`"overtaken"`, `"stale"` and `"undrawn"` (section 7), recorded at the step at which it
does. All of them happen in the model; safety is claimed up to the first.

What a settled promise continues with comes before anything else (`Quiet`).
Assumed: a patch arrives before the result of the intent that caused it; Obsidian
hydrates a leaf before a connection can be lost; every session can be recovered.
A reconnected runtime either still has the view's session or gives it another
(`remote' \in {remote, Boot}`). `New` stands for any created session, and
the leaf's directory does not change.

### 2.11 DevelopmentPair

A pair binds a source fingerprint and a runtime bundle to connector artifacts. The
disk is `pending`, `current`, the `installed` connector and the `cache` of bundles;
`proc` is the runtime process, `m` what the runtime manager keeps of it (attached,
the command it is pinned to, a restart timer), `load` one load of the plugin with
the locals of `adoptPending`. `Check` to `Seal` are its awaits, `Stop` to `Report`
the catch with `restorePreAdoptionState` and the gate; each may fail. `Unload`
ends a load at any of them, the runtime surviving or not; `Exit`, `Restart` and
`Use` are the runtime's end, the timer and a view's demand. `Stage` is the workflow
outside, which waits for an adoption to end; `Damage` changes cached bytes.

History: `current.ran` is the bundle of the instance that gave the proof;
`mishap` records the two events that the code does not survive (section 7).
Assumed: restart delays outlast writing a receipt; what is staged is not changed
before it is copied.

## 3. Abstract specifications

* `ExclusiveLock`: taken by one, released by its holder. `InstallationLock`
  implements it with the process that has created the directory as holder.
* `ProjectionReplica`: the replica is replaced by a prefix of the source or
  extended by the next patches. `FrontendSync` implements it under every
  disturbance.
* `DirectoryMirror`: a rename is learnt after all earlier ones, or the whole
  vault is read. `DirectoryObservation` implements it.

## 4. Runs

Each cfg names its bounds. State counts are TLC's distinct states.

| Run | States | Asks |
| --- | --- | --- |
| `install_safe` | 149 000 | With kills outside the windows between two renames and every failure whose error path keeps the prior runtime: `ActiveIntact`, `RecoveryAdmitted`, `PriorRetained`, `RollbackExact`, `AcceptedIsActive` |
| `install_faults` | 1 356 000 | With *every* kill and failure and a damaged package at the start: `BackupKeptUntilAccepted`, `JournalNotOverwritten` still hold |
| `lock` | 102 | Two processes, either of which may exit anywhere: `MutualExclusion`, `RefinesExclusiveLock`, and whoever is left gets in (`Reclaimed`) |
| `runtime_manager` | 1 030 000 | Starts, asked for at any time, closings and recoveries interleave with crashes and missed probes: `Sound` (never two that answer; a live one can be found and ended), `StopMeansStopped`, `Answered`, up to a mishap |
| `runtime_update` | 215 000 | Views, bootstrap and installer at once: `Sound` (one writer, leases returned, no healthy runtime undone, and the selected package runs unless a request went astray), `Answered`, `DeferredTakenUp` |
| `sessions` | 275 000 | Views and runtimes come and go: `Sound` (no stale connection, nothing left of a closed view), `Answered`, `Recovers` (until the retries are used up) |
| `sync` | 317 000 | Lost connections, a gap, a replaced runtime, one trouble of any kind and closing: `Sound` (capabilities only of a live, current view; untroubled, only legal edges and always somebody to act), `CutoverComplete`, `RefinesReplica`, `Converges` |
| `development_pair` | 1 015 000 | Staged pairs, unloads, failing calls, damage and exits: `Sound` (no mixed pair), `Proven` (a receipt carries the proof of its own bundle), `Taken` |
| `composer` | 289 000 | Drafts against turns: `Consistent` (no revoked file is shown), `Once`, `Freed`, up to a mishap |
| `transitions` | 330 000 | Connections, layouts, directories and choices against restorations and prompts: `Sound` (what is owed is kept, and reported restored only when it is) and `PromptWhereChosen` until choices cross, `PromptsAnswered` |
| `bridge` | 348 000 | Owners, sockets and timers: `BridgeSound` (available means ready, the newest view is served, nobody gets another's answer), `HeldFresh`, `Comes`, `Informed` |
| `directory_observing` | 220 000 | Timeouts, late answers, refusals for now and for good, overflow, lost connections, disposal: `Sound` (no rename is forgotten but those `missed`, attempts are bounded), `RefinesMirror`, `Converges` |

**Why the bounds are enough.**
`install_*`: two versions give re-installation of the active version, change of
version and a retained third state (none); two or three operations give an
installation after a finished, rolled-back or killed one; two kills give a kill
during recovery from a kill. Operation ids are symmetric. `lock`: a holder and a
contender, either dying at every point, are all that two processes can do, and a
third is the race of section 7; with `MayExit = {}` four processes hold as well (3 381
states), and the proof covers both. `runtime_manager`: two instances are a lost runtime and
its successor, and an id is used again when nothing refers to it; two failures open
the breaker; one fault besides those that closings make (`MaxFaults`); closings come
without bound, one at a time. `runtime_update`: two views are one that asks and one that joins, next to
bootstrap and user; two faults are a failing installation whose undoing fails;
one restart is enough to recover an installation once. `sessions`: one view and
the utility transport share all registry code paths; two runtimes with two binds
each give replacement, loss and rebinding; two attempts and three faults let the
retries be used up while the runtime stays.
`sync`: a head of three patches allows a patch before, during and after the
cut; two instances a replacement; two timers a timer that meets another's
synchronisation, the one trouble. `development_pair`: the four pairs differ in nothing but
assets, nothing but connector, and both; three stages are a pair, its successor and
one to return to; one fault (two hold as well for the invariants, 4.2 million states). `composer`: three texts are a draft, a stash and a newer draft;
two submissions one after, in the middle of, or during the retraction of, another;
one file is attached to any of them; two retractions may be in flight.
`transitions`: two stored sessions next to the runtime's own, one of them and the
runtime's own in another directory (`Elsewhere`); two layouts make a target change
while it is restored, one drop (`MaxDrops = 1`) a loss during any of this, one fault a
refused request, a failed synchronisation or a session that is gone. `bridge`: two owners take over from each other, three
configurations give a third takeover while two grace timers are pending; the
request may be repeated, so that answers, reads and takeovers follow each other. `directory_observing`: a queue of
two and four renames overflow it with one in flight; two attempts make
exhaustion of an observation, then of a rescan, happen; two drops give a loss
during the recovery from a loss. Deadlock is not checked: every one of these
systems may come to rest, when its bounds are used up and its work is done.

**Restrictions and what they mean.** Some disturbances are more than the code
survives. They are named in two ways. A constant leaves them out of a run:
`CrashPoints` and `IOFailures` (installation), `MayExit` (lock), `Mishaps` (sessions),
`Listening` (what is read over the bridge). A history variable records that one happened: `spent`
(sync, read by `Untroubled`), `missed` (directory), `stray` (update), `mishap` (manager, development pair),
`mishaps` (composer), `upset` (transitions); there the disturbance is part of the model
and of the theorems, and the property says what it no longer claims. The `CONSTRAINT`
of three runs (`Untroubled`, `Untangled`, `Undisturbed`) stops TLC from exploring what comes
after a state in which nothing is claimed any more; that state itself is reached and checked.
Liveness there is checked on the behaviours that stay within it. In each case the
property fails with the disturbance, and section 7 says how: they mark the limits of
the code, not of the model.

## 5. Fairness

* Lock: file-system calls return (weak fairness of the steps of a process that
  has not exited), time passes (strong fairness of `Age`: a lock is left alone
  for 30 s at some time, or is taken), and an owner record that can be written
  again and again is written at some time (strong fairness of `WriteOwner`,
  whose failure is a transient I/O error).
* Runtime manager: awaits return, because every one of them is a file operation,
  a request with a timeout, or a wait with a deadline; timers fire; processes
  that are starting, told to leave or killed do so; a transport notices a
  runtime that no longer answers (`Report`). Nobody has to ask or to stop.
* Update: operations end, starts conclude (with a runtime or an error, by
  `RuntimeManager`'s `Answered`), the bootstrap's timer fires.
* Sessions: a handshake succeeds or fails (it has a timeout), a socket whose
  runtime is gone closes, timers fire.
* Sync: the transport reopens a lost connection (its reconnect timer), the view
  restores its session after connecting, received messages are handled, the
  runtime answers requests, and timers fire. No fairness for the runtime making
  patches, nor for the view asking.
* Bridge: a socket opens or closes, timers fire (the flush and the capability
  watch among them), the microtask runs, operations meet their deadline.
* Development pair: the awaits of an adoption return or time out; the workflow
  loads the plugin again while its receipt is there.
* Directory: the runtime works off requests, answers arrive, the retry timer
  fires, a closing socket closes. A lost bridge need not come back, which is
  why `Converges` is conditional, and a timeout need not happen: it is a fault
  with a bound, because an answer that never comes and a timer that always wins
  would be the same behaviour as a dead runtime.
* Transitions: promises continue, the runtime answers or the connection fails, a
  transport that is awaited is reached or not. Strong fairness, because each of
  these steps waits while another promise's continuation runs. Nobody has to
  connect, to choose or to let go of an operation that excludes transitions.
* Composer: none; its properties are safety.

## 6. Proofs

The proof modules are checked from nothing by `tlapm`; no step is omitted and
there are no assumptions besides the `ConstantAssumption` of the modules
(`LockAssumption` of the lock, `BridgeAssumption`, `SessionAssumption`) and those the theorems name. Every proof has the same shape: an invariant that is
inductive, checked by TLC as an invariant of the component's run before it was
proved, `Init => Inv`, one lemma for each action (under it one step for each
part of the invariant that the action can disturb), and the properties from the
invariant. Helpers that return records (`Pump`, `Conclude`, `Fresh`, ...) have
a lemma each that says what they return, so that the steps need not unfold them.

**RuntimeInstallation_proofs.**
`TypeCorrect` holds with no further assumption: any number of vaults, versions,
operations, kills and failures. It needs two facts more than `TypeOK`, that a
record in use names an operation and a version (`HandleNames`,
`JournalNames`), otherwise the `EXCEPT` of a rename would not be typed.

`Inductive`, `ActiveIntactCorrect`, `RecoveryAdmittedCorrect`,
`PriorRetainedCorrect`, `RollbackExactCorrect` and `AcceptedIsActiveCorrect`
assume `SingleVault` (one connector process at a time) and `SafeFaults` (kills
outside `CrashWindows`, failures outside `FailureWindows`, nothing damaged at
the start): without either of them the properties are false, section 7.

The argument is one inductive invariant, `IInv`. None of the five properties is
inductive: that rollback restores what was there depends on the backup holding
it, which depends on the journal describing what the operation found, which
depends on the handle from which the journal was written, which depends on
what pruning left. `IInv` says this part by part: `Describes` (a record tells the
truth about what its operation found), `BackupWhole`, `PointerOf` (the pointer
is the old or the new one, as the journal's state allows), `HandleInv`
(a process that works on an installation holds exactly the journal),
`PreparingInv` and `RollbackInv` (what is where between two renames) and
`SettledInv` (with no journal the pointer names a whole package). The proof has
one lemma for each group of actions and in it one step for each action. The two
action properties follow from `IInv` in the state before and the one step that
ends an installation (`JournalEnds`).

`JournalNotOverwrittenCorrect` and `BackupKeptCorrect` need only `SingleVault`:
no kill and no failure is left out, and packages may be damaged from the start.
What carries them is far less than `IInv`: `Agreed`, that nothing is pending
while a process is inside the lock, and that what a process holds outside it is
what the journal records.

The last part is about `InstallationLock`, whose names begin with `Lock` where
both modules have one (`LockInit`, `LockNext`, `LockSpec`), for any set of
processes under the assumption `Few`: none of them exits, or there are two, which
may exit anywhere. `Exclusive` is inductive: only a process that owns the directory
has made it, its record, once written, names it, and whoever judges a lock
abandoned or takes it over is alone, because the other one, whose lock it is, has
exited. Hence `MutualExclusionCorrect`, reclamation included, and each step is one
of `ExclusiveLock` or a stutter, hence `LockRefinement`. With a third process two
contenders can both remove the directory, section 7: `Few` is exact.

**RuntimeManager_proofs.** `SoundAlways` and `StopMeansStoppedAlways` hold
for any numbers of instances, crashes, hangs, missed probes and recoveries, starts
being asked for at any time. `Orderly`, in the properties, excepts what comes after a
closing that forgot a start or a healthy runtime that was given up. That two
runtimes never answer at once is not inductive: a start launches without
looking at the process table, so what matters is what it has established on its
way. `Cleared` says that point by point (what is known of the old process while
probing, discarding, preparing, prepared, spawning); `OneLive` and `Findable`
that whatever is live is the process of the latest token and is found by
it, unless a recovery is about to discard it; `GivenUp` describes that exception,
the hardest part: while a runtime is given up, the manager may already have a
new start under way, which must wait until the old process is gone; `Held`
says which process the manager's fields name; `Silenced` what the closings
leave behind when nobody asks again. `AttemptShape` and `ControlShape` tie control points to fields.

**RuntimeUpdate_proofs.** `OneMutationAlways` (the journal has one
writer: an installation, a finalization or a rollback) and `HealthyKeptAlways`
(a package is rolled back only while no view has been given the runtime) hold
with no assumption. They rest on `Recovered`: a recovered package is the only
business there is. So does `SoundAlways`: only `RunsSelected` within it excepts, by
`stray`, a request that started the runtime while a package was being undone
(section 7). `Selected` says that what is up or coming up is what the pointer names,
and `Stopping` that a stop has cancelled the start it waits for, so that nothing comes
up while the pointer is turned back; requests in the middle of any other stop are
part of the proof. Checked by TLC on 214,678 states.

**FrontendSessions_proofs.** `SoundAlways` for any views, channels,
runtimes and retries, with `Mishaps \subseteq {"terminal"}`: a refused credential
is allowed, the other mishaps are those of section 7. The property speaks of
channels at rest; the invariant has to say what is true in the middle of a
replacement. `Shape` is about one entry (a socket needs a transport; one attempt
is made at a time; while the old socket ends nothing else is open), `Follows`
about an entry and the bound runtime: a connection that is being made for
an earlier runtime has somebody queued who will begin anew. Checked on
275,383 states.

**FrontendSync_proofs.** `SoundAlways`, `CutoverCompleteAlways` and
`ReplicaImplemented` (every step of the view, its connection and the runtime is a
step of `ProjectionReplica` or a stutter) for any number of patches, instances,
losses, gaps, malformed frames and timers; the troubles are not assumed away,
`Sound` itself says what they spoil. Four parts are about the wire: `InOrder`
(behind a request or answer of this epoch there is no other), `Expected` (what
is on its way is what the controller waits for), `Sequenced` (patches on the wire and
in the buffer are the running instance's, oldest first) and `Cut`. `Replicated` says
that a cut on its way is not older than the store, without which replacing the
store could take it back; `Complete` that all patches newer than a cut on
its way are buffered or follow it, which is what `CutoverComplete` comes to once the
cut has arrived. The release of the buffer is a closed form (`Reached`,
`AppliedAll`); `MCFrontendSync` lets TLC compare it with the fold that the code
performs. Checked on 317,167 states. The proof showed that `MaxInstance > 0`
is needed, which `ConstantAssumption` now says.

**DevelopmentPair_proofs.** `ProvenAlways` and `SoundAlways` for any pairs,
artifacts, unloads and faults. `Proven` excepts runtimes that could
not be reached and `Sound` loads that a mishap befell, in their statements. A
receipt is about a process that has long gone, so `Identified` says that the
instance in a receipt is never that of another process (`Fresh`), `Tried`
that what is started, proved and promoted in one adoption is one pair's,
`Stable` that nobody else writes meanwhile, and `Unspoilt` which runtime is
attached at each point of an undisturbed load. Checked on 1,015,199 states. The
proof needs `Configured # None`: the configured pair is a pair.

**DirectoryObservation_proofs.** `SoundAlways` and `MirrorImplemented` (the
refinement of `DirectoryMirror`) for any queue limit, number of attempts, renames,
lost connections, declined requests and faults. `InOrder` says that the queue is
exactly the latest renames in order and that all earlier ones are dealt with (known
or `missed`), unless a rescan is due; `Attended` that the answer waited for is that of the
item sent, and that an answer that need not be retried leaves nothing behind it that is
not dealt with; `Connected` what a started, a lost and a disposed service may hold;
`Bounded` counts attempts: those of a rescan that outlives connections grow by one with
each, and the requests a silent runtime has been sent stay within one exhausted
observation and one exhausted rescan. Checked on all 219,819 states of the run.

**DirectoryObservation_proofs, the bridge.** `BridgeSoundAlways` and
`HeldFreshAlways` for any owners, configurations, invocations and changes. `Phases` relates the client's
status to its socket (the old one may still be closing), `InFlight` says that a
running request belongs to the configuration that is served, without which an
answer could reach a later view, and `Aged` that an outdated snapshot has its
flush pending and a runtime nobody listens for was told nothing. The proof
showed that no bound on the retries follows from the code: `configure` resets the
attempts, so the model's `grace` is any natural number (section 7).

**ComposerSubmission_proofs, the composer.** `InvAlways` holds for any texts,
files and submissions, whatever mishaps there were. A property about texts is
about where each of them is, so the invariant is about places. `Typed` and `Known`
say that texts, files and submissions exist, `Shaped` what stage a pending send is in and
that whoever retracts is owed an answer. `Busy` says what keeps the composer busy: a
turn of the runtime, or a retraction whose answer will free it. `Whole` says that draft,
stash, pending send and retractable submission are pairwise apart, in text and in
files, and that none of them is in the history or among the revoked files; and that
the one retraction there is holds the draft of the submission that is left. `NoneTwice` and
`Unrevoked` alone are not inductive: a stash that shares a file with a pending
send is harmless until the send ends. `Whole` is claimed while `Untangled`, `Busy`
while no turn is counted as running that has ended (TLC violates the properties with each
of the four mishaps, section 7); sending in the middle of a turn,
failing retractions and late answers are part of the proof. Checked on the run's
288,518 states.

**ComposerSubmission_proofs, the session.** The invariant has two halves.
`Orderly` holds whatever the user does (`OrderlyAlways`): `Ordered`
ties the one operation to who waits for it, `Lined` says of the queue of
restorations that only its head is under way, that a restoration believes to be
`mine` exactly the target there is, and that a prompt awaits at most one of them;
`Marked` what the user was told of the connection. It gives
`MarkedAlways`. `Steady` holds while `Undisturbed` (`LeafInvAlways`): `Placed` says
where the session owed to the user is at each point (the target if there is
one, otherwise what the store has or an operation is fetching), `Owing` that a prompt,
a choice and a fresh leaf find nothing owed when they begin, `Down` that without a
connection what was shown is owed. It gives `LeafSoundAlways` and
`PromptWhereChosenAlways`. Choices, created sessions, prompts that leave for another
directory, losses and layouts at any time are part of the proof; only what `upset` records ends
what it claims. Checked on the run's 330,037 states.

**Only model-checked.** Liveness (`Reclaimed`, both `Converges`, the three
`Answered`, `PromptsAnswered`, `Recovers`, `DeferredTakenUp`, `Comes`, `Informed`,
`Taken`): it rests on fairness and `ENABLED`, out of the prover's reach. That
`FrontendSync`'s closed form of the release is the fold of the code
(`ReleasedInOrder`) would need induction over data; TLC evaluates it for the sets
of patches of its instance. What a theorem assumes away (`SingleVault`,
`SafeFaults`, `Few`, `Mishaps`) or its property excepts (`Orderly`, `stray`, `missed`, `Untroubled`,
`Untangled`, `"late"`, `Undisturbed`) fails in the code, and section 7 says how.

## 7. Where code and documents differ

No run of the project ends in a violation: the runs say what holds, and their
restrictions (section 4) where it stops. What follows was met while modelling;
each item names the change of a cfg that makes TLC show it, where there is one, or the
condition without which TLC finds the property violated.

**Installation** (`RuntimeInstallation`, cfgs `_safe`, `_faults`).
* A kill between moving the installed package aside and writing the journal
  (`runtime-installation.ts` 259-280) leaves a pointer to nothing, and the next
  installation prunes the backup (`CrashPoints = {"displaced"}`,
  `IOFailures = {}`, `MaxCrashes = 1`: `ActiveIntact`).
* A kill inside rollback (398-402) leaves a journal that every later load refuses
  (`CrashPoints = {"rollback1"}`: `RecoveryAdmitted`).
* Resuming takes no lock (293): a second vault rolls back the installation the
  first is working on (`Vaults = {v1, v2}`, no kills: `ActiveIntact`).
* A rollback whose pointer write failed is repeated and deletes the package it
  had restored (`IOFailures = {"rollback-pointer"}`: `ActiveIntact`).
* An interrupted repair of a damaged package makes the load verify the damaged
  backup (`InitiallyDamaged = {n1}`, kill at `held`: `RecoveryAdmitted`).
* A temporary file left by a kill makes `removeInstalledRuntime` refuse (773;
  `litter`, the guard of `BeginRemove`).

**Lock** (`InstallationLock`, three processes, `MayExit = {p1}`, outside `Few`:
`MutualExclusion`). Two contenders that judged the same lock abandoned both
remove it and both get in; and a contender that read the owner of a lock that was
released meanwhile removes the lock of the process after it.

**Process manager** (`RuntimeManager`, `mishap`).
* `"forgone"`: the recovery of an earlier runtime cancels a start in flight, and its
  own restart timer fires while that start is still there (`runtime-manager.ts`
  752-758): the runtime is wanted and there is neither a timer nor an attempt.
  `Answered` claims nothing of these behaviours.
* `"overrun"`: `ensureReady` during a stop returns the attempt the stop has
  cancelled, or starts a runtime that the end of the stop forgets (166, 246-248),
  against `docs/architecture/lifecycle.md` 349-367. A process launched by a start that
  an unloading cancelled is forgotten likewise (305-307): only its credentials lead to
  it.
* `"misjudged"`: a runtime of an earlier load answers its clients but misses one control
  probe (724-726). Its descriptor is removed and there is no process to terminate
  (736-741), so the next start launches a second one beside it.
* Without `Orderly` TLC shows `OneServing` and `StopMeansStopped` violated after the
  last two.

**Updates** (`RuntimeUpdate`).
* A view that asks between the stop of a rejected package and its removal
  (`runtime-update-manager.ts` 222, 366) gets the rejected package, which then
  runs on (`stray`: `RunsSelected` without it; against
  `docs/architecture/managed-runtime-lifecycle.md` 167-172).
* A view that asks between the installer's stop and start (343-347) makes the
  installer's own start return the old runtime; a sound installation is undone.
* The bootstrap may stop a runtime it provisioned while a view uses it
  (`runtime-bootstrap-coordinator.ts` 74, not modelled).

**View sessions** (`FrontendSessions`).
* A view closed while its transport awaits the end of the old socket gets a new
  socket nobody closes (`transport/ws-client.ts` 200; the utility transport
  likewise, `frontend-session-registry.ts` 138-141; `Mishaps = {"disturb"}`:
  `Sound`). So does one whose credentials are read meanwhile (587, 595;
  `"credentials"`).
* A terminal close after the handshake (`vendor/chatobby-client/ws-client.ts`
  352) notifies nobody; the runs include it, and `Recovers` excludes such channels.
* A connection whose handshakes fail `RECONNECT_MAX_ATTEMPTS` times is given up although
  the runtime is there (`transport/state/transitions.ts` 61-64), as documented: `Recovers`
  excludes it (`GivenUp`), and the run uses the retries up.
* Closing one view during `bindRuntime` fails the start for all (102, 186-188).
* A reconnect does not repeat `setOperatorViewOpen` (145-150, 191).

**Projection** (`FrontendSync`).
* One timer is set for every failing patch (`frontend-protocol-controller.ts`
  250) and none is cancelled; a second one disturbs the resynchronisation the
  first began, and the view stays degraded (`Converges` without `Untroubled`).
* A malformed frame during negotiation throws after it has ended the epoch, and a
  timer that fires after `destroy` is an illegal transition (`Sound` without
  `Untroubled`).
* Detailed screens are requested against one sequence and answered after patches
  have moved it (159); they are not modelled.

**Directory observation** (`DirectoryObservation`, `missed`).
* A folder renamed after the runtime has read the vault and before its answer
  arrives is left to the rescan that is about to be cleared
  (`project-directory-observation-service.ts` 117, 174): nobody tells the runtime.
* An answer with `retryable = false` ends the request whatever its status says
  (158-163, 171-176; `project-directory-protocol.ts` 21-50): a rename answered *rejected*,
  *conflict* or *recovery-required* leaves the queue, and a rescan so answered is
  cleared without the vault having been read; neither is repeated before the next loss
  or overflow makes another rescan.
* A rescan in flight when the connection is lost keeps its attempts, which `TypeOK`
  therefore allows for.

**Development pair** (`DevelopmentPair`, `mishap`; `docs/architecture/managed-runtime-lifecycle.md` 219-316).
* A running runtime that cannot be reached for a moment counts as none (101): no
  maintenance is asked for, `ensureReady` then attaches to it because it has the same
  source, and its bootstrap proves a bundle it does not run (`"unreached"`: `Proven`).
* A runtime that exits between its proof and the promotion, or under an adoption
  that replaces nothing, is restarted by the timer with whatever command is
  pinned by then, and nothing is rolled back (`"exit"`: `Sound`).
* After a deferred adoption nothing is pinned: a restart launches the configured
  command, although the current receipt is still there (114-117; `Unmixed` leaves
  these loads out).
* A pair staged while another is adopted loses its receipt, because both ends of an
  adoption remove the file by its name (158, 178); `Stage` waits for them.
* A trial runtime that survives its failed adoption is attached to later by its
  source, whatever its assets; `Unmixed` speaks of the source.

**Bridge.** What the runtime reads in the half second between hello and the watch is
not watched (`bridge-client.ts` 103-110): a change then is flushed with nobody
listening (`held` set whenever the socket is open: `HeldFresh`). `connect` dispatches `configure`, which resets the attempts that are to
bound its retries (`bridge-connection-state.ts` 45, against
`tests/obsidian-bridge/bridge-connection-state.test.ts` 99): retries are unbounded
in the code and so in the model. A repeated request id overwrites the entry of
the first (`bridge-router.ts` 120).

**Composer** (`ComposerSubmission`).
* Stopping a submission while a newer draft is written puts that draft into the
  stash and throws away what was stashed before (`submission-lifecycle.ts`
  220-223, `draft-state.ts` 27), although the user was told "Draft stashed. It will
  return after your next message." (`composer.ts` 570).
* A send that is cancelled or fails after the user has typed new text is dropped
  (`submission-lifecycle.ts` 192), and the previews of its files leak.
* A prompt sent from the palette while a retraction is in flight (`"crossed"`; `composer.ts`
  274 holds it back by nothing, `view.ts` 548-550): the answer puts a newer draft into the
  stash (220-223), whose text is accepted into the history (179-182) or whose files are
  released when the second send ends.
* A retraction asked a second time (`"repeat"`), and a text that Stop restored and that
  is changed while its submission is undecided (`"rework"`), leave `NoneTwice` and
  `Unrevoked` violated likewise: `Once` and `Consistent` claim nothing after these three.
* An answer about a turn that comes after the turn's end, or is lost after the runtime
  has retracted it, leaves the composer busy (`"late"`; 231-236 set `committedTurnPending`)
  until the view is next told that nothing streams: `Freed` claims nothing meanwhile.

**Session transitions** (`SessionTransitions`, `upset`; each violates `SavedKept` and
`PromptWhereChosen` without `Undisturbed`).
* `"competing"`: the user selects or creates a session while another is owed. The
  restoration is refused by the operation, the chosen session is shown, the old
  target stays, and the next prompt restores it and goes there
  (`session-controller.ts` 237-242, 262; against the comment in 378).
  Likewise `setState` with the session still shown does not withdraw a target that
  was set meanwhile (`view.ts` 424), and a prompt of a leaf without a tab creates a new
  session although one is owed (260).
* `"overtaken"`: a session chosen while a prompt is on its way may receive it, unless
  the prompt carries the vault's capability stamp
  (`prompt-submission-controller.ts` 44-51).
* `"stale"`: the directory that a prompt compares with the leaf's (267-273) is that of the
  session that is shown, which may no longer be that of the chat: the prompt then leaves
  a session that was never compared.
* `"undrawn"`: when the connection is lost while a prompt's restoration is being drawn,
  its end clears the target that stood for the lost tab (`session-recovery.ts` 37, 63); a
  session that was never drawn is not remembered either.
* A target that was remembered at a disconnection and whose session is gone is
  kept for ever, and every prompt fails: the fallback is for `pending` ones only
  (307).

## 8. Plan

1. `RuntimeBootstrap`: demand, view controller and bootstrap, in front of
   `RuntimeUpdate`.
2. `FeedTransaction` (the reducers over one document of blocks), `ScreenRequests`
   (request epochs of detailed screens), the UI snapshots of the semantic context.
3. Session transitions over several leaves: the claiming of a session, cloning
   and project sessions.

Runs are kept to one for each question.

## 9. Not modelled

Rendering, the feature screens and their request controllers beyond the plan,
browser automation and the bridge's operations (calls into Obsidian with hardly
any state of their own), the check for updates, package download and
verification, credentials and settings (configuration and plain I/O), and the
vendored protocol packages (generated types and parsers; what the modules rely on
of them is marked external in the map). What is left out inside a modelled
component is said in its subsection of section 2. The map covers a small share
of the implementation's lines: most of them are rendering and feature screens,
whose behaviour is layout and not order.
