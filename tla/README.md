# Verification of hara-desktop

hara-desktop is a Tauri application: a React renderer (`src/src`) in a web view, a Rust host
(`src/src-tauri`) that finds, starts and updates the Engine, and two programs that are not in this
repository: the Engine, `hara serve`, and the Workspace Core. The renderer talks to each over a
WebSocket with JSON-RPC calls and events. The modules model the outside programs from how the
renderer and the host use them and from the tests' fakes; PROJECT.json marks those definitions as
external.

What can go wrong in the renderer is ordering: calls are answered late or never, events overtake
answers, sockets close in the middle, and state that outlives a connection (localStorage, React
refs) meets the answers of an earlier one. What can go wrong in the host is a crash between two file
operations, and two processes that do them at the same time. These modules are about that.

| Module | What it is | Checked by run |
| --- | --- | --- |
| `EventStream` | the ordered event stream: `HaraClient` and `App.connect` against Serve | `event_stream`, `live`, `event_stream_superseded` |
| `OrderedFeed` | what the stream promises, abstractly; `EventStream` implements it | `event_stream` (`FeedSpec`) |
| `EventStreamProofs` | proofs about `EventStream`: types, surfaces that agree with the Engine's log, a recovery that loses nothing, the stored cursor, and that it implements `OrderedFeed` | |
| `EventAcks` | acknowledging applied events, and the shutdown that waits for it | `live` |
| `TaskApprovals` | the revision clock that keeps late answers from reviving a permission | `task_approvals`, `window` |
| `TaskApprovalsProofs` | proofs about `TaskApprovals` | |
| `TurnQueue` | submitting, queueing and retrying the messages of one session | `turn_queue`, `live`, `turn_queue_overwritten`, `turn_queue_acknowledged` |
| `TurnQueueProofs` | proofs about `TurnQueue` | |
| `FoldFacts` | induction and folds, for operators that are constants: facts that proofs instantiate | |
| `StagedModels` | the model chosen for the next turn, and the messages that wait for it | `window`, `staged_models` |
| `SpaceSessions` | the Space shown and the conversation that is open in it | `window` |
| `TerminalInput` | the keys of an external terminal, and control of it | `window`, `terminal_input` |
| `RemoteCommands` | the ids under which commands to external sessions are repeated | `window` |
| `ExternalInteractions` | questions and approvals asked from outside the conversation | `window` |
| `WorkspaceStartup` | attaching to the Workspace Core, over epochs and closing sockets | `window` |
| `GroupsDesk` | the Desks of the organizations: directory, boards, tasks and their changes | `window` |
| `WindowViews` | what the window reads and shows: `WorkspaceView`, `Collaboration` and `GroupsDesk` together | `window` |
| `WorkspaceView` | how the view follows the Core's announcements | `window` |
| `WorkspaceProofs` | proofs about `WorkspaceStartup`, and about the views of `WindowViews` | |
| `WorkspaceTasks` | messages to colleagues, and their receipts | `window` |
| `Collaboration` | the hosted messages shown: history, sync, channels, and the answers to sends | `window` |
| `CollaborationSends` | the hosted messages sent: texts, drafts, keys and outcomes | `window` |
| `WindowSends` | what the window may have to send again: `RemoteCommands`, `WorkspaceTasks` and `CollaborationSends` together | `window` |
| `WindowProofs` | proofs about these three, about the decisions of `ExternalInteractions`, and about `EventAcks` | |
| `LocalChannels` | the personal channels: their catalog, members and creation | `host` |
| `LocalChannelSends` | the messages of the personal channels, with their receipts | `host` |
| `PersonalChannels` | the personal channels: `LocalChannels` and `LocalChannelSends` together | `host` |
| `DeliverableDock` | the presentations beside a conversation: tabs, editor, checks and saves | `host` |
| `DockProofs` | proofs about `DeliverableDock` | |
| `EngineHandoff` | the Engine as a process: start, planned restart, restart for an update | `host`, `engine_handoff` |
| `LaunchMarkers` | run markers, crash reports and the update marker | `host` |
| `ManagedCli` | the command-line Hara and its receipt | `host` |
| `WorkspaceCore` | starting the Workspace Core | `host` |
| `NativeHost` | the processes of the host: `EngineHandoff`, `LaunchMarkers`, `WorkspaceCore` and `ManagedCli` together | `host` |
| `HostProofs` | proofs about these four, and about the personal channels | |
| `MCEventStream`, `MCTaskApprovals`, `MCTurnQueue`, `MCLive`, `MCWindow`, `MCHost` | values, symmetry and umbrellas for TLC | |

An umbrella (`MCLive`, `MCWindow`, `MCHost`) holds several parts that share no variable; a
behaviour follows one of them, chosen in the initial state, while the others keep their initial
values. The reachable states are the sum of the parts' and not their product, and nothing a part
can do is lost by it. Each part has its own module with its own specification and can be checked
alone. A property of an umbrella is a property of the part that is followed; the properties it
joins are named in its definition.

## 1. Inventory

Each part: its state, its operations, what is hard, and when it is correct.

### 1.1 Event stream client - `client.ts`, `App.connect` (`EventStream`, `OrderedFeed`)

State: `HaraClient`'s cursor, stream id, frame buffer, recovery flags; `localStorage`'s event
cursor, shared by every client of the window; the surfaces React shows. Operations: `connect`,
`initialize`, pages of `events.replay`, `acceptServerEvent`, `drainEventFrames`,
`synchronizeEventSnapshot`, the close handler. Hard: events arrive while the client recovers, and
again in the replay; the replay fails half-way; the snapshot races newer events; a socket that was
replaced closes late. Correct when: a ready renderer shows a snapshot and every later event, once,
in order; nothing is skipped unnoticed; the stored cursor never moves back; every attempt ends.

### 1.2 Event acknowledgements - `client.ts` (`EventAcks`)

State: acknowledged sequence, delivered count, timer, the acknowledgement in flight and the flushes
that wait for it. Operations: `scheduleEventAck`, `flushEventAcks`, `shutdownServer`,
`waitForClose`, close. Hard: several flushes wake together; a refused call; a close that delivers
events after the state is gone. Correct when: no applied event stays unacknowledged on a connection
that stands, a closed client is quiet, an Engine is asked to exit only after it knows what was
applied.

### 1.3 Task permissions - `task-approval-state.ts`, `App.tsx` (`TaskApprovals`, in part)

State: the projection `taskApprovalStates` and the revision clock, both limited to 128 sessions;
calls in flight. Operations: `capture`, `advance`, `projectTaskApprovalState`,
`projectTaskApprovalReceipt`, `restoreTaskApprovalStates`, and their callers in `openSession`,
`retryQueuedInput`, the approval card, `revokeCurrentTaskApproval`, `handleEvent`, `connect`,
`onClose`, `switchSpace`. Hard: answers overtaken by events, by reconnects and by evictions of the
clock. Correct when: what is shown is granted, no expired receipt is projected, and no valid one is
discarded for an unrelated session. Not modelled: `createTaskApprovalSubmission` (the intent id of
a retried choice, the scheme of 1.6) and `restoreSessionApprovals`.

### 1.4 Turn submission and queue - `App.tsx` 2405-2902 and 3253-3345, `conversation-state.ts`, `task-lifecycle.ts` (`TurnQueue`, in part)

State: `queueRef` beside React's queue, the pending dispatch, the active turn and the task state,
the busy flag, the messages shown as pending. Operations: `sendMsg`, `submitSessionText`,
`sendText`, `enqueueInput`, `cancelQueuedInput`, `retryQueuedInput`, the turn events, close and
reconnect. Hard: refs read around lazy `setState` updaters, busy retries, outcomes that stay
unknown, a 50 ms handoff from the queue. Correct when: an input is in one place until the user
knows how it ended, is taken at most once, stays out when cancelled, and no session is busy for
nothing. Not modelled: interruption by the user, read-only sessions, `turn-failure.ts`.

The model a user picks while a turn runs is staged (`App.tsx` 2312-2403 and 7124-7176,
`StagedModels`): state is the staged choice, the loop that asks Serve to set it, and every message
that waits for the loop. Hard: the choice is repeated while Serve is busy, replaced while it is
asked for, refused, and waited for by the composer, by a Retry and by the drain. Correct when: no
message runs on an older model than the newest choice at its dispatch, and no choice is forgotten
unanswered.

### 1.5 Remote command retry - `remote-command-retry.ts` (`RemoteCommands`)

State: the commands whose outcome is unknown, in memory and in `localStorage` (32, for a day).
Operations: `begin`, `settle`, `prune`, the reading of what is stored. Hard: the fingerprint is
awaited before the list is read; the wall clock jumps; the limit; a reload. Correct when: the
repetitions of one intention carry one id, and a new intention carries a new one.

### 1.6 External questions and delegated interactions - `external-question-state.ts`, `external-interaction-state.ts` (`ExternalInteractions`)

State: bounded records of questions and approvals, tombstones of resolutions that came first, the
decisions kept until Serve confirms them. Operations: receive, resolve, interrupt, restore, expire,
submit. Hard: the limit when all are pending, a snapshot in the middle of an answer, a lost receipt.
Correct when: what can be answered is what Serve waits for, and Serve hears one decision.

### 1.7 Workspace - `workspace-startup.ts`, `workspace-dev-state.ts`, `workspace-collaboration-state.ts`, `workspace-local-channels.ts` (`WorkspaceStartup`, `WorkspaceView`, `WorkspaceTasks`, `Collaboration`, `CollaborationSends`, `LocalChannels`, `LocalChannelSends`)

State: the epochs of starts, selections and visits; the snapshot shown; drafts and pending messages
with their receipts; a cursor through the Workspace's events; the catalog of personal channels, its
revision, and the channel being created. Hard: every answer may be one of an earlier epoch or
overtake another; a change is announced without its contents; a message or a creation may have been
taken by a server that stopped answering, and a reload forgets everything but its id. Correct when:
one client is attached, an idle view is the Core's state, the messages shown have no gap that cannot
be loaded, a text is posted once and a channel created once.

### 1.8 Engine restart and update handoff - `App.tsx` 3965-4050 and 6445-6714, `desktop-update.js`, `lib.rs` (`EngineHandoff`)

State: the discovery record, the Engine processes, `clientRef`, the phase, `plannedUpdateRestartRef`,
where each of three flows (restart, update, a start by the user) is. Hard: the flows overlap in
awaits; an Engine stops late, dies, or is started by hand, and its record may change between two
file operations. Correct when: no record is removed but the one that was compared, whose process is
dead, and an update is installed once, behind a retired Engine.

### 1.9 Native host - `src-tauri/src/lib.rs` (`LaunchMarkers`, `ManagedCli`, `WorkspaceCore`)

State: marker files named by process ids, the pending report, the update marker; the managed CLI
and its receipt; the retained start of a Core. Hard: a crash between any two file operations, two
launches at the same time, process ids that are used again. Correct when: a crash is told and a
clean run is not blamed, an update starts the Engine once, a user's file stays, one Core runs.

### 1.10 Spaces and the open conversation - `App.tsx` 986-995, 1546-1594, 2212-2271, 4053-4926, `space-directory.ts`, `session-place.ts` (`SpaceSessions`)

State: the directory of Spaces, the list of sessions, the conversation that is open, the place
(chat or projects), what each Space remembers, the sessions that are attached, the shield of a
switch, and three request counters. Operations: `openSession`, `newSession`, the two copy flows,
`setZone`, `switchSpace` with its restoration, `runProviderRouteMutation`, `refreshSessions`,
`refreshSpaceDirectory`, two effects of React. Hard: each is a chain of awaits, and the user goes on
between them. Correct when: what is open is what the user asked for last, in the place and the Space
that are shown, read as a whole; the header shows the Space Serve is in.

### 1.11 Raw terminal input - `client.ts`, `ExternalNativeTerminalSurface.tsx` (`TerminalInput`)

State: the buffer of keys, the chain of chunks of each stream with the number of the next, the
handoff under way, who controls the terminal. Operations: typing, flushing, attaching, taking over,
handing over, releasing, unmounting. Hard: chunks are sent after awaits while control changes hands.
Correct when: control leaves the window only with every key that was taken, in order.

### 1.12 Groups - `groups-state.ts`, `Groups.tsx`, `App.tsx` 1899-2087 (`GroupsDesk`)

State: `GroupsState` with a slot for each board and task and the number of the request it waits for;
the directory of organizations with its own number; the switch of Spaces a selection makes; the page of
a task with the change it is saving. Operations: `refreshGroupsDirectory`, `selectGroupsOrganization`,
`readGroupsBoard`, `openGroupsTask`, the changes of a task and the creation of one. Hard: reads
overlap changes and each other, an organization is bound to another Desk, a switch of Spaces resets
everything in the middle. Correct when: nothing is shown of a Desk an organization was bound to
before, a user sees what he changed, and a selection that shows as under way ends.

### 1.13 The dock and its deliverables - `App.tsx` 1157-1215, 2161-2270, 3066-3252, 5040-5425, 8791-8935, `extension-dock-state.ts`, `PresentationWorkbench.tsx` (`DeliverableDock`)

State: the tabs with their owners and dirty flags, the tab selected last, the docks that are hidden;
one presentation for the whole window with its report and receipt; the editor's own draft; the number
of the newest call. Operations: opening, importing, checking, exporting, saving, going elsewhere,
`event.surface`. Hard: all calls share one number and one busy flag, Agents write revisions
meanwhile, and the draft, its mark and what is shown are three pieces of state. Correct when: a
report is about what is shown, the dock does not stay busy, and an Agent does not displace a draft.

### 1.14 How the parts interact

`App.connect` owns the Engine's client, and everything that shows Engine state is cleared and
refilled around it: `clearEngineBoundSurfaces` on connect, close and Space transitions; the
snapshot's callback, then `handleEvent` for each event the client drains. So 1.1 is the ground of
1.3 to 1.6: what they assume of it is `OrderedFeed` (`ExternalInteractions` and `TaskApprovals` take
events in order, and after a reconnection the missed ones in front of a snapshot). 1.2 shares the
client's cursor with 1.1 and 1.8 calls its `shutdownServer`. 1.9 gives `App.connect` an address and
`WorkspaceStartup` a connection. Inside the Workspace, 1.7's parts meet only in the client they are
given: the startup closes the old one before the models of a new one are made. 1.10 decides which
session 1.3, 1.4 and 1.11 act for; its transitions reset the projection of 1.3 (`SwitchSpace`).

### 1.15 The rest

Navigation, settings guards, model connections, automations, the
interface, the generated talent catalogue and the release scripts are listed in PROJECT.json with
the reason why they are not modelled; see also section 11.

## 2. Plan

Done: 1. `EventStream`, `OrderedFeed`, proofs; 2. `EventAcks`; 3. `TaskApprovals`, proofs;
4. `TurnQueue`; 5. `RemoteCommands`; 6. `ExternalInteractions`; 7. `EngineHandoff`; 8. `ManagedCli`,
`LaunchMarkers`, `WorkspaceCore`; 9. `WorkspaceStartup`, `WorkspaceView`, `WorkspaceTasks`,
`Collaboration`, `CollaborationSends`; 10. `StagedModels`; 11. `TerminalInput`; 12. `LocalChannels`,
`LocalChannelSends`; 13. `SpaceSessions`; 14. `GroupsDesk`; 15. `DeliverableDock`; 16. `WorkspaceProofs`,
the proofs about `EventAcks`; 17. the recovery in `EventStreamProofs`; 18. `NativeHost`, `HostProofs`;
19. `WindowSends`, `WindowProofs`; 20. `WindowViews`; 21. `PersonalChannels`; 22. `FoldFacts`,
`TurnQueueProofs`; 23. `DockProofs`.

Left, in this order: the pairing of phones; interruption by the user; the updater's own state; schedules of automations as a pure model.
Abstract specifications worth stating: one for `TurnQueue` (a message is queued, sent, taken or
returned, and nothing else). Theorems worth proving next:
the conjuncts of `SpacesAreTrue`. Section 9 says which properties are out of reach, and why.

## 3. EventStream

**State.** `client` is one `HaraClient` (cursor, `eventFrames`, recovery and what `initialize`
found), `stored` the cursor in `localStorage`, `phase` how far `App.connect` has come, `app` the
surfaces: the snapshot they started from and the events applied since. `superseded` holds clients
that `connect()` replaced before their socket closed. `serve`, `work` and `attached` are the
Engine; `requests` and `messages` the two directions of the socket.

**Steps.** One renderer step handles one WebSocket message to its last microtask, because in the
browser the promise continuations of an answer run before the next message. Messages are told apart
by the state that receives them: `BufferEarly`, `HoldEvent`, `DeliverEvent`, `DropEvent` and
`ReceiveUnnumbered` are the branches of `acceptServerEvent`; `JoinUnnumbered`, `JoinAndReplay` and
`JoinAtCurrent` those of `initialize` and the start of `recoverEventStream`; `ReplayGoesOn`,
`ReplayEnds` and `ReplayFails` the loop over pages and its catch; `ListAnswered`, `ListFails`,
`ApplySnapshot` and `ConnectFails` the rest of `App.connect`. `ConnectionLost`, `Supersede` and
`SupersededCloses` run the close handler, whose rejections drain first and clear afterwards. The
Engine may restart with a new or the same stream, prune its log, refuse a call and send an event
twice. Sessions, plugins and the content of events are abstracted away: an event is its stream,
its number and the life of the Engine that logged it.

**Checked.**

- `ReadyIsAuthoritative`: a ready renderer shows Serve's log up to its cursor - a snapshot, then
  every later event once and in order.
- `NothingLost`: after recovery no event falls between the cursor and the live stream.
- `RecoverySummaryHolds`: a recovery that asks for no snapshot has delivered exactly the missed
  events.
- `SnapshotNotOlder`: the throw of `synchronizeEventSnapshot` about an older snapshot is never
  needed.
- `StoredOnlyAdvances`: only `initialize` moves the stored cursor back.
- `FeedSpec`: with the mapping in `Feed`, every step is a step of `OrderedFeed` or a stutter.
- `ConnectResolves`, `CatchesUp`: liveness, below.

**Runs and bounds.** `event_stream`: logs of three events, pages of one event and at most two pages
(so that a replay of three is cut short), two faults, four generations of Engine (without numbered
events, with replay only, with snapshot only, with both). Three events are one before, one during
and one after a recovery; two faults allow a restart after a lost connection, a refusal after a restart, a
duplicate in a recovery. One client may be superseded, under an Engine without numbered events
(`OnlyLegacySupersedes`): with numbered ones a superseded client refutes `ReadyIsAuthoritative`, which
is the subject of `event_stream_superseded`. `live` checks liveness and `NothingLost` over superseded
clients of every Engine, with two events and one fault because it explores the whole graph. Deadlock
is not checked in any run: with its bounds spent a run may stop.

**Fairness.** Weak fairness of receiving, of the Engine's answers and of `session.list`: a browser
delivers what a socket holds and runs continuations, and a live Engine answers. Nothing is assumed
of connects, faults or new events. `MCLive` writes the guards of some of these actions out instead of
using `WF_`, because TLC finds `ENABLED` of a whole handler too slow: `[]<>~G \/ []<><<A>>_v` is
`WF_v(A)` when `G` is equivalent to `ENABLED <<A>>_v`, and each `G` there is (a socket with a message
can be read, a timer that is set can fire, and so on); the same holds for sections 4 and 6. Without the Engine's answer `connect` would hang: ordinary calls
of `client.ts` have no timeout.

**Found.** `event_stream_superseded` is a run TLC is expected to refute: when `connect()` replaces
a client whose socket has not closed, the late close event rejects the old client's pending call,
whose handler drains old events into the surfaces of the new one (`client.ts:2411`). The changelog
(`CHANGELOG.md:565-568`) promises that the snapshot is applied before newer events and nothing goes
out of order. `ReadyIsAuthoritative` and its proof therefore assume `MaxSuperseded = 0`.

**Proved** (`EventStreamProofs`): the seven safety properties
above, for every page size, number of pages, length of the log, number of faults and set of Engine
generations. Assumed are only the constants' types (`FeatureSetsAssumption`, `BoundsAssumption`).
`TypeCorrect`, `NothingIsLost` and `SnapshotsFit` hold with superseded clients; `Authoritative`,
`SummaryIsTrue`, `StoredAdvances` and `StreamImplementsFeed` say `MaxSuperseded = 0`, because of what
`event_stream_superseded` shows and because a superseded client writes the stored cursor too.

- *Types.* The strengthening `ReplayHolds` is needed because the cursor a failing replay stores must
  have a stream.
- *Authority.* `ReadyIsAuthoritative` is not inductive: the next event comes from the frame buffer,
  the buffer from the socket, the snapshot from the Engine's work in progress. `StreamInv` says of each
  of them that it agrees with the log the Engine has now (`ChannelHolds`, `ClientHolds`), that a
  surface in sync belongs to a ready client of this stream (`SyncHolds`), and that a disconnection
  leaves nothing behind (`OfflineHolds`), so that a restart, which replaces the log, finds no one in
  sync.
- *Recovery.* `NothingLost` speaks of the time after a recovery, and everything it needs happens
  before. `RecoveryInv` says that one call is outstanding at a time (`CallHolds`), so that an answer is
  the answer to what the client waits for; that Serve broadcasts from the moment it takes up
  `initialize`, before the client has a stream (`AttachHolds`); that whatever is behind the sequence
  the recovery will end at is in the buffer or on the socket (`AheadHolds`: of the call in work, of the
  answer on its way, of the client); that the events a page stands for came before it, so that the
  cursor may follow (`PageHolds`); and that a snapshot is taken of a log no shorter than the cursor
  (`WaitHolds`).
- *Promises.* `CursorInv` adds that the cursor in `localStorage` is the client's own once it has a stream
  (`StoredHolds`) and that nothing is shown before the replay has ended (`SummaryHolds`).
- *Refinement.* `Feed` maps the log of the Engine to the abstract log, and the snapshot with the
  events after it to the abstract view while a ready client is in sync. A step that handles an event maps to
  `Advance` by the whole run that is drained, or stutters when the event is held; the snapshot to
  `Synchronize`; a close, a `connect` and a failure to `Disconnect`; an Engine that starts again to
  `Replace`, for which `LifeHolds` bounds the number of Engines that have lived.

Both strengthenings were checked by TLC as invariants before they were proved, in 568,934 states without
superseded clients and 3,286,923 with one.

## 4. EventAcks

**State.** `client` has the part of `HaraClient` that acknowledges: cursor, `lastAcked`,
`delivered`, `timer`, the calls in flight, each with the flushes that await it, and which of them later
flushes wait for.
`shutdown` is how far `shutdownServer` has come. Request ids are kept only while a call is pending.

**Steps.** `Flush` and `SendAck` are the two halves of `flushEventAcks` around its await; `Finally` is
its finally, `Resumed` what the flushes that waited do next, in their order. `Deliver` and
`ApplySnapshot` are what the stream does to the cursor; `Deliver` may also happen after the close,
as `EventStream` shows.

**Checked.** `AckIsComing`: an applied event always has a timer or a call ahead of it.
`ClosedIsQuiet`: no timer and no waiting flush after the close. `ShutdownIsAcked`: `shutdownServer`
goes on without a failed flush only when Serve knows every event applied when it was called.
`AcksTypeOK` includes that the count of unacknowledged events stays a natural number when another
window has acknowledged more. `EveryEventAcked` and `ShutdownProceeds` are liveness, with weak
fairness of the timer, of the acknowledgement's answer and of the shutdown's: a browser fires its
timers and a live Engine answers.

**Bounds.** Batches of two, and three events, reach the batch limit with a call for an earlier
cursor still in flight, so that flushes wait for it and go on in turn; two faults let an
acknowledgement fail and a shutdown fail after it. The run `live` checks safety and liveness.

**Proved** (`WindowProofs`): all of the safety, for any batch size and any number of events and
faults - `AcksTypeCorrect`, `ClosedStaysQuiet`, `AckKeepsComing` (`AckIsComing`) and `ShutdownWaits`
(`ShutdownIsAcked`). None of the four is inductive by itself. `AcksInv` adds to the types that the call
in flight is one that is pending and that no more is counted as delivered than was applied (`Sound`);
that a closed client has no call either, so that only deliveries touch it, and a delivery schedules
nothing once the socket is closed (`Quiet`); that Serve knows at least what the client believes it
knows; and that every call made for a shutdown acknowledges what was applied when the shutdown began,
while one of them exists as long as the shutdown waits (`ShutdownHolds`). That the
next call's id is new, for any number of calls that are pending, rests on `Largest`: a bounded set of
numbers has its greatest, by the well-foundedness of their order. Assumed is `AcksAssumption`: the
constants are numbers, a batch has an event, and there are two events at least, as many as Serve may
know from an earlier connection.

## 5. TaskApprovals

**State.** `serial`, `order`, `revisionOf` are the clock (a `Map` is its keys in insertion order
and their values), `shown` the projection in insertion order, `requests` the calls in flight with
the revision captured for them, `granted` the Engine's truth, `wire` its events on their way,
`snapshot` an `events.snapshot` answer not yet applied. `overtaken` is a history variable of each
call: an event for its session, or a reset, came after it.

**Steps.** `Submit` is the capture before any of the four calls, `ServeCall` the Engine's step,
`Answered` the projection of the receipt under the guards of its caller, `CallFails` a rejection or
an answer without a valid state. `EventArrives` advances the session and projects;
`Connect`, `Disconnected`, `SwitchSpace` reset; `SnapshotApplied` resets and restores. The Engine
is assumed to announce every change of a grant by an event; expiry is such a change, since the
renderer never hides a grant by its own clock.

**Checked.** `ReceiptsExpire`: an overtaken receipt never looks current again, whatever was evicted
in between. `ShownIsGranted`: a permission shown is granted once the session's events have arrived.
`RevisionsAdvance`: no step moves a session's revision back. `ReceiptsCount` and `GrantIsShown`:
below the limit nothing valid is discarded and every live permission is shown.

**Bounds.** `task_approvals` has two sessions and a limit of one, so that every capture evicts the
other session; two calls in flight, three changes of a grant, one connection and one transition.
`ReceiptsCount` and `GrantIsShown` are about the renderer below the limit and are checked in
`window`, with a limit of two, two changes, two connections and no transition (see section 10).
128 plays no role of its own: the theorems hold for every limit. Two sessions and two calls are
interchangeable and are checked up to symmetry in `task_approvals`.

**Proved** (`TaskApprovalsProofs`), for any finite set of sessions and any limit, calls and grants:
`ReceiptsStayExpired`, `RevisionsOnlyAdvance`, `ShownIsAlwaysGranted`, `TypeCorrect` and
`PermissionsStayTrue`. The first two rest on `ClockInv`: remembered revisions do not exceed `serial`,
and a captured one does not exceed the session's current one, strictly once overtaken - which is why
forgetting a session (it is then taken to be at `serial`) is safe. The third needs `GrantInv`: the last
event on the way for a session names its grant, a snapshot and an answer nothing overtook are true once
those events have arrived, and so is every entry shown by a ready renderer. The types need that the clock
remembers a session once and no more sessions than the limit (`OrderType`), which every capture, advance and
eviction has to keep. `PermissionsStayTrue` is `ReceiptsCount` whenever the limit has room for every
session (`Roomy`), and `GrantIsShown` when moreover no transition clears the surfaces of an open
connection (`MaxSwitches = 0`; section 10 has the reason): with room, what the clock has
captured is still remembered (`CapturedStays`, by counting the sessions of a sequence without
repetitions), so no valid answer is taken for an expired one, and no entry is evicted
(`GrantsAreShown`). Assumed are the five named assumptions of the module.

## 6. TurnQueue

**State.** `world` is the generation of Engine and what may go wrong in this behaviour. `ui` is the
renderer's share of one session: `queue` is `queueRef`, `shown` React's
state and `updates` the `setQueue` updaters not yet run; `active`, `task`, `dispatch`, `busy` and
`attached` are the refs of those names; `sends` the calls of `sendText` under way, each with what
it awaits; `mark` how the conversation shows a message (pending, accepted), and `fate` what the
user has been told of it. `calls` are RPCs Serve has not answered, `wire` what it has written.

**Steps.** One step is one callback with the continuations it runs, so that handlers are functions
from a state of the renderer to the next, and an action picks the callback. `Compose` is `sendMsg`
with `submitSessionText`, `Cancel` and `Retry` the two buttons of a queued input; `Receive` the
turn events and the answers, the latter through the branches of `sendText` (`Accepted`,
`NotSubmitted`, `SendBusy`, `SteerOrQueue`, `SteerBusy`, `OutcomeUnknown`, `SendFails`);
`TimerFires` the pauses of its retries and the 50 ms of the drain; `Resume` the answer to
`session.resume`. `Close` runs `onClose` first and then every rejected call, in any order, as
`ws.onclose` does (the rejections are queued before `onClose` runs but continue after it).

**React.** `setQueue` runs its updater in the call when nothing waits to be rendered, and at the
render otherwise; `enqueueInput` and the drain set `queueRef` in the updater, while
`cancelQueuedInput` and `retryQueuedInput` set it themselves. With `world.lazy` false every render is
immediate. With `lazy` true frames may come before the render that is due; timers (50 ms and more)
and clicks come after it.

**Serve.** External, from what the renderer expects: it starts, steers, declines or refuses an
input, or is busy; a durable command id is answered from its receipt the second time, and without
events; the calls of a lost connection may still be read, before those of the next one; its events
and answers share one socket, but an answer may be written after younger events. A command id
stands for `commandId` of any kind: without `Durable` no input carries one, since the renderer does
not send an unknown outcome again then.

**Checked.**

- `InOnePlace`: an input whose end the user does not know is in the queue or in one call, not in
  both and not in neither.
- `AtMostOnce`: Serve takes an input once. `QueuedIsNotTaken`: an input queued without a command id
  has not been taken, so that a new id is safe.
- `CancelledStaysOut`: Serve does not take an input after the user cancelled it.
- `BusyHasReason`: a busy session has a turn, a frame or a call that will release it.
- `InputSettles`: an open input ends, or comes to a queue whose Retry can be pressed.

**Runs and bounds.** Two inputs, one with attachments (not steerable, so it queues behind a live
turn), one turn of somebody else. A world (`Worlds`) is a generation of Engine - without
`session.submit`, with it, and with durable command ids too - and what goes wrong in it.
`turn_queue` has all three generations with one lost connection; apart from it all three with two
faults; the newest with a receipt that Serve loses; and the first two with lazy updaters and one
fault. The run `live` has the two without durable ids, one lost connection and one fault, and checks
liveness and `BusyHasReason`. `BUSY_SEND_RETRIES` is one, or none in the live run,
where one moment of `SERVER_BUSY` is then at the bound: four differ from one only in how often the
same pause is taken. Two inputs are the least for which one waits while another is sent. Deadlock is
not checked: a run may stop when everything is sent.

**Fairness.** Weak fairness of timers, frames, renders and `session.resume` (a browser runs them),
and of Serve reading, answering and ending its turns. Nothing is assumed of the user, of closes or
of connects.

**Found.** Two runs that TLC is expected to refute; PROJECT.json quotes the sentences.

- `turn_queue_overwritten`: the drain at `turn_end` computes the rest of the queue from `queueRef`
  and replaces the queue by it; an enqueue that waits for the render is overwritten, and the input
  is gone without a notice (`App.tsx:3316`).
- `turn_queue_acknowledged`: `turn_start` is given to whatever message is being sent, so the turn
  of another client acknowledges a message Serve has not taken (`App.tsx:2992`).

**What the properties leave out.** All four speak of updaters that React runs in the call: with lazy
ones `turn_queue_overwritten` loses an input, and two ends of turns that come before one render hand
the same one over twice (section 10). `AtMostOnce` and `QueuedIsNotTaken` do not speak of a Serve that
loses receipts: a Retry that waits for `session.resume` sends the command id it read before, although
`turn_end` may have sent the input meanwhile and queued it again under another id (`App.tsx:2810`).
`BusyHasReason` is
not checked with durable ids: whether a Retry that a receipt answers leaves the session busy
(`App.tsx:2542`) depends on events of Serve this repository does not describe.

**Proved** (`TurnQueueProofs`): `InputIsInOnePlace`, `TakenAtMostOnce`, `QueuedWasNotTaken` and
`CancelledIsNotTaken` - the four properties for every set of inputs with and without attachments, every
number of retries, turns of somebody else, lost connections, faults and lost receipts (`Assumptions`
only gives the constants their types). They follow from `QueueInv`, whose parts are:

- `Whole`: no two items of the queue and no two calls of `sendText` are of one input, but for a Retry
  that waits for `session.resume` while its input is in the queue; an open input is in one of the two;
  an RPC is of a call that waits for it, or of none after its connection was lost, and so is an answer
  on the way, which excludes an RPC of the same input.
- `Sound`, while Serve loses no receipt: what may be sent again - handed over, paused, queued, or asked
  again by a Retry - has not been taken, or carries the command id of a receipt; with durable ids an
  RPC and the call that waits for it carry one id.

The proof goes through `sendText` once, from its ends to its start: each operator (`SendBusy`,
`SteerOrQueue`, `Dispatch`, ...) is shown to have one of four results (`Result`: the input ends, is
queued, waits or is asked), and `ResultLands` that each of them keeps the invariant; an action
then only has to say where the call was. `Close` runs the rejected calls one after the other with a
fold: `RejectedKeeps` is the step, and `FoldFacts` the induction. That module states, for operators that
are its constants, what survives every element of a fold (`FoldLeftKeeps`), induction over numbers,
from the library's well-founded relations, and that a bounded set has a largest member; an instance of it gives the
facts for operators of this project, which the theorems of the library cannot. TLC checked `QueueInv`
in 2,480,414 states.

## 7. The parts of the window (`MCWindow`, run `window`)

These parts keep state of their own and call each other only through a client. What one part assumes
of another is said in its section. `WindowTypeOK` is the type invariant of whichever part is followed;
`SentOnce`, `ViewsAreComplete` and `PermissionsAreTrue` join what the sections below name. Two parts
the Core keeps for the window, `LocalChannels` and `LocalChannelSends`, are followed in `host`, which
has room for them; they are described in 7.12 and 7.13. `SentOnce` is defined in `WindowSends`, which
extends the three parts it joins (7.1, 7.5, 7.7); `WindowSendsOnce` proves it of the three together, from
the theorems about each. In the same way `ViewsAreComplete` is defined in `WindowViews`, which extends
`WorkspaceView`, `Collaboration` and `GroupsDesk` (7.4, 7.6, 7.14), and `ViewsStayComplete`
(`WorkspaceProofs`) proves it of these.

### 7.1 RemoteCommands

`tries` are the calls of submit, steer and interrupt for external sessions, `commands` the tracker
and `stored` what `localStorage` has of it. `Begin` is the await of the fingerprint, `Fingerprinted`
what `begin()` does with it and the sending; `ReadAnswer` and `ReadNotice` the three ways to learn an
outcome (result, error, command event); `Close` and `Reload` make outcomes unknown; `ClockMoves`
sets the wall clock to anything. Serve remembers ids and answers a repetition from its receipt.
*`OneIdPerIntention`* (in `SentOnce`): attempts that overlap, are repeated after an unknown outcome
or after a reload carry one id; an attempt after a known outcome carries its own. The exceptions are
in two history variables: `pruned` are commands dropped for their age or number, `revived` ids that a
reload has found again after their outcome was known. A command event between
the user's click and the fingerprint makes the click a new intention. Two intents, a limit of one
pending command and an age of zero make pruning as frequent as it can be. Not modelled: a
`localStorage` that refuses, Engines without durable ids.

The exception `revived` was found by trying to prove the property without it. `begin()` that finds a
prior command returns its id without `persist()` (`remote-command-retry.ts:93`), so a command dropped for
its age from memory in line 87 stays in `localStorage`. When its outcome comes, `settle()` does not hold it
and writes nothing (111). A reload after the wall clock was set back finds it young again, and the next
attempt of the intent carries an id that Serve answers from the receipt of the old one. It takes four
attempts, one more than the run has, and TLC finds it in sixteen states when it is led there.

**Proved** (`WindowProofs`): `CommandsTypeCorrect` and `IntentionsAreTold`, for any number of attempts,
intents and losses and any limit, age and clock (`CommandsAssumption`). `CommandsInv` says that an id
names the attempt that made it (`AttemptsNamed`), that memory holds part of what is stored, one command
for an intent (`CommandsKept`), that what is held is open or has come back (`HeldAreOpen`), and - the part that
makes a repetition find the id - that what is uncertain and was not dropped is held (`OpenAreHeld`); so what an
id means is what it meant first (`NamesMean`). TLC checked it in 442,990 states with three attempts and in
1,915,422 with four.

### 7.2 ExternalInteractions

`cards` and `settled` are a bounded record of requests with the reducers `Receive`, `Resolve`,
`Interrupt`, `Restore`; `attempts` and `decision` the approvals' submissions, which survive
reconnections. Questions and delegated approvals have the same reducers; the submission modelled is
that of an approval, and a question's (`createExternalQuestionSubmission`) follows the same scheme.
*`ShownIsWaitedFor`* (in `DecidedOnce`): once the events under way are applied, what can be answered is open at Serve,
and what is open is shown unless more requests were open than the record holds. *`OneDecision`*:
while Serve waits for a request, all replies to it carry one decision under one command id. A limit
of one with two requests makes every insertion an eviction; one lost connection.

**Proved** (`WindowProofs`): `OneIsDecided`, which is `SpecInteractions => []OneDecision`, for any requests,
turn and limit, with no assumption about the constants. `DecisionInv` says that Serve waits only for what it
has asked for, and never again for what it has accepted an answer to (`AskedFirst`); that an attempt is settled only when
Serve has accepted a command of it, and is in flight as long as its answer is awaited (`AttemptsTold`); and that what was
sent of a request Serve waits for is what its attempt remembers (`SentIsRemembered`). So the eviction
of settled attempts, which lets the window decide anew, concerns only requests that Serve does not wait
for. What the record shows (`cards`, `settled`, the events under way) does not matter to it, and the
steps that change it only leave `DecisionInv` alone. TLC checked it in 75,639 states, with two lost
connections.

### 7.3 WorkspaceStartup

`epoch`, `phase`, `model`, `client`, `pending` are the fields of the controller, `opens` the calls
of `open` at their awaits, `sockets` the clients' sockets, which close later than they are asked to.
*`OneConnection`*: whatever overlaps, no client of an abandoned start stays attached, and a model
shown as ready reads from the current client or its close is due. Three opens: one abandoned, one
whose socket closes, one that succeeds.

**Proved** (`WorkspaceProofs`). `OnlyOneConnection` is `SpecStartup => []OneConnection`, for any
number of starts and clients. The strengthening says that the epoch of each open is its own
(`EpochsAreTaken`), that the client of the controller belongs to the open of the current epoch
(`ClientIsCurrent`), and that no open has a socket before it is connected (`SocketsHaveOpens`): so a
continuation that finds its epoch unchanged is the only one that can, and whoever replaces the client
closes the only socket that is open. Assumed is `WorkspaceStartupAssumption`.

### 7.4 WorkspaceView

`viewEpoch`, `agent`, `shown`, `refreshing`, `dirty` are the fields of `WorkspaceDevModel` that
follow the Core; a snapshot is a version and a resource generation. Requests time out after fifteen
seconds, and the Core reads one after the other, so an answer may be of a version that is gone.
*`ViewIsFresh`* (in `ViewsAreComplete`): an idle view without a notice shows the Core's version, or an announcement is on the
wire. The history variable `overlooked` names the two cases in which the code does lose a change: it
is announced while no colleague is selected yet, when `refresh()` returns at once; and it makes a
refresh dirty that brings another generation, which ends the epoch and the loop with it. Both last
until the next change. Three requests, two changes. Two calls of `selectWorkspace` in one epoch are
one request here; the cache of overviews is not modelled.

**Proved** (`WorkspaceProofs`): `ViewTypeCorrect` and `ViewStaysFresh`, which is `SpecView => []ViewIsFresh`,
for any colleagues and any number of requests and changes. `ViewIsFresh` speaks of a view at rest; the
invariant says what is due before. `InOrder`: the Core answers in the order of the requests, and an
awaited one waits or has its answer under way. `OneRefresh`: of the epoch that is shown one refresh at
most is awaited, and `refreshing` says so; a selection comes in front of it. `StaleIsDue`: if what is
shown is older than the Core, then there is a notice, an announcement on the wire, a dirty refresh, an
awaited request whose answer is not stale, or `overlooked`; and the same, but for the notice, is true of every
awaited answer that will be stale, where the request that saves it must come after it. This second half is why a late answer
cannot cover a newer one, and why a refresh that a change overtakes is dirty or followed. TLC checked
the invariant in 240,868 states. Assumed is `ViewAssumption`: the bounds are numbers, and `Nobody` is
none of the values it stands beside.

### 7.5 WorkspaceTasks

Drafts and pending messages per colleague, `verifyPending` and its receipts. *`TaskSentOnce`* (in
`SentOnce`): a text is accepted at most once, and leaves the composer only when it was accepted or
the user replaced it. Two keys, two texts, three sends, two checks. Not modelled: resume and card
answers, pauses of questions, runtime changes.

**Proved** (`WindowProofs`): `TasksTypeCorrect` and `TaskIsSentOnce`, for any colleagues, texts, messages
and checks (`TasksAssumption`: there is a colleague, and a receipt is read at least once). `TasksInv`
says that a message its composer no longer holds is decided, and was not accepted with its text still there
(`LeftIsDecided`); hence of the messages with one text all but one were rejected (`OneIsOpen`), whose
acceptance is the only one there can be. `TextsTold` and `PendingIsSent` tell the texts apart, and
`DraftStays` is the other half: a text that nobody accepted or replaced is still in a composer. TLC
checked it in 18,566 states.

### 7.6 Collaboration

`selectWorkspace`, `selectChannel`, `loadHistory`, `sync`, `send` and `failure` over a numbered stream of
events. A send and its answer are apart: `SendMessage` puts a key into the `outbox` of its channel
(`pending`), the service accepts the key whenever it likes, once (`Accepts`), and `MessageSent` answers with
the message that was accepted then, or `SendingFails` does not. A Retry of an unknown outcome goes under the
same key, so its answer may be older than everything shown; it is merged into the channel if that is still
the one shown (`Echoed`), and a `sync` follows. Selecting the Workspace again makes what is being sent
unknown, another membership forgets it, and a refusal that revokes the access empties the window
(`Revoked`).

*`NoGap`* (in `ViewsAreComplete`): the messages shown are of the channel shown. Of the messages up to the
cursor one may be missing only in front of every message that was read, and then the next older page has it
or the view is full. So `sync` may drop the messages of other channels, and a channel may load its history
while a sync is in flight. The history variable `echoed` names the messages that only the answer to a send
has brought. These may stand alone: when message 1 is taken with an unknown outcome, others post 2 and 3, and
the channel is read again with the page {3}, a Retry shows {1, 3}. The code does this
(`workspace-collaboration-state.ts:305-308`), the gap is not marked, and `loadHistory` fills it, because
`nextBefore` is still that of the page read; that it can be filled is what the property says.
Pages of one message, two messages shown, three posted, one key, two calls in flight (`MaxFlying`), the first channel
selected is a fixed one of the two: enough for the behaviour above (TLC reaches {1, 3} in nineteen states). What becomes of texts and drafts, and whether a
failure is definite or uncertain, is in `CollaborationSends`. Not modelled: paging of the directory and of
members, creation of channels, services without history.

**Proved** (`WorkspaceProofs`): `FeedTypeCorrect` and `FeedHasNoGap`, which is `SpecCollaboration => []NoGap`,
for any channels, page sizes, number of messages shown, posted, sent and read. Assumed is
`CollaborationAssumption`: pages and what is shown are not empty, and `NoChannel` is no channel. `NoGap`
is not inductive: a page is put in front of what is shown, and what is in front of the messages may be on
its way while a sync adds others behind. The invariant `FeedInv` says what the service and its answers
know (`CallsTold`), that a visit is bootstrapped once and synced from its cursor, one sync at a time
(`Visits`), that what is shown was posted to the channel (`Known`), that what was read has no gap,
begins where the next page ends and is whole when there is no next page (`Covered`), that the page
whose number counts fits in front of it (`PagesFit`), and that what is accepted under a key was posted to
the channel the key was sent in (`SendsKnown`), so that an answer, however old, is of its channel. The step that costs most is the merge: a message
is dropped only when `MaxShown` newer ones push it out (`mergeCollaborationMessages`), and the
messages pushed out are a beginning of what is shown; what counts the newest of a set is a matter of
cardinalities, for which the lemmas stand in front (`Smallest`, `Counted`, `NewestFacts`,
`PageIsNewest`). An echoed message adds to what is newer than others and takes nothing from what was read,
but may push it out, which is why `Has` counts newer messages of either kind. TLC checked `FeedInv` in 444,780 states, without `MaxFlying`.

### 7.7 CollaborationSends

A draft and a pending message per channel with the key under which the service recognizes
repetitions. *`PostedOnce`* (in `SentOnce`): a text is accepted under at most one key and leaves the
composer only when accepted, replaced or forgotten with the membership. What makes it true is
`uncertain`: an outcome that was unknown once stays unknown, even if the service refuses the
repetition. Three items, two visits, one change of membership.

**Proved** (`WindowProofs`): `SendsTypeCorrect` and `PostIsSentOnce`, for any channels, texts, items,
visits and changes of membership (`SendsAssumption`). The heart of `SendsInv` is `PostsHold`: a pending message
may be given up for a new key only if everything that carried its key was refused, which `failed` says of a
message that is answered and `~uncertain` of one that is sent again. From it follow that a text is under a new
key only when all before were refused (`OneKeyIsOpen`), that a message whose key is not pending was refused
or its text is gone (`LeftIsRefused`), and that a key the service took was not refused
(`TakenIsAnswered`); `NotesStay` is the other half, as in 7.5. Without the assignment of `uncertain` in the
branch of a failed request the proof fails in exactly that step. TLC checked the invariant in 597,398 states.

### 7.8 TaskApprovals with room

`ReceiptsCount` and `GrantIsShown` (section 5), with a limit of two for two sessions; together they
are `PermissionsAreTrue`.

### 7.9 StagedModels

Choices are numbered, and Serve's model is the number of the choice it has set. `flush` is the loop
of `flushStagedModelChange`, `senders` the calls of `sendText` that wait for it or for Serve, `engine`
Serve with its turn. `ChangeModel`, `Compose`, `Retry`, `Receive` (the answers to `session.set_model`
and to a message, the turn events with the drain), `TimerFires` (pauses of the loop and of the
sends), `InfoRefreshed`. Engines with `session.submit` are told the model they are expected to have
and refuse a message when they have another; the others make the composer wait for the loop.
*`NewestChoiceIsUsed`*: no message starts a turn on a model older than the newest choice at its
dispatch, unless Serve refused that choice. *`ChoiceIsAnswered`*: a choice leaves the composer only
when Serve has set or refused it. Two messages, two choices (one replaced while it is being asked
for), one retry in each loop, one turn of somebody else, one refusal or moment of `SERVER_BUSY`. The
connection holds: a close forgets the choices.

**Found.** `staged_models` is a run TLC is expected to refute. `retryQueuedInput` takes the message
out of the queue and then waits for the staged model; when Serve refuses it, the catch shows a notice
only, and the message is neither in the queue nor sent (`App.tsx:2799`, 2833-2837), although
`CHANGELOG.md:1626-1627` says that a visible queued message remains retryable. `WaitingStays` states
it.

### 7.10 TerminalInput

`surface` is the component with its refs, `lines` what each stream was sent and the number of its
next chunk, `jobs` the asynchronous functions under way at their awaits, `terminalHost` the Engine,
which gives one stream at a time control of the terminal. `Type` buffers, `FlushTimer` sends,
`Press` is Take control, Release and Reconnect, `SessionUpdated` the effects of a changed session,
`Close` the unmount. *`HandoffIsExact`*: control goes to another window only when every key the
surface took for that stream has reached the terminal, in order. Two keys, two streams, one handoff,
one failure. `Overlapping` is false: the Engine does not ask for a second handoff before it has read
the acknowledgement of the first (section 10 says what happens otherwise).

**Found.** `terminal_input` is a run TLC is expected to refute. `attach()` stores the stream after
its await; a surface that was unmounted, or that attaches again, while an attachment was under way
leaves a stream in control that nobody releases (`ExternalNativeTerminalSurface.tsx:236`, against
`CHANGELOG.md:542-543`). `NoHiddenController` states it.

### 7.11 SpaceSessions

`shell` is what the window keeps: the directory's active Space, the list, the open conversation, the
place, what each Space remembers, `attachedSessionsRef`, the transcripts (none, partial, whole), the
shield of a switch and the flags of a creation and a copy. `calling` are the calls that are awaited,
each with what the code remembers for its continuation: `newest` says that the request counter is
still its own, `flight` the same of a switch. `home` is Serve, `painted` what React's effects saw
last. `Open`, `Create`, `Copy`, `Move`, `Switch` and `Mutate` are the user, `Deliver` the continuation
of an answer, `Paint` the two effects, `Break` and `Connect` the connection, `Stream` and `Announce`
Serve's events, `OtherSwitch` another client.

*`SpacesAreTrue`* joins five properties. `OpensTheNewest`: no late answer opens a conversation over
something the user did later. `InItsPlace`, `InItsSpace`: what is open belongs to the place and, once
React has caught up, to the Space that are shown. `TrustedIsWhole`: a session that counts as attached
is shown from its whole history, so that `openSession` may skip reading it again. `HeaderIsServes`:
when nothing is awaited the header shows Serve's Space and the shield is lifted, unless another client
switched or the header was written from an answer older than the last switch (`past.blind`, section
10). The copy flows are exempt from the second and third: they open their copy whatever happened
since.

Bounds: two Spaces, four conversations (two chats and one of projects in one Space, a chat in the
other; two of them exist at the start, the others are what a creation or a copy makes), two steps of
the user and one event of somebody else - a copy, a close, a refusal, an event, a switch of another
client. A race needs a step, a second one before its answer, and one thing that goes wrong. All five
also hold with three steps and one other, and with two steps and two others. Assumed: a close rejects
every call at once, and a client that `connect()` replaces is `EventStream`'s subject; the five reads of
a snapshot are one; the agent catalog names its own Space; React renders before Serve handles the next
call; the history of a session comes in order with its events.

### 7.12 LocalChannels (run `host`)

`view` has the Workspace, epoch and selection, the catalog and the channel shown, each with its
revision; `refreshing` is the work that is shared while it runs, with its dirty flag; `creation` the
id of the channel being created; `savers` the calls of `updateMembers` that wait for a refresh. The
Core keeps a revision that every change advances, refuses a change made against another one, and
announces changes. A request may be lost, time out before it is read, or be answered slowly:
`applyCatalog` discards older catalogs "that may have started before a successful create"
(`workspace-local-channels.ts:92`), which is why answers out of order are in the model.
*`ChannelsAreTrue`* joins `LocalIsFresh` (when nothing is under way, what is shown is what the Core
has, or an error says so, and nothing is left busy) and `CreationIsKnown` (a creation is forgotten
only when its outcome is known, so that what is created once is created once). `overlooked` names the
case in which an error that is still true is cleared by another answer (section 10). One creation,
one saved member list, one move, one change of others, one failure: each pair of them meets in the
loop of a refresh.

**Proved** (`HostProofs`): `LocalChannelsAreFresh` and `CreationsAreKnown`, for any number of creations,
saved member lists, moves, changes and losses (`LocalAssumption`: they are numbers). That something will
still be read is a claim about everything under way, so `LocalInv` speaks of the renderer as a record `d`
(`DeskInv`): of its requests the Core has not read and the answers that have not arrived, together `Open`.
`KnownOf` says that the view is not ahead of the Core, and that whatever is open at the Core is the creation
that is kept; `AgesOf` that a request is of the epoch, the selection and the work it was made in; `WorkOf` that
work under way waits for a request, and whoever awaits it with it; `BusyOf` that who is busy waits for an
answer, or for such work; `CatalogOf` and `ChannelOf` that what is shown is the Core's, or will be read
again - by a request the Core has not read, by an answer that has the newest revision, by a dirty round, or
because a change is announced - or that an error says it. An answer takes some of these claims with it: the
set `but` of `DeskInv` names the claims that are suspended while the handler runs, and each function
of the model (`WithCatalog`, `WorkEnds`, `Refreshed`, `Selected`) has a lemma that says which of them it
restores. When nothing is under way, only the first and the last alternatives remain, which is `LocalIsFresh`.
TLC checked `LocalInv` before it was proved, with two creations and two losses.

### 7.13 LocalChannelSends (run `host`)

A draft and a pending message for each channel; the id is saved before the message is sent, and a
reload keeps only the id. *`ChannelsAreTrue`* also joins `TypedOnce` (a text is accepted at most once),
`NothingDropped` (a composer is emptied only of what the Core has accepted) and `OpenIsSaved` (what the
Core may still accept is known to be pending, also after a reload). Two channels, two texts, two
messages, one visit of another Workspace or reload, one receipt, one loss; the user types in one of
the channels and answers cards in both.

**Proved** (`HostProofs`): `SendsTyped`, `TextsAreTypedOnce`, `TextsAreNotDropped` and
`OpenMessagesAreSaved`, for any channels, texts, messages, visits, receipts and losses
(`LocalSendsAssumption`: the bounds are numbers, and no channel is `NoChannel`), with a user who types in all
of them. `SendsInv` says what a pending message says of itself is what was sent (`PendingIsSaved`), that a
channel has one message under way at most, whose answer is awaited once (`CallsSaved`, `RepliesAwaited`), that
the words in a composer were sent to no other channel (`TextsTold`), and the two claims that carry
`TypedOnce`: of the messages that count - accepted, or still to be read by the Core - no two have the same words
(`CountsOnce`), and one whose words are still in the composer is the pending one (`HeldIsPending`), so that
they cannot be sent again. `ChannelsAlwaysTrue` proves `ChannelsAreTrue` of the two parts together.

### 7.14 GroupsDesk

`groups` is `GroupsState`, `page` the directory, the switch of Spaces and the page of a task, `deskCalls`
the calls that are awaited; a call keeps whether its number is still the one its slot, or the directory,
waits for. Of a board and of a task only the age is kept, the number of changes its Desk had seen when it
was read, and the revision of an organization is the age of its binding. `RefreshDirectory`,
`SelectOrganization`, `SwitchSpace`, `ReadBoard`, `OpenTask`, `CloseTask`, `ChangeTask`, `CreateTask` are
the user, `AutoReadBoard` and `SwitchEnds` the window, `DeskAnswers` is Serve and the Desk,
`DirectoryArrives`, `ReadArrives`, `ChangeArrives`, `CallFails` the continuations, `DeskIsBound`,
`DeskDisconnects` and `DeskReconnects` the rest of the world. *`OfItsBinding`*: nothing is shown that was read from
a Desk the organization was bound to before. *`ShowsOwnChanges`*: a board and a task that are shown as
read are as new as the newest change the user was told of. *`ChoosingEnds`*: a selection that shows as
under way is. All three are in `ViewsAreComplete`. Two organizations, one task
in each, two visits of the user and two changes of others reach every overlap of a change, a read and a
switch; all three also hold with three visits and one change.

**Proved** (`WorkspaceProofs`): `DeskTypeCorrect`, `DeskIsOfItsBinding`, `DeskShowsOwnChanges` and
`DeskChoosingEnds`, for any finite sets of organizations and tasks and any number of visits and changes
(`GroupsAssumption`). The three properties speak of what is shown; `DeskInv` says the same of every answer
that will still be taken, because it is the newest read of its slot: what a Desk answered is not older
than the binding its slot is kept for, nor than what the user has been told (`WindowFits` with `BoardFits`,
`TaskFits` and `CallFits`). Besides, nothing is newer than its Desk (`DesksGrow`), nothing is awaited
without a connection (`AwaitsConnected`), and a selection that shows waits for a switch or for the
directory (`Chooses`). One handler may do several of these things: a change that is saved tells the user,
and then reads the board, the task and the directory again. Between the two the invariant does not hold of
what is about to be read; `again` names these slots, and each lemma about a part of a handler
removes the slot it reads. TLC met no violation of `DeskInv` in the first 12.5 million states of a larger
instance, with three visits, which it did not finish.

### 7.15 DeliverableDock (run `host`)

`front` is where the user is, `tabs`, `activeTab` and `hidden` the state of the dock, `surface` the
presentation that the window holds, whichever place it shows it in, `unsaved` the editor's own flag,
`dockCalls` what is under way, with `newest` for the one whose number is the current one. `Render` is the
render that follows a handler: the editor of another revision starts clean and says so to its tab.
Serve is `latest`, the current revision of each presentation. *`ProofIsOfTheShown`*: a report, or the
receipt of an export, that the window holds is about the revision it shows. *`BusyEnds`*: the dock is
busy exactly as long as its newest call is under way; the exception is a conversation that is archived
while its surface loads (`App.tsx:3244-3249` asks for the scope, and the flag stays "open").
*`AgentKeepsDrafts`*: neither a revision that an Agent writes, in
whichever conversation, nor its load displaces edits that are marked under the selected tab; the
eviction at the limit of tabs is part of it. The three are `DockIsTrue`. Two conversations, two presentations of which one is
revised, a limit of one tab and two calls; with a limit of two tabs, or with three calls and one
conversation, the same holds. Limits: the tabs of tools, panels and previews are left out; the user works in the
personal Space; what the editor holds is a flag. Section 10 lists what the properties do not forbid.

**Proved** (`DockProofs`): `DockTypeCorrect` and `DockStaysTrue` (`DockIsTrue`), for any conversations,
presentations, limit of the tabs and number of calls (`DockAssumption`: a presentation can have a revision).
The three properties are not inductive by themselves. `DockInv` adds what joins the window to the calls
under way (`Fits`): only one call is the newest, one that checks or exports is about the revision shown,
and one that an Agent's revision started finds the dock busy with "open" and its own tab in front, without
edits. That is why its answer, when it is not dropped, has no draft to displace. The tabs have an id each
(`Sheet`), which `Upsert` keeps when it evicts the oldest. TLC checked `DockInv` in 112,974 states.

## 8. The host and its processes (`MCHost`, run `host`)

`MCHost` follows one part per behaviour, as `MCWindow` does: the parts use different files. It also
follows the parts of 7.12 and 7.13 (`PersonalChannels`) and of 7.15. `NativeHost` joins 8.1 to 8.4, of which `HostProofs` proves
what the run checks: the parts share no variable, so `HostHandsOver` follows from the theorems about each.

### 8.1 EngineHandoff

`serve` are the Engine processes, `discovery` the record one of them has written, `client`, `phase`,
`planned` and `conn` the renderer's side of the connection. Three flows - `restart`
(`restartBundledEngine`), `update` (`restartForUpdate` with `applyDesktopUpdateHandoff`), `user`
(`startServer`) - each with a program counter, so that their awaits interleave. The native side
retires the discovered process by file operations that are steps of their own: a start asks whether there is
a record (`InspectRecord`); `retire_discovered_serve_at` opens it (`ReadRecord`), signals the process
(`StopProcess`), waits for its end and looks the record up again (`RecheckRecord`), reads it and compares it
with what it had opened (`CompareRecord`), and removes the file by its path (`RemoveRecord`). Engines write
and withdraw their records between any two of them. Old Engines are stopped through
`terminate_legacy_serve`, which skips the first step. Every wait may time out.
*`RecordsAreCompared`*: a process whose record was removed is dead, unless it wrote the record while
a flow stood between the comparison and the removal (`raced`, a history variable). Nothing else may lose a
living Engine its record: not the seconds of waiting, not two flows that retire the same process, not an
Engine that starts while an older one stops. *`InstalledOnceRetired`*: an update is installed at most once, and not while the Engine it was asked
for can be discovered. Both, with `OneCore`, are `ProcessesAreHandedOver`. Two processes: the one
that is retired and one that is started in the meantime, by a flow or by hand; of the three flows two are under
way together (`MaxFlows` of `MCHost`; the theorems speak of all three). Abstracted: a second
click on Start while it runs, a click on the update while it is restored, the busy interlock of old
Engines; after a retirement that failed in its wait the phase stays "ready" without a client.

**Found.** `engine_handoff` is a run TLC is expected to refute. `restartBundledEngine` asks only
whether it is itself under way (`App.tsx:6455`), `restartForUpdate` does not ask at all, and their
buttons are disabled by their own flags. When both overlap, both wait for the same record to go;
then one installs the package while the other starts an Engine from it. The comment at
`App.tsx:6571-6573` says why that must not be. `NoEngineWhileInstalling` states it.

**Not promised by the model.** The comment at `lib.rs:2144-2145` says to "remove only the exact owner-only
contents we opened before signalling; never unlink a replacement instance", but `remove_file` (2157) removes
whatever is at the path, after a comparison (2150-2151) that may be out of date: a start retires an
Engine that is dead, another Engine comes up from a terminal and writes its record after the comparison, and
loses it. It serves, and nobody can discover it. The model has this behaviour: without `raced`,
`RecordsAreCompared` fails, and TLC shows it in ten states (strike `\ raced` and check it with
`EngineHandoff.cfg`). With it the property, and the theorem, say that this moment is the only one.

**Proved** (`HostProofs`): `HandoffTypeCorrect` and `HandedOver` (`RecordsAreCompared` and
`InstalledOnceRetired`), for any number of Engine processes (`EngineHandoffAssumption`: there is one) and
every interleaving of the three flows. `HandoffInv` adds that what the record and the client name has
come up, and so has the Engine the update has shut down (`EnginesHold`), because a process that is still to
come up may write its record after its name was given up; that a record that was opened names a process that
has come up, which is dead from the second look at its record on, and that from the comparison on the
record is this one, or none, or one of `raced` (`OpenedHold`); and that a package is installed only from
"downloaded", which nothing sets again (`PackageHolds`). The proof shows once for each flow what it may
do to the processes, the record, the client and the package, and the invariant from those facts. TLC
checked it in 1,842,377 states, with all three flows.

### 8.2 LaunchMarkers

A run marker named by the process id, the pending crash report, the update marker. A launch reads
the names first and looks at each marker later (`Report`, `Retire`), while others launch, crash and
exit, and ids are used again, by Desktop and by other programs. *`CrashesAreTold`*: a run that
crashed keeps its marker until a launch has reported it, has found a report pending, or knows that
an update explains it; a run that did not crash is not blamed. *`UpdateStartsOnce`*: no more update
markers are taken than were made. Both are `MarkersAreExact`. Two ids and three runs. Limits: a
setup that failed because its reused id was still marked takes the old marker with it at its exit;
an id that is used again between a liveness test and the removal is assumed away; reports'
contents, I/O errors and the limit of 64 entries are not modelled.

**Proved** (`HostProofs`): `MarkersTypeCorrect` and `MarkersStayExact`, for any number of launches
(`MarkersAssumption`) and any set of process ids. `MarkersInv` says that an id is one run's at a time and
that a run looks at markers only while it lives (`RunsLive`); that a marker is of a living run or of one that
crashed (`MarkersHold`); and, of the window between reading the names and removing a marker, that a marker
about to be removed belongs to nobody who lives and that its crash is accounted for (`StaleHolds`). That a
run not yet launched has read no names had to be added for it. `UpdatesHold` counts the update markers. TLC
checked it in 137,668 states.

### 8.3 ManagedCli

The file, its receipt, and processes of different releases that synchronize or install it in steps:
copy, rename the file, rename the receipt. *`UsersFileStays`*: a file of the user's is replaced only
when he asks, or put it there after the synchronization had looked. *`HoldIsRecovered`*: an
undisturbed synchronization of the release whose file is there ends with the file managed, whatever
died between the renames before. Both are `CliIsTheUsers`. Two processes, two releases, one edit.
Limit: a crash between the renames followed by an upgrade of the bundle leaves the file unmanaged.

**Proved** (`HostProofs`): `CliTypeCorrect` and `CliStaysTheUsers` (`CliIsTheUsers`), for any number of
processes, releases and edits (`ManagedCliAssumption`: what is not a release - no file, a file of the
user's, a file in another place - is told from the releases and from each other). `CliInv` says that a
process that does not run is doing nothing, that what one has copied is its own bundle (`ProcessesHold`),
what a synchronization that goes on has seen (`LeavesOwn`), and what the receipts name
(`ReceiptsHold`). Both properties are about steps: the proof goes through the steps of a process one
by one, because only the last rename, made after the file was looked at, can meet a file of the user's.
TLC checked it in 254,402 states.

### 8.4 WorkspaceCore

`connect_or_start_workspace` under its lock, a Core that is slow, dies, or is started by hand, and
process ids that are used again. *`OneCore`*: however often the window asks, Desktop has at most one
Core of its own. Three processes, one root, one Desktop; that a Core refuses to serve beside another
is assumed.

**Proved** (`HostProofs`): `CoreTypeCorrect` and `OneCoreAtATime`, for any number of processes
(`CoresAssumption`). `CoreInv` says that a call that decides to start a Core waits for none, that one that
starts is the one Desktop keeps, and that one that serves is the one the discovery names
(`OwnsItsStart`). TLC checked it in 83,786 states.

## 9. What is only model-checked

The bounds of these are small, and chosen so that each limit in the code is reached.

- Liveness (`ConnectResolves`, `CatchesUp`, `EveryEventAcked`, `ShutdownProceeds`, `InputSettles`): the
  prover has no rule for fairness or ENABLED.
- `TypeOK` of `TurnQueue`: the four properties of the queue are theorems, its type invariant is not. Their
  proofs carry the shape of every record they use, in `Whole` of `TurnQueueProofs`.
- `StagedModels`, `TerminalInput` and `ShownIsWaitedFor` of `ExternalInteractions`. Their steps run folds
  and selections over a queue, a wire or a buffer whose length is not bounded. `FoldFacts` proves by induction
  over finite sets what the queue needs of a fold, for an operator that is its constant; theirs need facts of
  the order of what is left, which `FoldFacts` does not state.
- `BusyHasReason`, `AckIsComing` and `NothingLost` are in `NothingForgotten` of the run `live`; of the first
  only that run speaks.
- In reach and not yet proved: `SpacesAreTrue` of the window.
- `WindowTypeOK` and `HostTypeOK`, the type invariants of whichever part is followed: those of
  `RemoteCommands`, `WorkspaceView`, `WorkspaceTasks`, `Collaboration`, `CollaborationSends`, `GroupsDesk`, `LocalChannelSends`, `TaskApprovals`, `EngineHandoff`, `LaunchMarkers`,
  `WorkspaceCore`, `ManagedCli` and `DeliverableDock` are theorems.

## 10. Limits of the models, and what reading the code showed

- Calls have no timeout in `client.ts`; an Engine that accepts a call and never answers holds
  `connect` until its socket closes. The liveness runs assume that it answers.
- `eventRecovery.snapshotRequired` is computed and never read by `App.tsx`. With `events.snapshot`
  the snapshot follows anyway; an Engine without it leaves a gap nobody is told about.
- After a failed replay, events beyond the current position are applied before the snapshot
  arrives; a ready renderer never shows that state.
- A close during a replay or a snapshot drains into surfaces that are cleared right after, and
  moves the stored cursor past events whose effects are gone; the next connection's snapshot makes
  up for it, an Engine without snapshots does not.
- Flushes that waited together each send an acknowledgement of the same cursor; a refused
  acknowledgement with a full batch is repeated at once, without a pause.
- Space and route transitions clear the permissions while the connection stays open. A resume that
  was in flight still marks its session attached, but its receipt is then discarded, so a live
  permission stays hidden until the next event of the session. It fails closed; it is the reason
  why `GrantIsShown` is checked without transitions.
- A command to an external session may be answered from the receipt of an older one of the same
  contents when the wall clock is set back by more than it had advanced since the older one was dropped
  for its age (`remote-command-retry.ts:87-93` and 111, `revived` in 7.1).
- Handlers that throw while the client drains, and the ids of ordinary calls, are not modelled.
  `close()` in a failing `connect` and the close event it causes are one step (`ConnectGivesUp`).
- `TurnQueue` follows an input that failed, was cancelled or was dropped no further: the composer
  gives the text back, and sending it again is another input. A live connection that `connect()`
  replaces is not in it, and neither is a page reload, which forgets the queue.
- With lazy updaters two ends of turns that come before one render hand the same queued input over twice:
  the drain reads `queueRef`, whose head is taken out only when its updater runs, and the timer of the
  first does not stop the second (`App.tsx:3310-3330`). `CHANGELOG.md:2420-2421` says "attachments
  remain one queued next turn".
- With lazy updaters a click before the render that is due would find a stale `queueRef` in
  `cancelQueuedInput` and `retryQueuedInput` too; the model lets the user act on a rendered screen.
- `onClose` empties the queue (`App.tsx:3669`), which `connect()` preserves: an input one lost
  connection has queued for a Retry is dropped by the second. With `session.submit` the composer
  does not look at the busy flag that the drain sets, so a message may overtake the one handed over
  (`App.tsx:2860`, against the comment at 3313). The drain does not ask whether the session is
  attached before it sends a command id again (`App.tsx:3321`). The model has all three behaviours,
  and no property forbids them.
- An interruption by the user that fails sets the session's action back to "turn" although the turn
  may have ended meanwhile (`App.tsx:7030`), and the `finally` of a submission may delete the action
  of another turn that is live.
- Cancelling an input whose outcome is unknown says that it was removed "before it ran"
  (`App.tsx:2435-2451`).
- A staged model that Serve refuses at the end of a turn is cleared (`App.tsx:2353-2363`), and the
  queued message that is drained 50 ms later then finds nothing staged and runs on the previous
  model; `CHANGELOG.md:1927-1929` says that it stays unsent.
- `verifyPending` of local channels keeps a pending message whose receipt is anything but accepted
  (`workspace-local-channels.ts:275-284`): a message that was lost on its way blocks its channel, and a
  creation that never reached the Core blocks every later creation, for good and across reloads. A
  successful read of the channel clears the error of a failed read of the catalog and the other way
  round, so an old catalog may be shown without a notice until the next change.
- The copy flows (`App.tsx:4351-4392` and 4533-4577) open their copy after two awaits without asking
  whether it is still wanted, where `openSession` and `newSession` use `sessionActivationAllowed`
  (`session-place.ts:23-35`: "a late async resume/create result may only become active in the place
  that owns the session"). The effect at 3837 closes the copy again as long as the list does not have
  it; a copy made in a place the user has left stays open there.
- `switchSpace` renews every request counter except `spaceDirectoryRequestRef` (4793-4800). A
  directory that was asked for before the switch and is answered after its commit puts the old Space
  into the header, when no conversation is opened (whose effect would renew it).
- After a route change whose `listSpaces` fails (4912) the header keeps the Space of before, whatever
  the change did; a forced switch that `runProviderRouteMutation` could not make, because another was
  under way, lifts that one's shield early (4918-4922).
- A discovery record that an Engine writes between the comparison and the removal of the retired one is
  removed unread (`lib.rs:2150-2157`, see 8.1).
- Two handoffs of a terminal that overlap break `HandoffIsExact` (set `Overlapping` to TRUE and
  `MaxHandoffs` to 2 in `Window.cfg`): the late error that answers a cancelled handoff enables the input
  again while the second is acknowledged, and a key typed then is lost to it
  (`ExternalNativeTerminalSurface.tsx:308-321`). `CHANGELOG.md:539-541` says that a handoff flushes all
  accepted input. A failed handoff may also show "control" after the stream was closed, and a key typed
  when a cancellation arrives during a release is dropped.
- A change of a task that is confirmed opens its page again, even if the user has gone back or opened
  another task (`Groups.tsx:631` and 976), and reads the board with the filter that was shown when the
  change was sent. After a failed switch of Spaces the directory stays "idle", and the Groups page shows
  that it loads until it is entered again (`App.tsx:4805-4806`). `selectGroupsOrganization` selects its
  organization after a directory that another switch has superseded (`App.tsx:1974-1976`).
- The mark of a draft is lost in two ways while the editor keeps the draft: a click on the tab that is
  in front clears it without asking (`App.tsx:8884-8897` asks only for another tab, and clears for
  any), and so does going to the settings and back after the confirmation to discard (2215). The editor
  does not mark its tab again (`PresentationWorkbench.tsx:415`, 519-521), so the tab may be evicted, left or closed
  unasked. The comment at `extension-dock-state.ts:61` says "Unsaved native editor state. Dirty tabs are
  never evicted by the soft tab limit."
- A tab that is added "to a background tab" (`App.tsx:3166`) comes to the front where the tab with the draft
  is not the selected one but only the newest of its conversation, after a detour to another
  conversation: `activeExtensionTabForContext` falls back to the newest (`extension-dock-state.ts:222-223`).
  The editor is then unmounted with its draft. `AgentKeepsDrafts` therefore speaks of selected tabs.
- A click on the row of the open conversation drops its draft unasked (`App.tsx:4626`); so do opening and
  importing another deliverable, closing the connection and archiving the conversation. Edits that are typed while a
  save is under way are replaced by its answer, and a save that Serve has accepted but whose reads fail
  leaves the old base revision, so that the next one conflicts. A deliverable offered to a hidden dock
  is not loaded when the dock is shown (`App.tsx:9021-9035`, against the notice at 3164).

## 11. Not modelled

Parts with no module (bold), and what is left out of the others:

- Event stream client: request ids of ordinary calls, and handlers that throw.
- Task permissions: createTaskApprovalSubmission (the scheme of ExternalInteractions' decisions) and
  restoreSessionApprovals, a pure filter of a snapshot.
- Turn submission and queue: interruption by the user, read-only sessions, and the reconciliation of
  the reply text.
- Remote command retry: storage that fails, the fingerprint (a payload is its identity), and engines
  without durable commands, which get no id.
- External questions and delegated interactions: the contents of questions and answers, and the
  cards.
- Raw terminal input: frames and their gaps, sizes, scrolling, a switch between two sessions, a lost
  connection, and Engines without numbered input.
- Engine restart and update handoff: the check and the download of an update, its policy, and the
  card of the blocking task.
- **Update policy and notices**: When to look for an update and what to show; sequential functions
  over preferences.
- Workspace startup and resume: the settings connection, the diagnostics, and workspace-resume.ts,
  which only decides which card is shown.
- Workspace view and messages: the overview cache, approvals, questions, connections, preferences
  and the other operations, most of which are one call and a refresh.
- Workspace collaboration: the pages of the directory and of the members, the creation of channels,
  and services without a history.
- Workspace local channels: recipients and reading positions, cancel and respond (one call and a
  refresh), and the polling while colleagues reply.
- Native host: managed CLI and Engine process: digests, versions, executables and paths, the removal
  of legacy installations, and the I/O errors of each step.
- Native host: crash and update markers, staging cleanup: the contents of a report and its
  submission, the bound on the scanned entries, I/O errors, and the cleanup of update staging.
- **Native host: panels and window recovery**: Calls of the windowing system; its behaviour is not
  in the repository.
- Groups: the filter of a board by state, claims with their leases and fences, which task may move
  where (groups-manager-policy.ts), engines without a Desk, organizations that come and go, and the
  rendering.
- Spaces: The re-enrolment of companies, the projects lists and the menu itself are left out.
- Extension dock and deliverables: the tabs of tools, panels, web previews and presentation browsers,
  deliverables that are not presentations, the editor's contents and its drawing, and the width of
  the window.
- **Navigation and settings guards**: Sequential functions of local state that unit tests reach.
- **Model connections, providers and coding executors**: Presentation of what Serve answers; no
  ordering of its own beyond the generation checks in App.tsx.
- **Automations and schedules**: Calendar arithmetic on strings and dates; a candidate for a bounded
  pure model later.
- **Conversation timeline and interface**: Rendering and wording.
- **Talent catalogue**: Generated data and its presentation.
- **Release pipeline**: Build and publication scripts, outside the running program.
