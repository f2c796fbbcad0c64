# TLA+ models of byakko

byakko configures keyboards: keymaps, macros, lighting, a per-key picture and
settings. It has a native application, a command line and a browser client around one
core: a session object that keeps what is known of the keyboard beside what the user is
editing, an executor that owns the device, and the transactions that write to it. This
directory models these parts, checks them with TLC on small instances and proves with
TLAPS, for every value of the constants, what matters most about the session, the
executor, the transactions, the application and the page, the observation of changes,
the macro recorder and the local files.

Paths below are relative to `src/crates/` unless they begin with `web/` or `docs/`,
which are relative to `src/`.

## 1. The system

### Components, state and operations

| Component | State it keeps | Operations | Hard behaviour |
|---|---|---|---|
| Session (`byakko-core/src/session.rs`) | connection and generation, last operation ID, one pending ticket, editors, workflows, recorder, host activity, library, archive | connect, disconnect, read, edit, revert, save, observe, refresh, accept, catalog, recording, host, workflows | operations asked for in any order; answers late, repeated or after a reconnection; IDs running out |
| Editors (`editor/*.rs`) | baseline, draft, submitted, status | edit, revert, request/cancel apply, accept read/apply, invalidate | drafts against results; uncertain writes |
| Macro library (`library/macros.rs`) | occupancy per slot, scan in flight | begin, cancel, accept scan, observe editor | a scan beside foreground operations |
| Workflows (`workflow/macro_assignment.rs`, `picture_preparation.rs`) | the current step | begin, advance | chains of device operations with edits in between |
| Host activity (`workflow/host.rs`) | idle, starting, active, stopping | start, stop, accept event, disconnect | restoration compared with the baseline |
| Observation (`workflow/observation.rs`) | queue of features to observe | receive, next | coalesced notices |
| Recorder (`recorder/macros.rs`) | held inputs, last event | transition, stop | room for the releases |
| Executor (`byakko-devices/src/executor.rs`) | published generation, command queue, answer channel of one, resumable scan | try_submit, start_host, set_generation, cancel_catalog, receive, retire, drop | two threads, bounded channels, calls that cannot be interrupted |
| Host executor (`executor/host.rs`) | a mailbox under a mutex with a condition variable | reserve, frame, update, stop, receive, run | wakeups, stop against reconnection |
| Notifications (`byakko-devices/src/notifications.rs`) | generation, mailbox | spawn, push, receive | generation fence around a blocking read |
| NIA87 transactions and transport (`nia87/device/*.rs`) | lock, backup, pages written, the exchange in progress | apply, verify, restore | failures part way, a wireless receiver that loses and keeps replies, the end of the program |
| Local files (`byakko-devices/src/storage/*.rs`) | numbered label snapshots, preferences, exports | save, load, export | programs side by side, an end between two steps |
| Desktop (`byakko-desktop/src/app.rs`, `controller/*.rs`) | connection, discovery, host, automatic saves, recording, files, closing | update, poll, complete, close | one device, old and new executor; waits before closing |
| Browser (`web/runtime.mjs`, `executor.mjs`, `host.mjs`) | a session, a queue of device jobs, timers, promises | connect, disconnect, intents, host, recording | awaits between any two steps |
| Browser planner (`byakko-web/src/executor.rs`) | one operation as queued effects | start, advance | undoing a save with one effect at a time |
| Codecs, projections, validation, views, CLI | none, or what is shown | conversions | none for a state model |

The session never touches the device. A caller takes the command a session operation
returns, submits it to an executor, and passes its completion to `Session::accept`.
Commands and completions carry (generation, operation): the executor refuses a command of
another generation or of a token already passed, the session an answer that is not the
pending one. Host lighting bypasses this pair: `start_host` hands a ticket to the
executor, frames go through a mailbox and events come back. The desktop decides which
executor is attached; notices of the keyboard come through the notification thread and
the observation queue and end in background reads of the session. The transactions are
what the executor runs for a command. The browser has its own executor and planner in
place of the native ones, around the same session.

### What makes each part correct

- *Session*: one foreground operation; host lighting, recording and that operation
  exclude each other; nothing is called verified without a connection; a draft is never
  overwritten by the device; an uncertain write stays uncertain until it is read;
  picture colours are written only on the layer they were edited for.
- *Recorder*: whatever was recorded, a recording can be stopped and releases every key.
- *Executor*: every accepted request is answered exactly once and truthfully; no call
  for a dead generation beyond the one already let through; at most one call runs after
  host lighting was asked for, and none from its first event to its terminal one; what was
  reserved for host lighting ends; no wakeup is lost; a dropped executor's worker returns.
- *Transactions and planner*: the outcome reported is what is known of the keyboard,
  and what was written can be undone.
- *Desktop and page*: one executor at the device; what is shown as verified is what the
  keyboard shows; closing and disconnecting lose nothing and come to an end.
- *Observation*: no change made at the keyboard is forgotten.
- *Local files*: published and acknowledged files stay whole; the last save shows.

PROJECT.json lists every component with what is modelled of it, and the hazards, each
at its line with the properties that watch it.

## 2. Modules

| Module | Models |
|---|---|
| `Editor` | the lifecycle of `editor/mod.rs` as operators on one editor record |
| `Session`, `SessionSafety`, `MCSession` | `session.rs` with the workflows, library, host activity and feature rules it calls; its properties; two small sessions |
| `SessionProofs` | theorems about the session |
| `Recorder` | the append-only recorder and the encoded size it must stay in |
| `DeviceService` | abstract specification: a request is answered at most once, and the answer says truthfully whether the device was touched |
| `Executor`, `ExecutorSafety`, `MCExecutor` | `executor.rs` and `executor/host.rs` as two threads over channels, atomics, mutex and condition variable; the refinement of `DeviceService` and the properties |
| `ExecutorProofs` | theorems about the executor, the refinement among them |
| `Relay` | one exchange with the keyboard over the cable or the receiver (`transport.rs`, `receiver.rs`) |
| `Transaction`, `TransactionSafety`, `MCTransaction` | lock, backup, prelude, setters, verification and recovery of every feature's write, over the exchanges of `Relay` |
| `TransactionProofs` | theorems about the transactions |
| `Desktop`, `DesktopSafety`, `MCDesktop` | the application's controllers and message loop; the properties |
| `DesktopProofs` | theorems about the application |
| `Observation`, `ObservationSafety`, `MCObservation` | the notification thread, its mailbox, the application's messages, the observation queue; the properties; uses `Editor` |
| `ObservationProofs` | theorems about the observation of changes |
| `Browser`, `BrowserSafety`, `MCBrowser` | the page: runtime, executor, host controller and their promises; its properties; uses `Editor` |
| `BrowserProofs` | theorems about the page |
| `WebPlanner`, `MCWebPlanner` | the browser's transaction planner |
| `WebPlannerProofs` | theorems about the planner |
| `Storage`, `MCStorage` | label snapshots, preferences and exports |
| `RecorderStorageProofs` | theorems about the recorder and about the local files |

How they compose: `Transaction` EXTENDS `Relay`; `Session`, `Observation` and `Browser`
EXTEND `Editor`; `ExecutorSafety` instantiates `DeviceService` under a refinement
mapping. `Session` has an open environment that contains every executor, transport and
keyboard; `Desktop`, `Observation` and `Browser` compose a reduced session with a
reduced executor and a keyboard, since together the full modules are out of reach.

### Session

One action is one public operation, with everything it calls. Guards are the early
returns; a call that returns an error leaves the session unchanged and is therefore no
step, unless the code has changed something before the error (a save refused after
`request_apply` runs `cancel_apply`; `SubmitWrite` models both).

`ed[f]` is `Editor<Rules>` for feature f. A snapshot is `[value, context, hosted]`:
`value` is what a draft can equal, None for opaque content; `context` stands for every
other field that two baselines can differ in (revision, selector context); `hosted`
tells a lighting snapshot taken in a host mode from other content without an editable
value. `pending` is the `Ticket`; the connection's generation is `generation`, the newest
handed out, which is why `connected` is Boolean.

The environment is open: the user calls anything at any time, and completions and host
events carry any generation and operation handed out so far with any result their
feature can produce.

Abstracted: how an edit computes the next draft (any value may be the next draft, with
the rules that matter: one staged setting, macro repeat counts, slot bindings); the
texts of errors; archive contents; host mode parameters. A recorder stop is taken never
to fail, which `RecorderStorageProofs` proves. The picture capability is modelled with its
lighting effect, the form in which the two editors are coupled.

`edit_lighting` checks unsaved colours only when lighting has a draft, so on a keyboard
found in a host mode (baseline without a value) a draft can name another layer;
`stage_lighting` and `save_lighting` check always. `SelectorEditsExclusive` therefore
speaks of baselines with a value, and theorem `SelectorWritesAlone` covers the write.

### Recorder

A program is its encoded size without the wait after the last event, which stays open
until the next edge or the stop closes it. `Transition` and `Stop` have the code's two
kinds of delay, the timestamps that go backwards, duplicates, and the room reserved for
the longest wait and the releases of everything held.

### Executor

`client` and `pc` are the program counters of the client thread and of the worker.
The client is sequential because `Executor` is not `Sync`; a call that touches several
shared cells is several steps, between which the worker runs: `start_host` is `Reserve`,
`CancelForHost`, `SendHost`; `set_generation` is a store and a notification; drop is
`Retire`, `Close`, `DropChannels`. `try_submit` is one step: the reservation it reads is
changed by the client only, and its send is the one effect the worker can see before
the scan counters, which it reads only for a request it has taken. The mutex is taken
and released within one step, except that the host loop holds it from its last test to
its wait (`pc = "Drowsy"`): this is where a wakeup could be lost. Spurious wakeups are
allowed and never needed. A device call is one step with any result; a panic of the
device is an uncertain result. `accepted`, `started`, `answer`, `asked`, `late` and
`beside` are history.

A foreground request is one kind, "Command"; what it carries is chosen when the worker
dispatches it, since nothing looks at it before. A "Keymap" stands for lighting, pictures
and settings too, a "Read" for every read and the archive review. `ChangesSlots` says which
writes may have changed macro slots, `InvalidatesCatalog` which ones end a scan in hand; a
scan collects in `stale` the former that were not the latter. There is one such write, an
archive that was written.

### Relay and Transaction

`Relay` is one setter or one read: over the cable a report and its answer, through the
receiver the polling of its status, the command, the polling of its reply. The receiver
may lose a command, deliver it after its exchange was given up, hold the reply of an
earlier command, and lose sight of a sleeping keyboard. `Transaction` is a job:
lock, comparison with the cached image, durable backup and opening of the device, in
the order of each feature, then the setters, the read back, and on a mismatch or an error recovery by the rules of each feature,
to the outcome reported. The program may end between any two steps; other programs take
the lock, or write without it. Left out: host colour frames, the order of the picture,
settings and lighting sections inside an archive restoration, mismatch evidence files.

### Desktop

`desk` is the application with the device threads it has started; an operator on it is
one method, and every UI action ends in `flush_saves`, as every message does. Messages
of timers, file jobs, discovery and device threads arrive in any order. The death of the
discovery thread, exhausted IDs and ambiguous matches are folded into errors; reverts,
catalogs read by hand, archive capture and the tester page are left out.

### Observation

A change at the keyboard becomes a report; the listener reads it, the observer's mailbox
coalesces it, the application's message queues the features it may concern, and each is
read when nothing stands in the way. Deadlines are nondeterministic, so every timing is
included. Macro slots, the closing window, and the latency of discovery are left out.
`dropped` is history: the features whose notices the code gives up, because a failure or
a conflict stopped their observation, or because they name a picture that was `Hidden`
when its turn came. `NoChangeForgotten` excepts these and no others, until the next
reading of the feature.

### Browser and WebPlanner

A browser runs one piece of script at a time up to the next unresolved promise: an
operator on `page` is such a piece, reactions of resolved promises come before events.

`disconnect` closes the notification interface, then the executor. The first close may
be refused; the executor is then neither closed nor waited for (`CloseRefused`), and if it
still has a job its connection is `left`. What the page promises of one keyboard and one
connection holds until then, and the properties say so by `left`; that such a connection
meets the next one is a finding (`browser_teardown`). The notification interface can be
unplugged alone (`ListenerUnplugged`), which costs the page its notices.

Left out: the page's observation queue, edits of pictures, settings and macros, parameters
of host lighting that change while it runs (`web/host.mjs:77-81`, `123-125`), archive
files, choosers that answer after a second one was opened, `destroy()`.

`WebPlanner` is one `BrowserOperation`: a queue of steps (backup, write, exchange) that
the page performs one at a time, and what each result makes of the rest. The keyboard
holds at each place the old value, the new one, or one the baseline does not know; it
may ignore an accepted setter, lose a reply, and be switched to another profile.

### Storage

A job is one call. The jobs of one window run one after another (`Files.pending`) and
those of other programs at any time; the model lets all of them overlap. A name is the
job whose file it leads to, so that a hard link and a rename move no bytes. A listing is
not atomic: it sees every name there when it begins and maybe later ones. A program may
end at any step; synced bytes survive. That names survive too is assumed: the code does
not sync directories, so power loss is not covered.

## 3. Runs

| Run | Instance | Properties |
|---|---|---|
| `session_macro` | keymap of one key, two macro slots, 2 generations, 4 operations | `TypeOK`, `ExclusiveActivities`, `AssignmentOwnsTicket` |
| `session_light` | lighting with two layers and another effect, pictures, two toggles one of which host lighting needs, archive; 2 generations, 4 operations | `ReadyIsConnected`, `PreparationOwnsTicket`, `SelectorEditsExclusive`, `PictureSavedInContext`, `HostKeepsBaseline`, `DraftsSurviveDevice`, `UncertaintyNeedsRead` |
| `executor` | commands of every kind, catalogs of two slots, host lighting; 2 requests, 1 generation, 2 operations, queue of 2 | `OneAnswerComing`, `CatalogIsCurrent`, `HostHoldsDevice`, `ReservationEnds`, `HostWaitsForOneCall`, `StopProblemSurvives`, `GenerationFencesCalls`, `ServiceSpec`, `RequestsAreAnswered`, `HostingEnds`, `RetirementFinishes` |
| `transaction` | a keymap of two layers, a feature of two pages, nine writes of every kind; 2 jobs, 2 polls | `OutcomeIsTrue`, `BackedUp`, `ReplyAnswersCommand`, `JobsEnd` |
| `desktop` | two keyboards, two threads, 2 connections, three sets of activities | `OneThreadAtDevice`, `DroppedOnlyIfAway`, `NothingLostOnClose`, `WaitingEnds` |
| `desktop_recording` | one keyboard, recording beside edits, saves and host lighting | `RecordingSettles`: violated |
| `observation` | lighting and picture, 2 connections, 3 steps of user and keyboard | `NoChangeForgotten`, `QueueDrains` |
| `observation_removal` | the same | `RemovalNoticed`: violated |
| `browser` | 2 connections, 2 catalogs, 2 host activities, six sets of activities | `OneConnectionAtDevice`, `ReadyIsTrue`, `DisconnectLosesNothing`, `WaitsEnd` |
| `browser_teardown` | 1 host activity; a keyboard that is unplugged, a notification interface that refuses to be closed | `NoSessionOverlap`: violated |
| `planner` | three keys of the base layer, one of them reserved, one function key, two pages, two slots, one profile switch | `OutcomeIsTrue`, `OneFaultIsUndone`, `OperationEnds` |
| `storage` | three saves and a load over four directories, three exports to two paths, three appearance saves | `SavedFilesSurvive`, `LastSaveShows` |

The comment above each property says what it means and which code it is about.

The session, executor and transaction runs check for deadlock; the others stop where
their bounds or the end of the program stop them, and say so. The executor ends in a
terminal state when its owner drops it; `Terminated` is a self-loop there and nowhere
else, so a thread that waits for nothing is still found.

### Bounds

- *Session*: `MaxGeneration` and `MaxOperation` stand for `u64::MAX`: the code's
  `checked_add` refuses beyond them and so do the models, so exhaustion is part of the
  runs. Two generations are what a stale answer needs; four operations are what a
  save-and-assign and one operation before and after it need, three the longest
  preparation. A third slot, key, layer or toggle behaves like the second. The theorems
  have no bounds.
- *Executor*: two requests replace, interrupt and follow a scan of two slots and queue
  behind host lighting; one generation and its loss is what a stale call needs. The
  theorems hold for any of these numbers.
- *Transaction*: two jobs, because the second may meet the first one's late replies; two
  polls instead of 20; every kind of write has the layers or pages its recovery tells apart.
- *Desktop, browser*: two connections, so that one may outlive the other. The optional
  activities are explored in sets that interact (`LinkAndWindow`, `PageInstances`,
  `TeardownInstances`); all at once are out of reach. The theorems hold for any set of
  activities and any number of connections.
- *Observation*: three steps are a change, another while the first is read, and a
  reaction of the user.
- *Planner*: two pages are a write that stops half way; one profile switch is the only
  one a read can fail to notice. One operation from every state of the keyboard.
- *Storage*: two attempts instead of 16 and last number 6 instead of `u64::MAX`, so that
  giving up and running out both happen. Labels, exports and preferences share no
  names and are explored apart (`MCBatches`); saves and loads are symmetric.

### Fairness

- `Executor`: `WF(Worker)`, the thread is scheduled and a device call returns (the
  receiver's polls are bounded, and a report that hangs in the driver is outside the
  model); `WF(ClientContinues)`, a call that has begun finishes; `WF(Receive)`, the owner
  keeps polling, as the desktop does on its timer. Nothing is assumed about stops, host events being
  received, spurious wakeups or new generations. `RequestsAreAnswered` does hold beside a
  host activity that is never stopped: what was queued before it is taken first, a scan
  is cancelled by `start_host`, and `try_submit` refuses new requests.
- `Transaction`: weak fairness of the program's own steps, none of the receiver, the
  keyboard or other programs: every wait of the code is bounded.
- `Desktop`: the poll timer fires, file jobs and device threads finish. None of the
  user, discovery answers or keyboards.
- `Observation`: the listener, mailbox, message loop, timers and executor go on. None of
  the user and the keyboard.
- `Browser`: weak fairness of the microtask queue; strong fairness of the settling of a
  promise the browser holds, since every event waits for the reactions of the one before.
  There are two such conditions, one for the effects of all connections and one for the
  calls that open and close: of each kind one is outstanding while no executor is left at
  work. `docs/webhid-browser.md` says what happens without it: "A browser/driver call
  that never settles can delay teardown".
- `WebPlanner`: weak fairness of the page performing the next effect.

Where a wait ends for good, or another may begin only after it, its liveness is stated as
`[]<>` of its end, which says the same as `~>` there and is what TLC checks faster.

### Faulty operators

Each `Faulty...` operator is a plausible mistake in the operator it is named after. No
specification uses it; put in that operator's place it breaks the property beside it.

| Property | Operator | Mistake |
|---|---|---|
| `TypeOK` | `MayIssue` | an operation is issued past the last ID |
| `ExclusiveActivities` | `MayIssue` | an operation begins under a recording |
| `AssignmentOwnsTicket` | `EditableActivity` | any save in flight lets edits continue |
| `ReadyIsConnected` | `Invalidate` | a verified cache stays verified |
| `PreparationOwnsTicket` | `PreparationPlan` | unsaved colours do not stand in the way |
| `SelectorEditsExclusive` | `SelectorSettled` | a staged layer change does not matter |
| `PictureSavedInContext` | `SelectorSettled` | a context that moved does not matter |
| `HostKeepsBaseline` | `Idle` | host lighting is no activity |
| `DraftsSurviveDevice` | `ReadResult` | every reading overwrites the draft |
| `UncertaintyNeedsRead` | `Invalidate` | conflicts and uncertain writes are forgotten |
| `OneAnswerComing` | `EndScan` | a scan is dropped without an answer |
| `CatalogIsCurrent` | `InvalidatesCatalog` | only failed writes end a scan |
| `HostHoldsDevice` | `Released` | any event releases the reservation |
| `ReservationEnds` | `Unreserved` | a start that was refused leaves its reservation behind |
| `HostWaitsForOneCall` | `HostPending` | the worker does not look at the reservation |
| `StopProblemSurvives` | `StopFirst` | a lost connection is looked at before a stop that came first |
| `GenerationFencesCalls` | `Fresh` | tokens of an old connection are let through |
| `ServiceSpec` | `FinishScan` | whatever was read passes for the whole catalog |
| `RequestsAreAnswered` | `MaySubmit` | requests are taken behind a host reservation |
| `HostingEnds` | `CanNotify` | the generation is published without taking the mutex |
| `RetirementFinishes` | `Notify` | nobody is notified |
| `OutcomeIsTrue` (transaction) | `NoneSent` | only a refused setter counts, not the ones before it |
| `BackedUp` | `Prelude` | the backup is created but not synced before the device is written |
| `ReplyAnswersCommand` | `RejectedBy` | the receiver's held reply is not looked at |
| `JobsEnd` | `RestoreFails` | a setter that failed while an archive is restored is tried again for ever |
| `OneThreadAtDevice` | `Finished` | the retired worker is forgotten |
| `DroppedOnlyIfAway` | `Received` | the answer of an invalidated scan is used |
| `NothingLostOnClose` | `DeviceQuiet` | a command under way does not hold the window open |
| `WaitingEnds` | `HostStopped` | the worker is never told to stop |
| `NoChangeForgotten` | `Receive` | a feature being read is not queued again |
| `QueueDrains` | `ObserveNext` | a feature that cannot be read stays at the head |
| `OneConnectionAtDevice` | `Finished` | the executor is closed at once |
| `ReadyIsTrue` | `AdvanceStop` | a restoration is believed without being read back |
| `DisconnectLosesNothing` | `HostRestored` | what became of the host lighting is not looked at |
| `WaitsEnd` | `HostStarted` | a start that succeeds after the stop goes on |
| `OutcomeIsTrue` (planner) | `WriteError` | only the setter that failed is asked about |
| `OneFaultIsUndone` | `Restored` | the base layer is not looked at after the function layer |
| `OperationEnds` | `FailStep` | a failed observation begins the recovery again |
| `SavedFilesSurvive` | `Publish` | a rename publishes over whatever has the number |
| `LastSaveShows` | `IsNewest` | the listing keeps the smallest number |

### Disagreements found

- `desktop_recording`: a configuration notice that comes while a requested recording
  waits for the macro catalog cancels the catalog's ticket; the completion is then
  ignored, and the recording neither starts nor is given up (`app.rs:186`).
- `observation_removal`: a failed observing read resets the observation's state, the
  record that the listener is gone included, and the removal of the keyboard is no
  longer noticed (`app.rs:1081`).
- `browser_teardown`: a disconnection closes the notification interface and then the
  executor in one `try` (`web/runtime.mjs:300`). When the first close is rejected the
  executor is neither closed nor waited for, and the page offers to connect all the same:
  a job of the old connection may meet the new one at the keyboard.
  `docs/webhid-browser.md:155` says that closing prevents "a new session from overlapping
  the old one".

Smaller ones, met while modelling and checked by no run:

- A keyboard unplugged while a disconnection by hand in the browser waits for host
  lighting stays selected when the restoration fails: `disconnect(true)` returns at its
  `closing` guard, the first disconnection then gives up, and nothing retires the
  keyboard that has gone (`web/runtime.mjs:269`, `329`). The notice asks to stay connected.
- An archive that was written does not end a scan of the macro catalog, although it
  writes macro slots (`executor.rs:474`); `docs/iced-macro-acceptance.md:113` says "Writes,
  reconnect, host streaming and recording cancel stale scans." Slots read before it are
  delivered as current. The executor carries out such a command, though no session builds
  one today. `CatalogIsCurrent` makes this one exception.
- An automatic save of the browser whose timer fires under a recording or host lighting
  is dropped and not tried again.
- `docs/backend-architecture.md:40`, "Closing waits for in-flight I/O": the desktop does
  not wait for a read of the macro catalog. No write is cut short.
- Edits of local macro names are no part of what the desktop asks about before it closes.
- After a failure or a conflict the notices queued by an observation are given up
  (`docs/rewrite-acceptance-20260927.md` describes it). A picture is passed over while an
  unsaved lighting draft hides it, and before any lighting has been read: a refresh that
  a conflict stopped ahead of lighting, a picture the user reads and lighting read last
  leave a verified picture whose notice was passed over.
- A save of the browser whose baseline was stale puts the baseline back when it is
  undone: unlike the native transaction it does not read before it writes.
- An export that failed or was cut short leaves its file, and the retry to that path is
  refused.

## 4. Proofs

All theorems hold for every value of the constants under the named assumptions of the
modules: the features are those of the program (`FeaturesAssumption`), `None` is no value
(`ValuesAssumption`, `NoneAssumption`, `ApartAssumption`), a binding of a slot to a key is
a keymap (`BindingAssumption`), the kinds of requests are the program's
(`KindsAssumption`), bounds are natural numbers (`BoundsAssumption`, `SizesAssumption`),
a call has one kind (`KindsApart`), byakko makes no snapshot number 0
(`FoundAssumption`), the keyboard has finitely many cells and at least one, and a cell
has a value (`MemoryAssumption`), and a write is asked for with two images that differ
in its feature only (`RequestAssumption`). TLC evaluates them in the runs. `ApartAssumption` is there because
the prover does not know which strings are which: it says that `None` is none of the
outcomes and scan records. For the application (`DesktopAssumption`) `None` is no keyboard
and no thread, there is at least one of each, no keyboard is called like an outcome of a
scan, and macros are not saved automatically. For the planner (`PlannerAssumption`) the
base and function keys are two sequences without repetition that share no key, none is
called like the identity, and there is at least one page and one slot. For the page
(`BrowserAssumption`) bounds are positive, there is a lighting the keyboard can run, host
lighting is shown by a number that is none of these, and `None` is no value, operation or
snapshot. For the observation (`ObservationAssumption`) the features are among those a
notice can queue, a picture comes with lighting, and `None` is no content, snapshot,
result, request or event. `StopSucceeds` assumes only that timestamps are natural numbers
and that `NoTime` is not one.

**Session** (`SessionProofs`). Every safety invariant and both action
properties of the two session runs are proved, and three more invariants
(`SubmittedIffSaving`, `RecorderHasDraft`, `SelectorSavedAlone`) that no run lists.

- `TypeCorrect`, `SessionInvariant`: submissions, readiness and exclusion are inductive
  only together. An answer may spend the submission it finds because the ticket in
  flight is the only one; a reading may make an editor ready because a ticket is never
  in flight without a connection; a connection may be made without looking at
  submissions because idleness means there is none. `Held` says that no editor has a
  submission, which an answer establishes and which holds between operations; `Issued`
  says that what is submitted is what the new ticket is for, which every way of going on
  from `Held` establishes.
- `OwnershipInvariant`: host lighting and the recorder own their editor. A step that
  begins or answers an operation finds neither running, by exclusion; what remains are
  the edits, and the editors they touch are not the owned ones.
- `WorkflowInvariant`: a workflow waits for the ticket in flight, and its editors are as
  its next step needs them. The edits that a save lets through keep this, which is
  where `EditableActivity` is needed.
- `PictureInvariant`: `Aligned`, that unsaved colours and an unsaved change of their
  layer do not coexist, is not inductive: a lighting reading may move the baseline. The
  invariant adds that editors with a value have a draft, that lighting is settled while
  the picture is saved, and that lighting saved beside unsaved colours keeps the layer.
- `DraftsSurvive`, `UncertaintyStays`: `Keeps` says what every step leaves of drafts and
  uncertain states, one lemma for each group of actions. It needs `SavesAreVerified`, that
  a feature being saved stays verified: otherwise the answer to a save could settle an
  editor that only a reading may settle. Host lighting settles nothing because it owns a
  verified, unedited editor (`OwnershipInvariant`), and the two workflows because they act
  only on verified editors without edits (`WorkflowInvariant`).

**Recorder** (`RecorderStorageProofs`). `StopSucceeds`: after each edge the largest possible
wait and the releases of all that is down still fit (`RecorderInv`); the lemma on
`LargestWait` says that no supported wait, whatever range the budget encodes inline,
costs more.

**Executor** (`ExecutorProofs`).

- `GenerationFences`: at most one call begins for a generation that was replaced, the one
  the worker had let through; after it the worker can only hold a call for the published
  one (`FenceInv`).
- `HostingHoldsDevice`, `ReservationsEnd`: a host activity is in exactly one place, in the
  queue, on the worker or in the events the client has yet to receive, and reserved in
  each, and without one nothing is reserved (`HostInv`). The first theorem speaks of the
  time from the first event on. Of the time from the reservation to that event speaks
  `HostingWaitsForOneCall`: after one finite call beside a host request the worker meets
  only cancelled scans and the reservation (`WaitInv`). `FirstStopSurvives`: the first
  stop stays in the mailbox, is the problem of the host loop's end, and ends up in the
  terminal event (`StopInv`).
- `OneAnswer`: an accepted request without an answer is in exactly one of five places
  (`CountInv`). `ExecutorServes`: Init and every step of `Executor` map to Init, a step
  or a stutter of `DeviceService`; the argument needs that replies on their way are
  truthful (`TruthInv`). `CatalogStaysCurrent`: no scan in hand or on its way was
  overtaken by a write that may have changed macro slots, other than an archive that was
  written (`CatalogInv`).

**Transactions** (`TransactionProofs`). Every invariant of the transaction run, for any
memory of the keyboard, any requests, any bound of polls and any number of jobs, with
receivers that lose, delay and outlive commands, programs that end anywhere, and other
programs that write whenever they can lock. `TransactionInvariant` is the conjunction of
four parts, inductive only together:

- `ExchangeInv`: while a read waits at the receiver, what the receiver carries is that
  read or nothing, and a reply that is ready was made by this exchange and shows the
  keyboard as it is. It holds because a command is sent only when the receiver carries
  nothing and holds no reply (`before_command`), and it is what makes a read true:
  a late setter cannot land between the reply and its use. `RepliesAnswerCommands` is
  one of its conjuncts.
- `TalkInv`: the job talks only in its working stages, sets and reads what the stage is
  for, and holds the lock while it does. In the prelude every step of the list still
  ahead is what is missing, so that a job out of the prelude has the lock.
- `BackupInv`: the image to go back to is on disk in every stage that sets, by the same
  argument on the step "sync". The write back of a host session starts without its own
  backup, and is safe since either the first one is on disk or there is nothing to
  write. `AlwaysBackedUp` follows.
- `OutcomeInv`: an outcome that speaks of the keyboard is reported with the lock held and
  with no setter on its way, so that nothing moves the keyboard before it is returned.
  `OutcomesAreTrue` follows. A submitted write makes no such claim, which is why its
  setter may still be on its way when it returns.

**Desktop** (`DesktopProofs`). Both safety properties of the `desktop` run and the one about
closing, for any keyboards, threads and connections, with threads that panic and keyboards
that come and go. `DesktopInvariant` has two parts:

- `LinkInv`: every thread is the worker, the retired one or free, and nothing is retired
  or to be connected beside a worker; no worker is attached to a keyboard seen missing,
  and while the keyboard has stayed plugged in, a scan that is still current has not
  found it missing. The last holds because every submission makes a scan out of date
  (`invalidate`), and attaching submits the first read. `OneDeviceThread` and
  `NoStaleDrop` follow.
- `Held`: a write, read or host session that is anywhere at a worker that runs, in its
  queue, in its call or in an answer nobody has received, is there once, and the
  controller waits for it. It is inductive only with "once": an answer may clear the
  operation because nothing of it is left behind it, and host lighting may be forgotten
  with its last event. `NothingLost` follows, since closing asks that the controller
  waits for nothing and that no thread is retiring; a worker that died has no call.

Each method of the controller is shown once to keep what a part speaks of (`Same`,
`Carried`), so a message needs no more than the list of the methods it calls. Both lists
end with `flush_saves`, which every message runs.

**Observation** (`ObservationProofs`). The safety property of the `observation` run, for
any contents of the keyboard, any number of changes, edits, saves, readings and
connections, and any subset of the features in which a picture comes with lighting. It
asks for a notice only while a listener is open. It is not inductive: it says
nothing of a snapshot that is in flight, nor why a picture that is not displayed may be
passed over. `ChangesRemembered` is the invariant that holds instead, of three parts:

- `TypeOK`, with the one fact about order the rest needs: wherever lighting is queued, a
  picture is queued behind it (`PictureBehind`, theorem `LightingReadFirst`). `receive`
  moves the picture to the end for this, and what is taken off the head keeps it.
- `Listening`: an open listener is that of the connected keyboard, and the event the
  thread holds is of its generation, so that every change from now on has a notice that
  counts.
- `Remembered`, in which `AnswersKept` speaks of a snapshot in flight, which is current or
  comes before a notice, and `CacheKept` of what is verified: it is current, or told,
  queued, being read or given up. A picture is displayed by a lighting, so its content
  and its context are followed apart (`ContentKept`, `ContextKept`). That a queued
  picture is not passed over while it is displayed is `LightingFirst`: lighting is read
  before it, or the verified lighting is the one that displays it, or lighting was never
  read or waits for the user.
  `OutOfSight` says when passing over loses nothing.

`NoChangeIsForgotten` is read off `Remembered`. Each method of the application is shown once to keep the two parts (`ReceiveKept`, `ObservedKept`,
`ContinueKept`, `CompletedKept`, `RequestKept`), and a message is the methods it calls.
`Keep`, which says what a filter leaves of a queue, is a recursive function: that it
exists, what its members are and what its last element is (`KeepUnfolds`, `KeepMembers`,
`KeepLast`) is proved by the least number at which it would fail, so that no induction
theorem is needed. Before the proof TLC checked the invariant on the constants of the
run, and its step from states that need not be reachable.

**Local files** (`RecorderStorageProofs`). `SavedFilesStay`: a name leads to a file found there or
to one of a job that has got as far as naming it, and such a file is synced
(`NamesInv`). `LastSaveWins`: what a job has listed covers all it has to see, a number is
above all its job had to see, and a rename is not undone for a later job (`OrderInv`);
the number a save takes is above its listing, and nobody can have been told of it yet.

**Browser planner** (`WebPlannerProofs`). Both safety properties of the `planner` run, for
any keys, pages and slots, any profile switches and a keyboard that may not hold the
baseline. `PlannerInvariant` speaks of an operation together with *all* of its remaining
effects, since an effect is judged by what is queued behind it; one predicate for each
plan and stage says what those effects must be:

- `Main`: the first n effects set what the save wants, the others ask for exactly the
  places still without a reply (`ToRead`), and no reply comes before the last setter. So
  long as nothing went wrong, a place holds its target or a setter for it is still to
  come. Without the count n the reading after a save could be of an older keyboard.
- `Restore`: only originals are written, and with one fault at most each place of the
  stage is as it was or a setter for it is still to come; what an earlier stage put back
  (`Back`) stays so. Here a keymap needs its two layers apart: the base layer is observed
  after the function layer was restored.
- `Observe`: the replies are of the first profile and say what the keyboard holds. The
  original of a key that could not be observed is written back wherever the save would
  have changed it (`ObservedIsSo`).
- `Backed`: until the backup is stored, and before a setter is sent, nothing has changed.
- `Answered`: the only effect left is the answer, and it is true.

Each kind of effect, done or failed, is shown to keep these (`WroteFine`, `BackupFine`,
`StepFailsReady`, `WriteFailsReady` and the lemmas on replies), and each end of a stage to
establish those of the next (`SequenceReady` and the lemmas it cites). `ReportsAreTrue`
and `OneFaultUndone` are read off the last; the second speaks of saves that are read back,
with no switch of the profile and a baseline the keyboard held. The invariant was checked by TLC on the
constants of the run before it was proved.

**Page** (`BrowserProofs`). Both safety properties of the `browser` run and the one about
disconnecting, for any lighting, bounds and catalog, and for any set of activities
together, where the run takes them at most three at a time. All assume that no refused
close has left an executor at work (`left = {}`), which the proofs rest on; what then
remains of `OneConnectionAtDevice`, for the other connections, and of
`DisconnectLosesNothing` only TLC checks. Two invariants:

- `PageInvariant`: jobs are where they may be. Only the last connection's executor has
  any, and none once its disconnection has passed the executor (`Placed`), from which
  `OneConnectionIsAtDevice` follows. Of the jobs that wait, run or have settled without
  their caller having heard of it, at most one is the host controller's, and of a kind
  its phase expects (`Flight`, `HostExpected`). A controller that is idle has none, which
  is what lets the next host lighting save what the lighting is to go back to.
- `TruthInvariant`: the jobs and what is presented say what is so. A settled job tells
  the truth about the keyboard, a start not yet sent finds it as it was saved, a write
  that waits for its answer has left there what it says (`Honest`); the pending operation
  is the one in flight (`EditorHeld`), host lighting holds the lighting to come back to,
  and one still shown after its end is noted as a problem (`HostHeld`); and lighting
  presented as verified is what the keyboard shows (`LightingTrue`). The last is not
  inductive alone: a save or a stop verifies the editor by what its job tells.
- `DisconnectingLosesNothing`: of all actions only a disconnection by hand and the end of
  its wait for host lighting end a connection without force (`OtherwiseRemains`), and
  both look at what became of the host lighting.

A piece of script is shown once to keep what later pieces need: `Steady` for those of the
session, `GoesOn` for those of the host controller, `Keeps` for those of connecting and
disconnecting. Every action is a composition of them. Both invariants were checked by TLC
on the constants of the run before they were proved.

Only model-checked: the properties with fairness, which are beyond the prover, and the
three that are violated. Every invariant and every property of steps that a run checks is
also a theorem, those of the page while `left` is empty. `Recorder` is in no run: there only the proof speaks.

## 5. Not modelled

The models cover the program's decisions. Most of the remaining source is of kinds a
state model has little to say of:

- what is drawn, and forms that hold text until it is applied (`byakko-desktop/src/view`,
  `widget`, `form`; `web/app.mjs` beyond its controls);
- codecs between reports and values, tables of keys and effects, projections and the
  tester's layouts: bounded conversions, which their round-trip tests cover;
- samplers of sound and screen, input testers and HID enumeration: platform calls. What
  they deliver, frames and events at any time or none, is an input of `Desktop` and
  `Executor`;
- the memory backend and research tools, which are test doubles, and vendored code;
- the command line, which runs one operation of a session after another;
- the marshalling of values between the page and the session (`byakko-web/src/session.rs`).

What a continuation would take up, in this order: the full session composed with a device
memory, so that the macro library can be compared with what the slots hold; the page's
observation queue.
