# Kodosi desktop: TLA+ models

Kodosi is a Qt desktop application that shows terminals hosted by a runtime
library. The library (Rust, behind the C interface `kodosi_*`) is not part of the
repository; the application is C++ in `src/src` (paths below are relative to it).
This directory models the parts of the application where threads, late messages,
retries and restarts meet, checks them with TLC, and proves with TLAPS every invariant
and every action property that the runs check, for all values of the constants.

## The system

| Part | State | Operations | Talks to |
| --- | --- | --- | --- |
| `runtime/RuntimeBridge` | handle, generation, event queue counters, events held while starting, account epoch and user | `startAsync`, `stop`, destructor, `queueEvent`, `deliverEvent`, commands | runtime: `kodosi_*` calls and callbacks; GUI thread through posted calls; registry as `TerminalEventSink` |
| `app/ApplicationLifecycleModel` | state, attempt token, in flight, stopping | `scheduleInitialStart`, `retry`, `stop`, completion, `runningChanged` | bridge |
| `terminal/TerminalSessionRegistry` | sessions: subscription, surfaces, queued refreshes, admitted; entries: active, needs checkpoint, last published revision | `registerSurface`, `unregisterSurface`, `cancelSurfaceRefresh`, `receive*`, `installSemanticCheckpoint`, viewport and selection operations | callbacks from the bridge; kernels; listeners of views |
| `terminal/GhosttyTerminalKernel` | admitted, failed, subscription, next sequence, revisions | `installCheckpoint`, `applyData`, `applyResize`, scroll, select, configure | called by the registry under its own mutex |
| `terminal/TerminalView` | attachment epoch, frame mailbox, GUI event queue, focus, resize and input state | `attach`, `detach`, `enqueueFrame`, `enqueueGuiEvent`, drains, `sendFocus`, `dispatchResize`, `drainInputQueue` | registry, bridge (commands), controller (signals) |
| `terminal/TerminalSurfaceController` | bindings of views to sessions, generations, retries, checkpoint timers | `bind`, `retry`, `detach`, `reconcile`, `runtimeChanged`, timers | views, catalog, bridge |
| `app/SingleInstanceGuard` | owner lock, endpoint, clients, remembered requests | `start`, `publishEndpoint`, `forward`, `acceptConnections`, `close` | other processes |
| `logging/ApplicationLogStore` | current file, family, locks | append, rotate, prune | other processes' families |
| `presentation/Workspace`, `SessionActionsModel`, `SessionCatalogModel`, `DesktopStateModel` | pending requests, links, catalog, staged sessions | apply events, send, expire, route, activate | bridge, each other |
| `presentation/ConversationHistoryModel`, `ProviderFilesModel` | request in progress, pages | send, apply, time out | bridge |
| `presentation/TerminalTilingLayoutModel` | panes, proportions, rows | rebuild, split, adjust, swap | QML |
| `platform/FreedesktopNotificationDriver`, `TerminalNotifications` | ids, keys, generations, contexts | post, withdraw, replies, service changes | D-Bus, catalog |
| QML: `TerminalStage.qml`, `TerminalTile.qml` | one tile with one view per staged session; the error a tile shows | bindings to the layout, tiles made and destroyed, Retry | layout, controller, view |

Rendering, accessibility, settings and storage have no protocol of their own.

What is hard, and where:

- *Two threads through one registry.* Callbacks of the runtime (one at a time: the
  bridge holds a mutex around each) and the GUI thread meet at three kinds of
  mutex: the registry's, a kernel's, an entry's listener mutex. Every operation
  takes them one after the other, never together, so it can be overtaken between.
- *Late messages.* Data and checkpoints of a replaced subscription, posted calls of
  an earlier runtime or attachment, completions of an earlier attempt. Each is
  recognised by a number: subscription generation, bridge generation, attachment
  epoch, attempt token, account epoch, incarnation of a session.
- *Bounded queues.* Events between the runtime and the models (4096 events,
  16 MiB), events between the registry and a view (64), one frame per view,
  eight surfaces per session.
- *Partial failure.* A registration whose command is then refused; a checkpoint
  that some kernels reject; a start that is called off, fails or overflows; a
  rotation of a log that stops between two renames.
- *Long chains of handlers.* A snapshot of the catalog runs through the surface
  controller, the link being opened, the staged sessions, the tiling layout and the
  tiles it makes and destroys, which bind and detach views, before it returns. Each
  of these keeps its own idea of which session is where.
- *Processes.* Several Kodosi processes meet at a lock file, at a socket and in the
  directory of logs, and any of them may be killed between two system calls.

## The modules

| Module | Models |
| --- | --- |
| `SessionRegistry` | the registry, with the kernels it feeds |
| `SessionRegistry_proofs` | theorems about it |
| `ViewMailbox` | frames and events on their way into a view |
| `ViewMailbox_proofs` | theorems about its control, what it delivers and shows, and its refinement |
| `LatestFrame` | what that way promises, implemented by `ViewMailbox` |
| `ViewInteraction` | how a view claims focus and size and sends input |
| `ViewInteraction_proofs` | theorems about it |
| `RuntimeBridge` | start, stop and the event queue of the bridge |
| `ApplicationLifecycle` | extends `RuntimeBridge` with the lifecycle that drives it |
| `ApplicationLifecycle_proofs` | theorems about the bridge, whoever calls it, and about both together |
| `SurfaceController` | `TerminalSurfaceController`: handlers, as operators on the state of the stage |
| `TilingLayout` | `TerminalTilingLayoutModel`: which tiles and dividers, by which row changes |
| `DesktopState` | extends both with `DesktopStateModel` and the tiles of the stage |
| `SessionLinks` | extends it with requests, deep links, the account and the catalog |
| `Stage` | extends it with the events of the GUI thread: the state machine and its properties |
| `SurfaceController_proofs` | lemmas about its handlers, folds and rows, for `Stage_proofs` |
| `Stage_proofs` | theorems about all of the stage |
| `SingleInstance` | processes that contend for one runtime directory |
| `SingleInstance_proofs` | theorems about it |
| `LogStore` | processes that log, rotate and prune in one directory |
| `LogStore_proofs` | theorems about it |

A step is what the code does under one mutex, one atomic operation, or one call run
by the event loop. Locals of a call that spans several steps are in a record named
after its thread (`gui`, `cb`, `pub`), whose `pc` says where the call is. The names
of variables are the code's fields, said in the comment of each variable. Operators
marked "mutant" are faulty variants of the definition below them, which the
properties are shown to reject; nothing else uses them.

### SessionRegistry

One key of the session map: every operation looks up one key, so the keys do not
interact. `Register` is `registerSurface`; the `connectTerminal` or
`refreshTerminal` that follows is a step of its own (`RuntimeAccepts`,
`RuntimeRejects`, with `CancelSurfaceRefresh` and `Rollback` after a refusal), since
callbacks come between. `MoveViewport` and `PublishMove` stand for every GUI
operation that redraws. A data or resize callback is `Deliver…`, `Lookup`, then
`Apply` and `Publish` for every entry copied; a checkpoint is `DeliverCheckpoint`,
`Targets`, `Install` and `Publish` for every target, `Pending` until nothing is
left, `Reply`. `link` is the runtime: the position of each stream and the
checkpoints it has promised. A surface can be given a subscription in the way the
surface controller chooses it (`Offered`).

The set of eight surfaces bounds the queue of refreshes too (a queued refresh names
a registered surface, once: `SeedsOwed`), so the limit of 64 refreshes never
refuses in the program; the model keeps the test. `disconnectTerminal` has no effect
in the model: what is on its way may still arrive.

### ViewMailbox

The view's side of a listener. `Publish`, `CheckEpoch`, `Put` and `Post` are the
steps of `publishFrame` and `enqueueFrame` (the listener mutex is held over them:
`lock`), `Send` is `enqueueGuiEvent`. The GUI thread is a list of steps still to take
(`gui.todo`), because handlers run inside drains: presenting a frame may attach the
view elsewhere, a refused connection makes the controller detach it in the middle of
the loop over events, a closed terminal drains its last frame and detaches.
`LatestFrame` is the abstract view: a slot offered ever newer frames, showing some
of them in order and in the end the newest. The refinement maps `offered` to the
mailbox's highest revision and `shown` to the presented frame, each when it belongs
to the current epoch.

### ViewInteraction

The other side of a view: `DispatchFocus` and `DispatchBlur` are `dispatchFocus`,
`DispatchResize`, `ScheduleResize`, `HandleResizeOutcome`, `DrainInputQueue` and so on
the functions of those names. All run on the GUI thread, so a handler with everything
it calls is one step. The fields of the view are one record, `view`, and a handler is
an operator from a record to the set of records it may leave, one for each answer of
the runtime (accepted, busy, another error) to a command sent on the way. Steps are
what the user, Qt and the application do (`ItemChanges`, `ApplicationChanges`,
`Type`, `Attach`, `Detach`), a frame, an event, a timer, and the runtime carrying out
a command (`RuntimeCarriesOut`). Single-shot timers are a bag, since two of a kind can
be on their way: one of an earlier attachment, or one whose flag was cleared.

Taken from the rest of the program: input and resizing are granted together
(`TerminalSurfaceController.cpp:171` and its other calls), no tile changes the opacity
of its view, Qt gives focus only to a view that is shown and enabled, and takes it
from one that is disabled. Sizes stand for everything in `m_lastResizeKey`. Left out:
the limit on queued bytes, the lengths of backoffs, a runtime that stops under an
attached view, and other views of the same subscription, whose `clientId` the runtime
cannot tell from this one's.

`focusRefused`, `resizeRefused`, `passedOver`, `typed`, `taken` and `stray` are
history and steer nothing.

### RuntimeBridge and ApplicationLifecycle

`StartAsync`, `KodosiStarts` (the start thread) and `StartSucceeded`, `StartFailed`
or `StartCancelled` (its posted call) are a start; `BeginStop` and `Joined` are
`stop`, which waits in `kodosi_stop` for the callbacks of the runtime; `Destroy` is
the destructor, which leaves a returned handle to a detached thread. `Emit`,
`Reserve` and `Post` are `queueEvent`; `RunEvent` and `RunOverflow` the calls it
posts; `Deliver` is `deliverEvent` with the account fence. `last` is history: the
last event delivered since the start, and whether one was missing, was another
runtime's, or left account data of another account behind.

`ApplicationLifecycle` adds `ApplicationLifecycleModel`. Signals are handled in the
step that emits them, as direct connections on the GUI thread are. It is the only
caller of the bridge, as in `main.cpp`.

Left out of the bridge: synchronous `start()` (tests only), the refusal of an
incompatible runtime (no state changes), malformed events.

### The stage: SurfaceController, TilingLayout, DesktopState, SessionLinks, Stage

All of it runs on the GUI thread, where a signal runs its handlers before it returns.
So there is one variable, `stage`, a record with the fields of all the objects; a
function of the code is an operator from a state to the next, named like it where the
language allows; and a chain of signals is a composition of operators, in the order
`main.cpp`, `Workspace.cpp` and the QML connect them. `Stage` has one action per event
of the event loop: what the user does (`User…`), what the runtime says (`Start`,
`Stop`, `Auth`, `Snapshot`, `Result`, `Error`, …), what a terminal says
(`ConnectionOpens`, `ViewHears`, `FrameShown`, `ViewOverflows`), and timers. `runtime`
is what the runtime would list, `budget` the bounds.

| Field | Code |
| --- | --- |
| `bindings`, `waiting`, `retryTimer` | `m_bindings`, `m_waitingForFreshCatalog`, `m_attachmentRetryTimer` |
| `views`, `registry` | the attachments of `TerminalView` and the subscription of each session, as far as the controller can tell: `asked`, `open`, `admitted`, `over` |
| `wired` | how often the controller's handlers are connected to a view |
| `error`, `unheard` | the tiles with an error; those whose Retry had no effect |
| `staged`, `selected`, `focus` | `DesktopStateModel` |
| `tiling`, `made` | the rows of the layout; history: tiles made in the step |
| `pending`, `active`, `links` | `m_pending`, `m_activeLink`, `m_links` |
| `catalog` | authority state and sessions, with incarnation and a status that stands for liveness, connection and access together |
| `refused`, `sends`, `faulty` | which commands of this step the runtime refuses |
| `reported`, `done` | whether the step set an error; what `activate` returned |

The tiling layout is abstracted to what its rows depend on: a viewport is the number
of columns it prefers for each number of tiles, and a proportion is whether its
divider was moved. Row changes are not abstracted, since a row inserted makes a new
view and a row removed destroys one: `Synchronized` is `synchronizeEntries`, row by
row. `Extra` are views besides those of the tiles: the QML binds one view per session,
while the tests bind two, and the sharing of subscriptions is only met so.

`activatePendingLink` calls itself after each link whose session the catalog knows.
`ActivatePendingLink` is that recursion unrolled: the links ahead of the first unknown
session are activated one after the other, by a fold, and then the unknown one becomes
the active link. Activating changes neither the catalog nor the queue, so the links of
the walk are known before it begins.

### SingleInstance

`pc` says where a process is, a step is a system call or a handler of the owner's event
loop. `Launch` to `GiveUp` are the loop of `start` and `forward`, `Publish` the
owner's start-up in `main.cpp` with `publishEndpoint`, `Accept`, `Receive`,
`ReleaseClient` are `acceptConnections` and the handlers it connects, `Act` the handler
of `activationReceived`, `Leave` `releaseOwnership`. `Encode` and `Decode` translate
what goes through a frame, field by field. External are `flock`, which the system
releases when a process dies, and the sockets: `endpoint` is the process whose socket
is at the path, and stays there when it dies. A request id names its process, since a
process makes one.

### LogStore

`files[f]` are the files of family `f`, 0 the base and 1 the newest archive; contents
are the numbers of the records, and a record has one of two lengths. `List` to
`FinishPruning` are `pruneCompletedFamiliesLocked`, `Open` and `LockOwn`
`openCurrentFile`, `Record` and `WriteAll` the end of `write`, `DropOldest` to
`Truncate` `rotate`. A base file that is removed while its process has it open is still
written to, without a name (`nameless`): the directory shows only what is `Named`.
`Fault` is a failing system call. `End` stands for an exit and a
kill at any step. `Kept` leaves open which families are the newest: the code compares
times in whole seconds.

## The runs

| Run | Shows | Bounds and why they suffice |
| --- | --- | --- |
| `SessionRegistrySeeds` | `TypeOK`, `SeedsOwed`, `Shown` | 3 surfaces, 2 at once, so the limit refuses one: one seeded, one waiting, one late or refused; 2 subscriptions: a current and a replaced one; no data, no redraw; fair |
| `SessionRegistryFaults` | `Contiguity`, `NoSpuriousFault`, `LastFrameDelivered`, `NoStranding`, `CalledOnlyWhileRegistered` | 2 surfaces, 2 subscriptions, 1 data frame and checkpoints before and after it, 3 redraws: two threads redrawing one kernel; kernels may reject everything |
| `ViewMailbox` | `TypeOK`, `DrainIsComing`, `EventsInOrder`, `EndedInItsTurn`, `NewestFrameShown`, `OverflowDetaches` | 6 epochs: two whole attachments with their detachments; 2 revisions, 3 events, capacity 2, so the queue overflows; fair |
| `ViewInteraction` | `TypeOK`, `RetryIsComing`, `AgreeOnceSettled`, `InputInTurn` | 5 changes by user and application, in any order with timers, outcomes, frames and reattachments: granting interaction takes one, a resize under way, another refused and the authority lost take the rest; 1 refusal or rejection, so every retry runs once; 4 epochs: two attachments, timers of the first firing in the second; 2 sizes (with 3 TLC finds no difference); a queue of 2 inputs sent one at a time, so it fills, is full and is cleared while it waits |
| `RuntimeBridge` | `AccountFenced` | a caller that starts, stops and destroys at any time; 3 events over 3 epochs, 3 users, every type: later, equal and earlier epoch after each other; capacity 2, so events are refused and the start overflows |
| `ApplicationLifecycle` | `LifecycleTypeOK`, `NoGap`, `OwnUnlessFailed`, `StateIsTrue`, `CountersExact`, `AttemptEnds`, `RuntimesOwned` | 3 attempts of 3 events each, which may fail; capacity 2 events and 3 bytes, sizes 1 and 2: full by count and by bytes; fair |
| `Stage` | `TypeOK`, `AttachedAsListed`, `NoSilentTile`, `StageShown`, `TilesKept`, `LinksHeard` | see below |
| `SingleInstance` | `TypeOK`, `OneOwner`, `ActedOnce`, `ForwardedIsActedOn` | 3 processes, one with a link, one with a bad link, two with a token: an owner, its successor and a client of both; 1 connection at a time and 1 request remembered, so a connection is turned away and a request is forgotten; 3 attempts, 1 process killed, 2 waits that fail: a request is sent again after an answer was lost, and once more to the next owner |
| `LogStore` | `TypeOK`, `HistoryKept`, `Bounded`, `ActiveNotPruned` | 4 processes, which are alike (symmetry; there is no liveness property): one that is over and left nothing, a base file, or an archive, one that logs, and two that prune meanwhile, so that one is pruned from under its open file and its archives are found by the next; files of 2 bytes, 2 archives and 5 records of one or two bytes for a process, 7 for all: the third rotation drops an archive; 1 family kept; 1 failing call and kills at every step; the archive left behind is one of a version that kept an archive more |
| `ViewMailboxRefused` | violates `RefusedShowsNothing` | see below |
| `ApplicationLifecycleStuck` | violates `StartingEnds` | see below |
| `ApplicationLifecycleStale` | violates `OwnEvents` | see below |

`Stage` explores two kinds of behaviour, chosen in `Init`, since together they would be
too many. Where *terminals* are looked at, there are two sessions, one local and one
remote, which become ready, away, closing, blocked, a new incarnation, or end, and an
extra view: 2 inputs, 3 events of the runtime and 2 faults (a command refused, an
attachment that fails, a deadline, an overflow), with a remote attachment given up
after 2 attempts. The second incarnation takes one event after the start and the first
snapshot, so does the loss of a connection, an account change or a restart; timers and
the answers of terminals are free. Where *links* are looked at, there are three
sessions for a stage that holds 2, with 3 inputs, 3 events and 1 fault, 2 requests and
1 link waiting behind the active one, so that each limit refuses; terminals stay
connecting. One more input, event or fault multiplies the states by about ten;
random simulation with twice the inputs and events, three faults and a limit of 3
attempts (TLC's `-simulate`, some ten million states) found nothing more.

Deadlock is not checked where an instance runs out of generations, epochs, events,
revisions or budget: the program does not, the instance stops. In `SingleInstance` and
`LogStore` all processes end.

A single event of more than 8 MiB is dropped without a word (`RuntimeBridge.cpp:275`) and is
not modelled.

Capacities (64 events, 4096 events, 16 MiB, 8 surfaces, 32 requests, 32 links, 6
terminals on stage, 20 retries, 16 clients, 64 requests remembered, log archives) are parameters. Their size
matters to no guard beyond the comparison with the limit, so a limit that is reached
in the instance stands for any.

### Fairness

- A thread that is in a call goes on (`WF` of the steps of `gui`, `cb`, `pub`): none
  of the modelled calls waits for more than a mutex held for a bounded time.
- The event loop runs posted calls and timers (`WF`): Qt's event loop.
- The runtime sends a checkpoint it has promised after finitely many other
  deliveries (`SF` of `DeliverCheckpoint`; strong, since other callbacks may take
  the callback thread in between). `RuntimeSide`: `kodosi_start` returns.
- No user action is fair: nobody has to attach, detach, retry or quit.
- `Stage`, `SingleInstance` and `LogStore` state no fairness. What must eventually
  happen there is stated as the presence of what makes it happen: a running timer, an
  outstanding answer, a queued event (`NoSilentTile`).

### What the code does otherwise than it says

1. `ApplicationLifecycleStuck`. When events overflow while the runtime is starting,
   `stop()` finds no handle and tells nobody, and the posted end of the start finds
   a stale generation and drops its completion. The lifecycle stays at Starting;
   `retry()` wants Failed. The message of the overflow (`RuntimeBridge.cpp:292`)
   asks for a restart that cannot be made. The run `ApplicationLifecycle` shows that
   every other attempt ends (`AttemptEnds`).
2. `ApplicationLifecycleStale`. Events held while starting survive a start that
   fails, and are delivered as the next runtime's, against what
   `stoppedGenerationDropsQueuedCallbacks` (`tests/tst_runtime_bridge.cpp:76`)
   expects of an ended generation. The run `ApplicationLifecycle` shows that every
   event delivered as another runtime's is of a runtime whose own start failed
   (`OwnUnlessFailed`); the history `last.foreign` keeps the runtimes of such events.
3. `ViewMailboxRefused`. A checkpoint owed to an earlier refresh can seed a surface
   between its registration and the refusal of its own refresh. The rollback leaves
   the mailbox as it is, and the view, unattached, presents the frame and is ready.

What follows is not contradicted by any text of the repository, so it is told here
and no run is kept for it.

The runtime can be left with another size than the view has (`ViewInteraction`;
`AgreeOnceSettled` says that these are the only ways). `dispatchResize`
compares the size with the last one *applied* (`TerminalView.cpp:1163`). A view that
goes from A to B and back to A while the request for B is on its way sends nothing;
when B is applied nobody looks again until a frame comes. Worse, a request for C that
is refused as busy also forgets the request for B (`TerminalView.cpp:1210`): its
outcome is ignored, the last applied size stays A, and a view back at A believes the
runtime has A for good, frames or not. (The same when the runtime then rejects the
forgotten request: the view that waits for nobody says nothing of it. `Passing` counts
that case as well; it takes two refusals, more than the run has, and was missing from
the history until the search for an inductive invariant met it.) And a view resized while a dialog disables it
sends its size only with the next frame, because `enabledChanged` leads to
`synchronizeInteraction` alone (`TerminalView.cpp:207`), unlike showing it again
(`TerminalView.cpp:760`).

In `RuntimeBridge` with a caller other than the lifecycle, after a start is called off
and another begun, a late callback of the first can mark the queue failed
(`RuntimeBridge.cpp:283`) with a report nobody acts on, and the second
runtime's overflow is then dropped in silence. The lifecycle never starts again while
a start it called off is on its way, so `NoGap` holds in `ApplicationLifecycle` and
is stated there.

On the stage:

- A binding notes whether its remote session is connected only when that changes, and
  starts with "not connected" (`TerminalSurfaceController.hpp:60`). One that is made
  while the session is connected, and whose next snapshot says it is not, compares
  false with false (`TerminalSurfaceController.cpp:316`) and stays attached.
  `AttachedAsListed` excepts it.
- Retry in a tile takes the error away, and if the session cannot be activated does
  nothing more (`TerminalTile.qml:219`): the tile shows "Connecting terminal" and no
  button. `NoSilentTile` excepts it, by `unheard`.
- The answer to a request to create a session makes it the active link, whatever link
  was being opened (`Workspace.cpp:323`), and so does activating a session the catalog
  does not know. `LinksHeard` has a disjunct for it.
- An error for the link being opened tries the next link before its own request is
  taken off (`Workspace.cpp:346`), so with 32 requests the next one is
  refused; the links behind it then wait for a snapshot. And what a refused link
  reported is cleared by the request of the next one (`Workspace.cpp:109`) in the same
  call.
- A view whose queue overflows detaches without telling the controller, whose binding
  stays attached, and whose subscription is shared with the next view.
- `detach()` leaves the handlers of a view's signals connected, so a view that is bound
  again has them twice and each failed attempt counts twice (`TypeOK` allows one more
  than the limit). The tiles of the QML have a new view each time.
- A view whose terminal ends detaches itself before it says so
  (`TerminalView.cpp:877`); its binding stays, and the next snapshot that still lists the
  session attaches the view again (`ViewEnds`).
- Only attachments that share a subscription have a timer for their checkpoint.

In `SingleInstance`: a client whose endpoint vanishes between its two looks at it fails
as unsafe, although the next attempt would find the lock free
(`SingleInstanceGuard.cpp:530`). An activation can be acted on although its client
reported a timeout, by two owners if the first is killed, and not at all if the owner
is killed between its answer and the signal; nothing promises otherwise.

In `LogStore`: a process that opens its file while another has locked it to remove it
logs nothing ("family is already active"). When the other has removed the file and
released the lock between the open (`ApplicationLogStore.cpp:499`) and the `flock`
(`ApplicationLogStore.cpp:513`), the process locks a file without a name and logs on.
Its rotations make archives by name, a family without a base file, which others take
down without a lock (`ApplicationLogStore.cpp:763`) and may remove while it logs; its
copy then goes to a file without a name, and the records are gone with the truncation.
`startupPrunesByFamilyLockRatherThanPid` (`tests/tst_application_log_store.cpp:303`)
expects the family of a process that runs to be left alone, of one that has its lock.
`ActiveNotPruned` excepts `nameless`, and `HistoryKept` the families that were chosen
to be removed. A family of archives without a base that
another process prunes at the same time makes the pruning fail; the process then logs
nothing, and the locks of the families it had checked stay taken while it runs
(`ApplicationLogStore.cpp:801`). A line that exceeds the size of a file by its category
alone is never short enough (`ApplicationLogStore.cpp:428`); categories are short.

## What is proved

`SessionRegistry_proofs`, for all values of the constants that satisfy
`ConstantsAssumption` (any number of surfaces, subscriptions, frames, with and
without kernel faults):

- `TypeCorrect`: `Spec => []TypeOK`, the limits on surfaces and refreshes included.
- `InOrderInvariant`: `Spec => []InOrder`, the inductive invariant.
- `StreamContiguous`: `Spec => []Contiguity`.
- `NoFaultReported`: `Spec => []NoSpuriousFault`.
- `ListenerCalls`: `Spec => CalledOnlyWhileRegistered`.
- `RefreshesAnswered`: `Spec => []SeedsOwed`, from `RefreshesInvariant`: the queued refreshes
  are of different registered surfaces, and no more than the checkpoints to come.
- `NobodyForgotten`: `Spec => []NoStranding`: seeded surfaces had their checkpoint, and those that
  wait in an admitted session are queued, being seeded, being unregistered, or told of a rejection.
- `NewestDelivered`: `Spec => []LastFrameDelivered`.

`Contiguity` is not inductive. That a callback finds every copied kernel at its own
position needs: the entries of a session entry are of its subscription, and active
exactly while the map holds them (`EntriesMatch`); a kernel that was seeded was
seeded under its entry's subscription (`KernelOfEntry`); what the callback thread
carries is of the stream it says (`CallOfStream`); generations not handed out are
nowhere (`FreshUnused`); and no thread holds a fault it is about to report
(`NoFaultInHand`). `InOrder` is the conjunction. The proof has one lemma per action
that says what the action does to these parts (`…Effect`), and one step per action
under which the conjuncts it can disturb are treated in turn. The proofs use
`TypeCorrect` and the theorems of the library on finite sets.

`SeedsOwed` counts: as many checkpoints come as refreshes are queued, those the runtime
owes, the one being taken up, and the one the GUI thread is asking for (`Answered`). This
is inductive only with what the GUI thread knows when it takes a refresh back: it is still
the last of the queue (`LastQueued`), since whoever answered it meanwhile answered all before
it and emptied the queue; and the session entry is the one it registered in (`GuiOfSession`).
`NoStranding` needs that a callback is at a surface only while it publishes to it, and that
after a checkpoint was taken the surface no longer waits, and after one that was not its
kernel rejected it (`HandOver`); and that no kernel loses its checkpoint (`Given`). It says
nothing of a surface whose kernel rejected its checkpoint beyond that its view was told:
no second one is asked for by the application. `LastFrameDelivered`
needs that nobody was given, or has in hand, a frame newer than what the kernel displays
(`NotNewer`), and that what it displays was delivered or is in the hand of a thread
(`LastOnItsWay`): the thread that is overtaken leaves the newer frame alone.

`SingleInstance_proofs`, for any number of processes, started for anything, with any
limits on clients and on the memory of requests, and any number of crashes and failed
waits:

- `OneOwnerAlways`: `Spec => []OneOwner`, from `LockInvariant`.
- `ForwardedIsActedOnAlways`: `Spec => []ForwardedIsActedOn`, from `AccountedInvariant`.
- `ActedOnceAlways`: `Spec => []ActedOnce`.
- `TypeCorrect`: `Spec => []TypeOK`, the limits on clients, memory and attempts included.

`OneOwner` becomes inductive when it is an equivalence: the lock is held by the process
that is between taking it and giving it back, and by no other (`LockMatches`).
`ForwardedIsActedOn` speaks of a client that has ended; the server relied on the
answer, and on its memory when it answered a duplicate, so `Accounted` says of each of
these that the request was heard, and that nobody has acted before it serves. That what
is sent is read back as the same activation is a lemma of its own (`CodecFaithful`).
For `ActedOnce`, `Once` says that while a process serves its memory is a window on
what it acted on: the last ids, in order, as many as it may keep or all but its own
(`Recent`). A request that is not in the window was acted on, if ever, longer ago than
the memory reaches, and remembering it slides the window by one (`RecentGrows`). A
process's own activation is not in its memory, and need not be: no process connects to
itself. For `TypeCorrect`, an attempt is counted before it is used (`Attempts`), what a
client does to its end of a connection never makes one more that a server has accepted
(`Clients`), and remembering adds only what is not remembered (`Memory`). All rest on
`ConstantsAssumption` only.

`ViewMailbox_proofs`, for any number of attachments, frames and events, any capacity of
the queue, and whatever the `Workspace` does inside a drain:

- `TypeCorrect`: `Spec => []TypeOK`, so no nesting of attach and detach passes the bound of the epochs.
- `DrainIsComingAlways`, `EventsInOrderAlways`, `EndedInItsTurnAlways`, from `Invariance`.
- `FramesInOrder`: every step is a step of `LatestFrame` or a stutter. This is the safety
  part of `NewestFrameShown`; its fairness stays with the run.

The types alone need an invariant (`Sound`): `gui.todo` is one of the finitely many ends of
attach and detach, its next step agrees with what is already torn down (`Control`), and
the steps to come do not need more epochs than are left (`Room`). On it rest: the mailbox
is of the current attachment except between the two steps of a bump (`Fence`), who holds the listener's mutex
is past its check (`Locked`), the flags of the mailbox and of the queue match the posted
drains and what a drain has in hand (`Mailboxed`, `EventsDue`), what an event has seen was
published (`SeenPublished`), the batch in hand followed by the queue are the accepted
events that were not handled (`Ordered`), and revisions grow from the screen over the frame in hand
to the mailbox (`Shown`, and `LastShown` for a terminal that ended).
`EventsInOrder` is not inductive without `Ordered`, since an event taken into a batch has
left the queue; `EndedInItsTurn` is not without `SeenPublished`, since a frame published
before the end may still wait for its mutex.

`ApplicationLifecycle_proofs`, for the bridge alone, called by anyone in any order:

- `TypeCorrect`: every variable keeps its type.
- `CountersExactAlways`: `Spec => []CountersExact`.
- `AccountFencedAlways`: `Spec => []AccountFenced`.

Types and counters are one invariant: that a counter stays a natural number when an
event is run depends on the event having been counted. The sums over the queue and the
delivery of all held events at once are folds. The library has no induction over them
that the provers can use, so a fold is described by a table of its partial
results (`Table`), one `Along` which facts are carried step by step.

and for both together and any number of attempts:

- `BridgeImplemented`: `LifecycleSpec => Spec`, through which the theorems about
  the bridge hold here too.
- `LifecycleTypeCorrect`, `StateIsTrueAlways`, `OwnUnlessFailedAlways`, from `LifecycleInvariance`.
- `NoGapAlways`: `LifecycleSpec => []NoGap`.

The control of the bridge (`Control`: one runtime at a time, one `started` call for a start, every
posted event of its own generation) is not inductive by itself: `startAsync` may be
called at any time. `Mode` says in which states the lifecycle schedules an attempt, waits
for one, is up, or is on its way down, and that a start happens only when every earlier
runtime is over. `StateIsTrue` follows from `Mode`. `NoGap` needs `Increasing` (delivered,
held, posted and in the callback, in this order, events are of growing number) and `Covered`
(each event after the last one delivered is on its way, or was refused, and then the call
that stops the runtime is ahead of what comes later).

`NoGap` is a property of the two together. For the bridge alone it is false, as TLC shows
with `EmitLimit` 6, `StartLimit` 2, `EventLimit` 2, `ByteLimit` 4 under `Spec`: a callback that was refused under a
start since called off sets `m_queueFailed` after the next `startAsync` has cleared it.
The stop it posts is of the old generation and does nothing, and the next refusal
finds the flag set and posts none. It does not happen in the program, whose
lifecycle never starts again after a start it called off.

`ViewInteraction_proofs`, for any number of attachments, changes and refusals, any sizes,
and any capacity of queue and batch:

- `TypeCorrect`: `Spec => []TypeOK`, the length of the queue included.
- `RetryComes`: `Spec => []RetryIsComing`.
- `InputsTakenInTurn`: `Spec => []InputInTurn`.
- `SettledAgrees`: `Spec => []AgreeOnceSettled`.

All follow from one invariant, `Inv`. A handler of the view is an operator from a view to
the views it may leave, and handlers call one another, so the lemmas are about handlers
and not about steps: what every handler needs and keeps wherever it is called from
(`Kept`), and what holds only where a step ends (`Whole`). `Kept` is the types, the timers
and the line. `Timed`: a flag that is set has its timer, and the timer of the inputs, which
is told by its generation, is started once and never without the flag. `Lined`: commands
and outcomes on their way carry ids of their own (`Numbered`); two focus commands have a blur
between them (`Alternating`); the focus and the size that the view waits for are the last it
sent, or their outcome is on its way and says what the runtime has (`FocusKnown`,
`ResizeKnown`). `Whole` adds `Queued` (the queue continues what was taken, is of this epoch and
generation, and waits only behind a timer), `Wanted` (the focus is claimed where it may be had,
unless a retry is coming or the runtime refused), and `Sized` (a claim is made or to be made, and
where nobody is going to look at the size again the runtime will have it, or reject it and
say so). `AgreeOnceSettled` is `Wanted`, `Sized` and `Lined` with nothing on its way; it is far from
inductive, since it says nothing of a view that waits. That a fresh id exists is a lemma:
only finitely many are in use at any time.

`LogStore_proofs`, for any finite number of processes, any limits on records, archives
and families, any number of failing calls, and kills at every step:

- `TypeCorrect`: `Spec => []TypeOK`, the size of every file included.
- `ActiveNeverPruned`: `Spec => []ActiveNotPruned`.
- `BoundedAlways`: `Spec => []Bounded`.
- `HistoryKeptAlways`: `Spec => []HistoryKept`.

`ConstantsAssumption` says among others that no line is longer than a file
(`RotationBytes >= 2`, the longer of the two lengths). `Core` is the invariant of files,
locks and lists: who logs holds its lock (`Locked`); of a process that has not opened its
file there is nothing, on the disk or in a list (`Fresh`); who listed a file of a process
that logs listed its base file too (`Based`), so it asks for the lock; and what a
process takes down it has locked, or it is of one that will not log again or has lost the
name of its base file (`Held`). The last is what `ActiveNotPruned` needs and does not say:
the list is older than the choice, and a family without a base file is taken down without
a lock. Who lost its name was chosen to be removed, and is past its opening (`Adrift`). `Fits` says that there is room for
the line being written and that a copy is the beginning of the base file; `TypeOK` is not
inductive without it.

`Bounded` counts families on the disk, which a process knows only while no other runs:
`Alone` says that until it chooses it has every file of the others in a list, and none
twice, and that afterwards what is there is kept or about to be removed (`Few`).

For `HistoryKept` a family gets marks (`Marks`): file n holds the records between mark n
and the mark of the next newer file, so an archive that is missing has two equal marks.
A rotation moves marks: dropping the oldest archive pulls two marks down to the next, a
rename pulls one, truncating the base lifts its mark to the last record (`DropMoves`,
`RenameMoves`, `TruncateRests`). In between, archive 1 repeats the beginning of the base
file (`Repeated`). Which archives are there at each place of a rotation (`Archived`, `Shifted`)
is needed for the second half: when the lowest mark has left 0, at most one is missing
wherever the process stops (`Full1`). What is read back is `RunsFlatten`: runs of records that
follow one another, flattened, are one run.

`Stage_proofs` with `SurfaceController_proofs`, for any finite sets of sessions and extra views, any limits on staged
sessions, requests, links and attempts, any columns that fit, and any number of inputs,
events and faults:

- `TypeCorrect`: `Spec => []TypeOK`, the limits on the stage, requests and links included, and
  at most one attempt more than the limit.
- `AttachedAsListedAlways`: `Spec => []AttachedAsListed`.
- `NoSilentTileAlways`: `Spec => []NoSilentTile`, which excepts the tiles whose Retry could not
  activate their session.
- `StageShownAlways`: `Spec => []StageShown`.
- `TilesKeptAlways`: `Spec => TilesKept`.
- `LinksHeardAlways`: `Spec => LinksHeard`.
- `Invariance`: `Spec => []IInv`, the inductive invariant they rest on.

They use the four named assumptions of the modules: `ControllerAssumption` (finite sets,
views of tiles and extra views apart, at least one attempt), `LayoutAssumption` (at least one
tile and one column), `LinksAssumption` and `StageAssumption` (the limits are numbers).

An event of the GUI thread is a composition of handlers, each an operator from a stage to
a stage, so a lemma is about a handler: what it needs of the stage it is given and what it
promises of the one it leaves. None of the properties holds inside a step, nor is one
inductive on its own: `NoSilentTile` needs that a queued failure leads to a retry, and so what
the attempts of a binding have to do with its subscription; `StageShown` needs that a session
is dropped from the stage exactly when its binding goes. `IInv` is that the stage is whole
(`StageOK`) between events:

- Each view registered is registered under the subscription of its session, an entry of
  the registry is there for its views, and a connection that is over has said so last
  (`RegistryOK`). A view without a binding is detached; no view is bound twice; bindings of one
  incarnation share their subscription (`Shares`).
- Each binding is consistent at any time (`BindingOK`): attached if and only if it has a
  subscription, given up after the last attempt, attached only while the runtime runs and
  no snapshot is awaited.
- Each binding has an answer to come or its tile shows something (`Carried`), is in line with
  the catalog or about to be (`Settled`), and its retry has a running timer (`Timed`). These three
  are broken while handlers call one another, so `Surface(w, A, B, C)` says that they hold but
  for the views in A, in B and in C. The lemma about a handler of a view says that it takes
  its view out of the three sets, and leaves the other views alone (`Does`).
- The tiles are those of the staged sessions in their order, the bindings are one for each
  (`Tiled`), the selected session is staged, and the catalog lets each be shown (`Retained`).
- Requests and links stay within their limits (`LinksOK`), and the active link is of a session
  the catalog does not know (`Unopened`).

Every event then takes a whole stage to a whole stage, keeps the tile of each session that
stays (`Keeps`) and loses no link without a word (`Voices`), one lemma per action (`…Steps`).
Handlers that run along a sequence (the bindings, the staged sessions, the rows of the
layout, the links) are folds, treated as those of the bridge: a fold is a table of its
partial results (`Walk`), along which a fact is carried from one call to the next. For
`synchronizeEntries` that fact is `RowsAfter` and `MadeAfter`: the rows up to the target are the
wanted ones, all rows together have the ids that were there and those wanted so far, each
once, and a tile was made for exactly the ids that were not there. `TilesKept` follows.

Only model-checked: liveness (`Shown`, the fairness of `NewestFrameShown`, `OverflowDetaches`,
`RuntimesOwned`, `AttemptEnds`), which the prover cannot treat. The three runs that expect a
violation have no theorem.

## Not modelled

- `ConversationHistoryModel`, `ProviderFilesModel`: one request at a time with a
  timeout and a fence against late answers. Independent of everything above.
- Desktop notifications: posts, late replies, withdrawals and restarts of the
  notification service.
- Friends, devices and missions of `Workspace`, which are shown as they come; sharing
  and leaving a session, which only send a command.
- Geometry of the tiling layout: proportions and the penalty that chooses the columns
  are real numbers.
- What terminals, keys, mouse events and redaction compute; the Qt message handler; the
  parsing of links; peers at the socket that are not Kodosi; the safety checks of
  directories.
- A log line written in part, and archives found under the process's own new name.
- Rendering, accessibility, settings, appearance, storage: no protocol.

## The plan

Done: `SessionRegistry`, `ViewMailbox`, `ViewInteraction`, `RuntimeBridge`,
`ApplicationLifecycle`, `SingleInstance`, `LogStore` and `Stage` with its modules, all
with their proofs. Next, in this order:

1. `ConversationHistory`: requests, timeouts, pages.
2. `Notifications`: keys, late replies, the service restarting.
