# LDDE in TLA+

A verification project for LDDE, the LinuxDroid desktop environment: a Wayland
client of a compositor (Weston) that is at the same time a small Wayland server
for the applications it manages. The modules are translated from the C++ under
`src/src` and `src/include`; docs and tests serve to find out what the code is
meant to promise.

Contents: 1 the system; 2 the modules and what their runs show; 3 what is
proved; 4 where code and documents part; 5 what is not modelled; 6 the plan.

## 1. The system

LDDE is one process. Its main thread runs everything but one thing: with the
D-Bus notification backend, a worker thread runs a GLib main loop. Every handler
on the main thread runs to completion, with the listeners it calls. What makes
this hard all the same: handlers dispatch events to listeners in their middle;
the same fact is recorded by several components; two fingers act on one set of
flags; applications, the compositor, the disk, child processes and the user
decide the order in which handlers run; and every call of the system may fail.

| Component | State | Operations | Modules |
|---|---|---|---|
| Session (`core/application`, `lifecycle`, `readiness`, `wayland/connection`) | lifecycle state, exit code, attached descriptors, prepared read | staged initialization, main loop, shutdown | Session |
| Event loop (`core/event_loop`) | descriptors, timers, posted tasks | add, cancel, post, dispatch | EventLoop |
| Window system (`window/*`) | registry, window objects, focus, z-order, drag | requests of applications, calls of dock, switcher, touch | WindowStacking, WindowSystem |
| Geometry, display, touch (`window/*`, `display/*`, `input/*`, part of `shell/*`) | outputs, rectangles, interaction, contact | hotplug, rotation, placement, drags, resizes, taps | DisplayPolicy, Displays, TouchWindows |
| Dock, switcher, desktop (`dock/*`, `switcher/*`, `desktop/*`) | items, most-recently-used list, selection | activate, select, follow the registry | Taskbar |
| Overlays (`core/application` with launcher, switcher, system UI, notification center, settings) | state machines, overlay surface, presses | open, close, touch | Overlays |
| Notifications (`notification/*`) | store, popups, timers, center | post, replace, close, dismiss, expire | NotificationService |
| Settings and config (`settings/*`, `config/*`) | values, transaction, file; mode, navigation, layout | set, commit, rollback, reset, save; navigate, touch, keys | SettingsSchema, SettingsStore, DurableSettings, SettingsWindow |
| Catalog and launcher (`application/*`, `launcher/*`) | desktop files, catalog, watches; list, selection, child process | scan, refresh; search, select, launch | DesktopEntry, Catalog, Launcher |
| Not modelled | surfaces and buffers, drawing, logging, status providers | | see section 5 |

How they interact: `Application` wires the components with callbacks. The
connection, the server socket, the inotify descriptor and the timers are
descriptors of the event loop; the window tracker turns requests into changes of
the registry, whose events go to the window manager, the dock, the switcher and
the desktop; the window manager calls the tracker back to configure and close
windows; a change of an output goes to the shell, then the windows, then touch;
overlays close each other from the callbacks of their state machines.

`PROJECT.json` lists the hazards of the code, each at the line where it bites,
and the properties that would catch it going wrong.

Conventions. `Seeded fault` marks the operators that the mutation check puts in
the place of the real ones; no specification uses them. `CHECK_DEADLOCK FALSE`
is given where the system may really come to rest (the process has exited, the
budget of a bound is spent, every window is closed).

## 2. The modules

### WindowStacking, WindowSystem, MCWindowSystem

`WindowStacking` is the z-order: the record `[seq, par]` stands for `stack_` and
`parents_`, and each method of the C++ class is an operator. `raise` calls itself for
the children of the window; `StackRaise` is the loop over the windows still to be
raised, and one `Lift` is one call. `WindowSystem` is the state machine on top of it:

| Variable | Code |
|---|---|
| `order` | `WindowRegistry::window_order_` |
| `win` | the `Window` objects: lifecycle, state, visibility, parent |
| `act` | `WindowFocus::active_id_`, `WindowRegistry::active_window_id_`, and the `is_active_` flags |
| `stk` | `WindowManager::stacking_` |
| `drag` | `WindowInteraction::window_id_` |
| `closeAsked` | history: windows that were sent `xdg_toplevel.close` |

`GetToplevel`, `Commit`, `SetParent`, `ClientSetState` and `DestroyToplevel` are
requests of applications; `Activate`, `Close`, `Minimize`, `Restore`, `Enlarge`,
`Raise`, `Lower`, `StartDrag` and `EndDrag` are the API of the window manager,
called by clicks, touch, dock and switcher. An action includes the events that
the handler dispatches and what the manager's listener does with them; the
fallback of the focus (`HideWith`) is the part that most of them share.

* `WindowFocus` (3 windows; normal, minimized and fullscreen): the focus and the
  registry's active window agree whenever there is a focus; exactly the
  registry's window is flagged; the focus is never on a minimized or unknown
  window; a lost focus goes to the topmost window that is left.
* `WindowFamily` (3 windows as each other's parents): the z-order holds every open
  window once and nothing else, and activation lifts a window with its whole
  family and no one else above it.

Three windows are enough for a parent, a dialog and a dialog of the dialog, and
for a fallback that has a choice of two. Windows are symmetric: no definition
orders them, and the properties checked under symmetry are safety properties.
Maximized differs from fullscreen only in StartDrag's guard; `Inputs` selects
which kinds of requests a run explores, so that the z-order and the focus are
each explored with the inputs that concern them.

### DisplayPolicy, Displays, TouchWindows, MCTouchWindows

`DisplayPolicy` is arithmetic without state: from what an output reports to the
area windows may use, and from that area to the rectangles of placed, maximized,
restored and constrained windows. `Displays` is `DisplayManager`: what each output
has announced since its last "done", what it was at that "done", and the choice of
the primary output. `TouchWindows` composes both with the geometry side of the
window manager and with the touch layer, the way `Application` wires them.

| Variable | Code |
|---|---|
| `outs`, `primary` | `DisplayManager::outputs_` with `info` and `pending_info`; `primary_id_` |
| `win` | the `Window` objects: place in the stacking, state, current and saved rectangle, sizes |
| `inter` | `WindowManager::interaction_` |
| `touch` | `TouchInteractionManager`, its state machine, drag, resize and control helpers, its last tap |
| `recall` | the output's metrics and the shell's bars, as touch handling knows them |
| `seat` | the touch device: wired, lost, or made again without being connected |
| `inputs` | bound: contacts and other inputs so far |

An action is a touch event, a Wayland event of an output (`HandleGeometry`,
`HandleMode`, `HandleScale`, `HandleName`, `DisplayDone`, `DisplayRemoved`), a
request of a client, or a call of the dock. The order within a change of an
output is the code's: shell, then windows, then touch.

* `TouchWindows` (2 outputs of 720 x 1280, two transforms, two scales, 1 window,
  1 finger, 5 inputs): the window manager's drag never outlives the contact that
  drives it; every rectangle the desktop computes for a window keeps enough of
  the title bar in reach; a maximized window fills what the bars leave of its
  screen after each change. Five inputs are what it takes to show a window, hold
  it, change the screen under it and hold it again. One window is enough since no
  handler relates the rectangles of two; the number of open ones enters the
  cascade of placements only.
* `TouchReach` (violation): see section 4.

Abstractions: any window under a finger may be the topmost one; outputs stand
at y = 0 and the dock is at the bottom and visible; an application says nothing
of its size before the window is placed (the server has no request for it);
a finger goes to the handles of windows and to a few points of the screen.
`TitleBarsStayInReach` excepts four ways by which title bars do get lost and for which
no rectangle is computed: a resize that ends above the area's lower end, the
first rectangle of a cancelled drag, what a client declares as its geometry, and a window
that is minimized while the screen changes, which keeps its rectangle, then and when it is
restored.

### Taskbar, MCTaskbar

Here what a handler dispatches in its middle matters, so that a handler is a
composition of functions on one state `s`, in the order of the code, and each
event is seen in the state in which it is dispatched. The registry keeps its
listeners in a hash table: whether the window manager hears an event before or
after the others is chosen in `TaskbarInit`.

| Field of `s` | Code |
|---|---|
| `win`, `reg`, `focus` | the registry's windows and its active one; `WindowFocus::active_id_` |
| `dock` | what `DockModel` saw at its last rebuild; `DockItems` are its items |
| `switcher`, `open`, `sel`, `initial` | `SwitcherModel`'s last rebuild, selection and the window that was active when the switcher opened |
| `mru` | `SwitcherMru` |
| `desktop` | the desktop's idea of being in front |

* `Taskbar` (2 windows; two pinned applications that match the same app_id, and one that is
  neither pinned nor has a desktop file): the dock shows every open window and no
  other, and in two items only if both are pinned; whoever gets the
  focus heads the switcher's list, is marked in the items that hold it and no others, and
  is known to the desktop; the switcher's selection exists and every item stands for a live
  window. Two windows are what a change of focus and a shared item take; the
  proofs are for any number, and for any relation between pins and app_ids.

`window_matches_app` compares an app_id with an application's id, with and without its
ending, its StartupWMClass and its executable. `Matched[pin]` is the set of app_ids
for which one of these is so (`Matches`); two pins may share one, and the loop over the pins does
not ask whether a window was matched before. `IdOf` is the desktop file found for an
app_id of a window that no pin has. `TaskbarItem.cfg`: see section 4.

Abstractions: the stack is left out, so that any window that is not minimized, or
none, may get a lost focus (more than the code does: what holds here holds there).
The dock's items and the switcher's are sets: the order of the first is layout; that of
the second is the order of their primary windows (`Before`), and the selection i is the
item with i others before it (`Place`). Clients name windows and parents at any time,
before and after their first commit, but a parent is always the older window (section 5).
Nothing in the program as shipped opens the switcher; it is driven through its public
interface.

### Overlays

`ui` holds the states of launcher, switcher, system panel, notification center
and Settings window, whether popups are shown, whether the overlay surface is
mapped, and where each component remembers a finger. States that occur inside
a handler only (Opening, Closing, Selecting, Activating) are passed within an
action. `FingerDown`, `FingerMoves`, `FingerUp` and `TouchCancel` follow
`Application`'s routing, in its order; the other actions are the calls of the
public interfaces.

* `Overlays` (2 fingers): the center is open alone, and switcher and panel
  never are open together; the overlay surface is up exactly when something is
  drawn on it. A launcher that opens closes the center only, so that it may be open
  with the switcher or the panel: `OverlayPair.cfg`, see section 4. The handlers do not
  tell fingers apart; two are enough for one to hold what the other closes.

### NotificationService, MCNotificationService

| Variable | Code |
|---|---|
| `store` | `NotificationStore::notifications_`: ids held, and state and kind of each |
| `shown` | `NotificationPresenter::visible_popups_` and the keys of `active_timers_` |
| `told` | history: reasons of the NotificationClosed signals of each id |
| `evicted` | history: ids that the limit per application has ended |
| `next`, `posts` | `next_id_`, and the number of posts |
| `touch`, `center` | the touch controller's target, the center's state |

Ids grow and entries never move, so a set of ids stands for the store's list.
The bounds are `MaxIds` and `MaxPosts`; the other constants are the service's
own limits. `Intact` guards the handlers that look at the popups: once one of
the raw pointers dangles, what follows is undefined behaviour and not modelled.

* `NotificationQueue` (3 ids, 4 posts, 2 popups, history of 1, at most 2 live
  notifications of the one application, kinds that are ordinary, transient, or critical and
  resident): popups are live entries, no more than the slots; timers are exactly
  those of popups that expire; no slot is idle while an entry waits; every end is
  told to the client; what waits is shown or ends, or the screen is full of popups
  that never expire. What the limit ends (`evicted`) is the one exception: it stays on the
  screen, though it is no live entry, and nobody is told. A third notification goes beyond
  the limit and beyond the screen, makes one wait or overflows the history; the
  fourth post replaces what any of these has left. Fairness: each armed timer fires;
  the event loop waits on every timer's descriptor.

`NotificationQuota.cfg` shows what the exception costs (section 4).

### Session

The main thread is a program counter over the stages of `initialize`, `run` and
`perform_shutdown`; compositor, applications, the session manager and the worker
thread step in between. `conn` is the connection, `life` the lifecycle,
`attached` the epoll set, `code` the exit status.

* `SessionLife` (D-Bus backend, 2 waiting events): readiness is reported only
  over a connection that never failed, with the shutdown signals handled; 0 is the exit
  status only after a signal or a failed `epoll_wait`, 1 only after a failure, a loss or an
  exception; every ending is STOPPED without a worker; a stop request reaches the join.

`broke` records which of the two other endings there was: `PollFails`, which leaves the
loop as a stop does, and `Throw`, an exception that nothing catches before `main`. The
window tracker may be initialized without its socket for applications (`InitializeShell`):
readiness does not promise it.

Fairness: both threads run when they can. That includes that a roundtrip
returns: a compositor answers `wl_display.sync` or is gone. Two waiting events
are enough: the code empties the queue, it never counts.

### EventLoop

One step of the loop's thread is one event of the batch, one task or one call
made by a running callback; other threads push tasks and write the eventfd in
two steps. Descriptors are numbers that the kernel reuses, the lowest first.

* `EventLoop` (2 timers, 1 watch, 2 tasks, 1 other thread): tables and live
  sources agree, no wakeup is lost, tasks run once and in order, every ready
  source is served, every task runs. Two timers are what the reuse of a
  descriptor takes; two tasks are what an order takes. Fairness is that of the
  loop's thread (the main loop calls `dispatch` again and again and callbacks
  return) and of a poster between its two steps.

### SettingsSchema, SettingsStore, DurableSettings, MCSettingsStore

`SettingsSchema` is the table of settings with typed values and their text in the
file: what `validate` accepts, what printing loses (a number has two decimals),
what reading makes of a text. `SettingsStore` is the store in memory and the save, one
call of the system at a time.

| Variable | Code |
|---|---|
| `values` | `Config::values_`, as texts |
| `open`, `staged` | `in_transaction_`, `staging_values_` |
| `told` | history: what observers were last told of each key |
| `saving`, `temp`, `status` | where `Config::save_to_file` is, its temporary file, how the last save ended |
| `disk`, `medium` | the file a process would read, and the one a power cut leaves |
| `up`, `faults` | the process runs; bound on failures, kills, power cuts and edits |
| `run` | how it was started: with `--config`, with a home to save to |

`Mkstemp`, `Write`, `Fsync`, `Rename` follow each other; each may fail, the process
may be killed and the machine may lose power between any two. `Start` reads what
`load_with_precedence` does (`Source`): the user's file, the one that `--config` names
(`Customs`), or none; saves go to the user's file, and nowhere without a home, which the
caller is told is ok (`Persist`). Users edit the file while no process runs.

* `SettingsStore` (a number and a switch, 2 faults, three files for `--config`: a good one,
  one with a malformed line, one that is refused): what a process with a home reported saved
  is in the user's file; observers were told what a read returns; the program loads
  every file it wrote; and **the store implements `DurableSettings`**
  (`ImplementsDurable`), the abstract promise that the file always holds one complete
  earlier state: whether the process is up is `running`, whether it reads and whether it
  saves this file are `own` and `keeps`, memory is `live`, the file is
  `saved`, the medium `durable`. A rename maps to Persist, every other call of a save
  to a stutter, a kill to Die, a start to Start, and so with Sync, PowerCut and Edit; in
  the abstract system too the power is only cut and the file only edited while no process
  runs, and after a rename the medium has the new file, or the one before, or an older one.
  Two faults are a failure and a crash on top of it. `SettingsElsewhere.cfg`: see section 4.

`StoreAssumption` says what callers pass: a key of the schema, and a value of the kind
of its type (`Fits`: a switch may get an integer 0 or 1, which prints like it).

### SettingsWindow, MCSettingsWindow

`mode` is `SettingsManager::mode_`, `nav` is `SettingsNavigation`, `view` what the last
drawn layout offers to a finger, `touch` the controller's drag, `current` what the store
returns. A frame may be skipped when no buffer can be had, so that `view` may lag
behind (`Rendered`).

* `SettingsWindow` (three settings in three categories, a query of up to two characters
  that finds two settings and then none, slider positions 0, 47 and 100 %): the
  selected row exists; no control leaves a number out of its bounds, a finger puts it on
  a whole number of steps and a key takes none off them (`NumbersKeepSteps`). The numbers
  a window begins with are the defaults or what a file edited by hand says, checked by
  nobody: the constant `FromFile` has one between two steps and one beyond the bound. Hit tests use
  the geometry of the mode. The constant `Lifts` says where a finger's end is reported; the run uses the place where it is, see section 4.

### DesktopEntry, Catalog, Launcher, MCLauncher

`DesktopEntry` goes from the lines of a desktop file to metadata, visibility,
categories and rank in a search. `Catalog` is the disk, the inotify watches and the
scan, one file at a time:

| Variable | Code |
|---|---|
| `disk`, `exists`, `subs` | the files at each place; the search directories, and the subdirectories, that exist |
| `watched`, `events` | watches of `ApplicationChangeMonitor`, and whether its descriptor is readable |
| `phase`, `todo`, `listed`, `found` | the scan of `ApplicationDiscovery`, its remaining places, those whose subdirectory it has seen the name of, what it found |
| `catalog` | `ApplicationCatalog::applications_` |
| `unseen`, `changes` | history: ids changed without an event or with a directory that the scan could not open; bound on both |

`Launcher` adds `l` (state, filter, selection, press), `pipe` (the launch the main
thread is in: who may still write, what was written) and `child`.

* `Launcher` (three places for two ids, one of them in a subdirectory; 2 changes on
  disk; a query of one letter): once every event is handled the catalog has, for
  every id whose changes raised an event, the application that a scan of the disk
  would give, unless one of its directories could not be opened; the selection exists
  in the list however the catalog changes; a failed launch leaves no child process; and the
  main thread comes back from every launch. Two changes are one during a scan and one after it, or a file that
  shadows another and goes. A subdirectory that is gone when the iterator comes to open it
  makes it throw (`Throw`), and the process ends: deadlock is not checked for that
  reason, and `LauncherScan.cfg` shows it (section 4). Fairness: the system runs the main thread and the
  child; that a child runs `exec` or fails is what the kernel does.

Abstractions: scrolling and icons are left out; which area of the launcher has the
keyboard focus is not kept (an arrow may go to any); one word is typed; how a text
matches what was typed is a constant.

## 3. What is proved

TLAPS checks the following for every value of the constants.

* `WindowSystemProofs`: `Invariance` is an inductive invariant: types, the
  registered windows are exactly those of `order`, without repetition, the stack
  only shows registered windows, and focus, registry and flags agree. The
  agreement alone is not inductive: the successor chosen when a window is erased
  is the last of `order`, so `order` must be known to hold registered windows.
  From it follow `FocusAgreement`, `OneFlag`, `FocusHeld` and
  `NoStaleReference` (neither the registry's active window nor a drag refers to a
  window that is gone). The second half is the z-order. `StackInvariance` says that
  the stack repeats nothing, holds registered windows and all those that were not
  asked to close, knows only parents that the windows still have, and that no window
  is its own descendant; the last is needed for `lower`, which would lose a window that
  is its own child, and for `raise`. `StackShape`, `TypeCorrect`, `FocusLifts` and
  `FocusFallsBack` follow. `raise` is proved as the loop it is: of the windows raised
  so far, every other stacked window is below them, each but the first is the
  child of one of them, and those whose parents are among them and that are not raised
  are still to do (`Lifting`); since no call raises a window twice, the loop ends
  within as many calls as there are windows (`RaiseLifts`). Induction over the naturals is
  `NatSetInduction`, for sets of numbers, from the well-foundedness of `<`;
  the filters of sequences are recursive functions (`Kept`), whose equations
  `NatRecursion` gives.
* `NotificationServiceProofs`: `Invariance` joins types, disjointness of what
  waits and what is shown, the bound, the timers and the fill of the slots; from it
  `TypeCorrect`, `ScreenBounded`, `TimersExact` and `NoStarvation`. Its part `ToldInv`, which
  gives `NoDanglingPopup` and `NoSilentEnd`, is inductive for any limit per application
  because it counts what that has ended, until a call closes or a post replaces it. The
  difficulty is `Refresh`, whose result is picked from `Fills`; lemmas say what
  any such pick contains.
* `SessionProofs`: `Invariance` ties each stage to the lifecycle states, the
  connection and the descriptors that are possible there; from it
  `TypeCorrect`, `ExitStatusHonest`, `AlwaysStopped`, `ReadsArePaired` and
  the action property `ReadinessHonest`.
* `EventLoopProofs`: `Invariance` joins types, `TablesAgree`, the order of the
  tasks and `WakeInv`: a task waits only while the eventfd is readable, a poster is
  about to write it, or the loop is between the read of the eventfd and the swap.
  The last case is what makes the invariant inductive: without it the read would
  lose the wakeup. From it `TypeCorrect`, `TablesExact`, `NoLostWakeup` and
  `TasksOnceInOrder`. The order is a fact about concatenations of queues, proved
  with lemmas on append, head and tail.
* `TouchWindowsProofs`, in three layers, for every number of outputs, windows and
  fingers where the runs have two, one and one.
  The arithmetic: `AreaRoomy` and `NoOutputRoomy`: the usable area has room for a title
  bar and two controls, however small the screen is, because `recalculate` never
  lets it be smaller than the least window. `ConstrainReaches`, `InitialReaches` and
  `RestoredReaches`: in an area with that room, every rectangle that is
  constrained, placed anew or restored leaves its title bar in reach; without the room
  the two bounds of the clamp would contradict each other, and the upper one wins.
  `UsableReaches`: so does a maximized window.
  The parts: whatever an output announces, its handle stays one whose area has room;
  a window that is put, toggled or adapted is where it was or in reach; a move
  keeps what is moved in reach of the area it began in.
  The steps: `Invariance` joins types with `Sound` (an interaction has room to
  move in, and what is being moved is in reach), `Contact` and `Holds` (while a finger
  is down, it is on a registered window) and `Drives` (an interaction is on the
  window and of the kind of the contact that began it). `NoOrphanDrag` is not inductive
  without the last three: that a destroyed window takes its contact with it matters
  because that contact could otherwise begin an interaction later. One lemma for each
  handler shows that it keeps the invariant and makes a step as the two action
  properties want it; `TypeCorrect`, `NoOrphans`, `StaysInReach` and `FollowsScreen`
  follow. `TouchReach` shows what the exceptions of `StaysInReach` cost.
* `SettingsProofs`, the store: `Invariance` joins types with five parts.
  `HomeToSave`: only a process with a home is in a save. `MemorySound`: memory holds texts that read back, and what is told or staged is validated. `DownIsSilent`: a
  process that is not up has no transaction and no save. `TempFollows`: at each
  call of a save the temporary file is what that call needs. `OkIsSaved` alone is not
  inductive, since that a rename puts memory into the file is a fact about the
  temporary file, which the lock of the store keeps as it was written. From it
  `TypeCorrect`, `SavedIsThere`, `ToldHonestly`, `RestartsFromOwnFile`, and
  `Refinement`: the store with its calls of the system implements `DurableSettings`, one
  step of the proof for each call, each fault and each operation, for every number of
  keys and faults. The lemma behind the second and the third is that what validation
  lets through is read back from its text (`FitsReadsBack`).
* `SettingsProofs`, the window: `WindowInvariance` joins `SelectionInRange`,
  `LayoutFollowsMode` and types with `ValuesInv`: numbers keep their types, but nothing more,
  since a file may have given any. So `NumbersStayOnSteps` is about steps: what is stored
  was validated, so that it is within its bounds (`ValidInBounds`); a finger's
  position and a clamped key give a multiple of the setting's step because the bounds are
  such multiples, and a key that is not clamped adds one step.
  That the bounds and defaults of the schema are such multiples is `NumbersAreSound`,
  and that no number has the widget of a switch is a part of it: a tap on that would
  store a truth value. One lemma for each handler of fingers and keys; `SelectionStays`,
  `NumbersStayOnSteps`, `LayoutStays` and `WindowTypeCorrect` follow, for every set of
  settings, whatever searches find and wherever on a slider a finger is.
* `ShellProofs`, the overlays: an operation of a component calls back, and the callbacks
  close others, whose callbacks run inside; between two of them two modals may be
  open. So lemmas say what closing does to any state of the interface, and others
  that each whole operation leads from a good state to a good one, for any number of
  fingers. `Invariance` is the exclusion, the overlay and the types, and the types are
  what makes it inductive: a launcher that could be left in Opening would open
  without its callback. From it `OneModal` and `OverlayExact`.
* `ShellProofs`, the dock, the switcher and the desktop: `TaskbarInvariance`, for any number
  of windows, applications and pinned items, says that the state is `Settled`: types;
  `Saw`, dock and switcher have seen the windows that are open and those that live;
  `InList`, the selection is in the list; `Heads`, the focus is on the registry's active
  window and that one heads the list; `Marked`, dock and desktop saw this focus. Inside a
  handler none of the last two need hold: a focus moves in several nested events, and
  a window that is hidden or destroyed has the focus until the manager hears of it, which
  it may do first or last. So there are lemmas of three sorts. `ObservedIs` and `LoudIs` say
  what one event leaves behind in any state (`Heard`, `UpToDate`); `ActivatedIs` and
  `HiddenIs`, that whoever gets the focus settles all, or nothing happens;
  `HidingSettles`, that an event by which a focus goes away settles a state in which only
  that focus is wrong, in both orders of the listeners. One lemma for each request
  and operation follows. `Heads` is why the destruction of a window comes out right: its
  last event of focus puts it back on the list (section 4), but a successor that is
  activated is put before it. From the invariant `DockHolds`, `FocusIsKnown` and
  `SwitcherOffers`; the first two rest on `DockPartition`, which says of any state the
  dock may have seen that its items hold each open window, and that only pinned ones have
  one in common. That a set of numbers has
  a least one (`HasLeast`) is proved from the well-foundedness of the order, for the
  `CHOOSE` of a first window and for `RemoveFirst`.
* `LauncherProofs`: `Invariance` joins that of the catalog and that of the launcher.
  `CatalogFresh` becomes inductive with `ScanFresh`: the places read come before
  those to be read, and what was found for an id is the best of what was read,
  unless a change was noticed or the id is among the `unseen`, as one is whose directory
  could not be opened. A scan that throws ends the process, and with it what
  there is to show. The proof says why the events are read before the scan and not after: a change of a place already read leaves the
  descriptor readable. `SelectionListed` needs that a search lists ids of
  applications only, which rests on a lemma about lists sorted by any strict total
  order on a finite set (`SortedIs`); every handler of keys and fingers is then shown to
  keep the selection in the list. `FailureLeavesNothing` needs who can still write to
  the pipe: a child that has yet to answer holds it, so that the parent does not
  take a closed pipe for an answer. From it `FreshCatalog`,
  `SelectedIsListed` and `FailureClean`.

The assumptions on constants are those of the modules, which TLC evaluates on every run.
Five of them matter to the proofs above: `StoreAssumption` (section 2); in
`WindowAssumption`, that a number that a file gives has the type of its setting, as all
that parses has; `NumbersAreSound`, a fact about the table of the schema; that `Rank`
tells any two ids apart, because the comparator of a search ends with the id; and, in
`TouchAssumption`, that clients declare window geometries without negative lengths, as
xdg-shell asks them to. The server takes any, and a drag of a window with a negative
width would end out of reach.

Only model-checked: liveness, which is out of this prover's reach: `QueueDrains`,
`StopIsHeeded`, `SourcesServed`, `TasksRun` and `LaunchReturns`. Every other property that
holds in a run is stated by a theorem. What the folds of DesktopEntry compute from the
lines of a file, and which dialogs the switcher's fold adds to a group (`WithDialogs`, on
which no property depends), would take an induction over data; nothing is proved of them.

## 4. Where code and documents part

One disagreement is kept as a run that TLC refutes:

* `TouchReach` (`TitleBarReachable`): when an output changes while a window is
  dragged, `Application` lets the windows adapt first and cancels the drag second;
  `cancel_move` then puts back the rectangle the window had when the drag began,
  without constraining it to the new screen. TLC's trace: a window of 563 x 731
  stands at (550, 980) on the upright screen, a second drag of it begins, the
  rotation completes, and the window stands at (550, 980) again on a screen that
  is 720 high. `docs/window_management_architecture.md:73` promises that the title
  bar remains reachable whatever is resized, rotated or dragged.

Others were met while modelling. The modules contain the behaviour; the
properties above are stated so that they do not depend on it:

| Code | Document |
|---|---|
| `window_stacking.cpp:8`: a dialog is left behind when its parent was given a parent in the meantime | `docs/window_management_architecture.md:95` |
| `notification_store.cpp:265`: what the quota per application evicts stays on the screen, and its client is not told; `NotificationQuota.cfg` shows it (`EvictedGo`) | `docs/notification_architecture.md:79` |
| `application.cpp:809-816`: when `epoll_wait` fails, the loop ends with the exit status it has, 0, which is documented for a shutdown that was asked for | `docs/lddm_integration.md:67-78` |
| `settings_store.cpp:73`: without a home a change is reported ok and saved nowhere, where `save` itself is an error (`:122-126`); with `--config` it is saved to a file that the same command does not read. `SettingsElsewhere.cfg` shows it (`OkSurvives`) | none |
| `config.cpp:188-194`: `--config` replaces the system's and the user's file instead of overriding them | `docs/architecture.md:98-102` |
| `application.cpp:579-583`: a launcher that opens closes the center only, so that it is open together with the switcher or the panel; `OverlayPair.cfg` shows it (`OneAtATime`) | `docs/system_ui_architecture.md:130`, `docs/notification_architecture.md:189` |
| `dock_model.cpp:168-181`: the loop over the pins takes windows that another pin has taken; and `:206` compares a window's app_id with an item's id, so that windows of an unpinned program with a desktop file are one item each (`Host`). `TaskbarItem.cfg` shows the first (`SingleItem`) | `docs/dock_architecture.md:10` |
| `application_discovery.cpp:50`, `main.cpp:17-19`: a subdirectory that disappears during a scan makes the iterator throw, and the process exits with 1; `LauncherScan.cfg` shows it (`SurvivesScan`) | `docs/application-discovery.md:60` |
| a close by the application is reported as a dismissal | `docs/notification_architecture.md:85` |
| `dbus_notification_backend.cpp:77`: `stop` may quit a loop that is not running yet and then join the worker for ever; `SessionHang.cfg` shows it (`ShutdownCompletes`) | `docs/lddm_integration.md:72,78` |
| the compositor's descriptor is not yet known when the event loop is set up, and is never polled | `docs/window_tracking_architecture.md:184` |
| `event_loop.cpp:305`: a new timer gets the pending event of a cancelled one whose descriptor it inherits | none |
| `settings_manager.cpp:95`: the registration of Settings replaces the whole catalog after the first scan; `LauncherStart.cfg` shows it (`StartsComplete`) | `docs/application-discovery.md:122` |
| `application.cpp:321`: the end of a touch is reported at (0, 0), so that a tap in Settings is one only near the origin | `docs/settings_architecture.md:73` |
| `application.cpp:332-357`: a cancelled touch is not passed to every component that remembers it | `docs/touch-interaction.md:160` |
| `switcher_controller.cpp:134`: a window is restored only if its whole group is minimized; a minimized one that heads a group with a visible window is refused the focus, and the switcher closes all the same | `docs/switcher_architecture.md:97` |
| `window_registry.cpp:163-172`: a destroyed window's last focus event puts it back on the most-recently-used list | `docs/switcher_architecture.md:75` |
| `settings_schema.cpp:45`: validation lets any integer through for a switch, whose text does not read back if it is not 0 or 1; no caller passes one | none |
| the window that loses the focus is announced while it is still the active one, so that the dock may mark a window without focus when nothing has it | `docs/dock_architecture.md:77` |

Configurations reproduce some of them; TLC reports a violation with each: `SessionHang.cfg`
(module `Session`), `LauncherStart.cfg` and `LauncherScan.cfg` (`MCLauncher`),
`NotificationQuota.cfg` (`MCNotificationService`), `SettingsElsewhere.cfg`
(`MCSettingsStore`), `OverlayPair.cfg` (`Overlays`) and `TaskbarItem.cfg` (`MCTaskbar`).

## 5. Not modelled

* Drawing, themes, the layout of the shell's components, logging, the status
  providers that read `/sys` and `/proc`: no state that decides what the rest
  of the program does. Hit tests are abstracted to their result, except those of
  windows, which TouchWindows computes.
* Shell surfaces and the pool of shared-memory buffers.
* The data race of the D-Bus worker with the main thread in the notification
  manager: unlocked access to standard containers has no outcomes one could
  enumerate. The handlers of NotificationService are atomic, as they are with the
  internal backend.
* Cycles of parents, which xdg-shell forbids clients to ask for; the server does
  not check and would not return from a raise.
* A descriptor callback that removes its own watch: undefined behaviour that no
  caller reaches.
* Key handling of the notification center: the application routes no keys there.
* The client-side windows that `WindowTracker::create_window` makes; popups,
  subsurfaces, titles and configure serials of applications.
* The escapes inside a line of a desktop file or configuration file.
* The system-wide `/etc/linuxdroid/desktop.conf`, taken as absent; `set` with `auto_persist`
  off, which nothing outside of the store calls.
* A number that a file gives beyond its bounds stays there when an arrow key points away from
  the bounds: the result is refused. SettingsWindow has it, and no property is about it.
* Two desktop files in one subdirectory: each nested place has a subdirectory of its own.
* `--help` and `--version`; packaging, scripts, generated protocol headers.

## 6. Plan

1. An abstract focus policy that WindowSystem and Taskbar implement: who may get the
   focus, and who is told.
2. `ShmPool`: buffers busy until the compositor releases them, and what is drawn
   into at the pool's cap; the configure and acknowledge protocol of surfaces.
3. The rest of WindowTracker: popups, subsurfaces, serials.
