# A TLA+ model of AfterStep

This directory models `aswlcomp`, the Wayland compositor of the AfterStep
desktop (`wayland/aswlcomp_*.c`), and the pipes between the X11 window manager
and its modules (`src/afterstep/module.c`), checks the models with TLC and
proves the central results with TLAPS. File and line references are to the
repository; "module `X`" is `X.tla` here.

The repository holds two systems. The older one is the X11 window manager
(`src/afterstep`) with its modules and the libraries `libAfterBase`,
`libAfterImage`, `libAfterConf` and `libAfterStep`. The newer one, `wayland/`,
is a wlroots compositor with its own panel, menu, background and lock clients.
The compositor is where the logic is that is hard to test: it is one process
that clients, users, input devices, outputs and lock clients all talk to at
times of their own choosing, and it keeps the same facts (who has the focus,
what is drawn, whether the session is locked) in several places at once. In the
older half the window manager and its modules are concurrent programs of this
repository on both sides of a pipe, and that dialogue is modelled too.

## How the compositor works

`aswlcomp` is single threaded. wlroots and libwayland call its listeners and
request handlers from one event loop; each runs to its end before the next
starts. One action of a model is therefore one handler, together with every
helper it calls. What is concurrent is the order of the handlers, and that is
entirely up to the environment.

| component | state | operations | modelled by |
|---|---|---|---|
| Session lock (`aswlcomp_control_lock.c`) | `session_locked`, `session_lock`, `session_lock_sent_locked`, lock tree and rectangles | new lock, unlock, lock client death, lock surfaces | `SessionLock`, `Desktop` |
| Outputs (`aswlcomp_output.c`) | `outputs`, `enabled`, `lock_frame_presented`, the layout | frame, hotplug, output management | `SessionLock`, `StateFile` |
| State file (`aswlcomp_state.c`) | `outputs_persist`, `state_path`, the temporary file | load, save by write, fsync and rename | `StateFile` |
| Idle lock (`aswlcomp_input_config.c`) | `idle_lock_timer`, `idle_inhibitors`, `idle_inhibited` | timer, activity, inhibitors, their surfaces | `IdleLock` |
| Views (`aswlcomp_view.c`, `_toplevel.c`) | `views` list, `mapped`, `minimized`, `is_dock`, `workspace`, scene nodes | create, map, unmap, destroy, iconify, Xwayland associate and dissociate | `Desktop` |
| Focus (`aswlcomp_view.c`, `_ime.c`) | `focused_view`, the seat's keyboard focus, `ime_focused_surface` | `focus_view`, `focus_topmost_view`, next and previous | `Desktop` |
| Workspaces (`_view.c`, `_control_lock.c`) | `current_workspace`, `view->workspace` | set, next, previous, move a window | `Desktop` |
| Interactive grabs (`_input.c`, `_decor.c`) | `grabbed_view`, `grab_*`, `cursor_mode`, button serials | press, release, motion, move and resize requests | `Desktop` (who holds the grab), `Geometry` (where it takes the window) |
| Window geometry (`_view.c`, `_toplevel.c`) | `x`, `y`, `placed`, `saved`, `fullscreen`, `maximized`, sizes asked and committed | placement, fullscreen, maximize, configure requests | `Geometry` |
| Activation, foreign-toplevel, control protocol (`_server.c`, `_toplevel_protocols.c`, `_control_lock.c`) | none of their own | activate, minimize, focus a window by id | `Desktop` |
| Window list (`_control_lock.c`; `aswlpanel_wl.c`, `aswlpanel_model.c`) | bound clients; the panel's `windows` and workspace | window and workspace events, binding | `WindowList` |
| IME relay (`aswlcomp_ime.c`) | `text_inputs`, `input_methods`, `ime_active_text_input`, `ime_input_method`, `ime_cursor_rect`, popups | text input and input method requests, focus, lock | `ImeRelay` |
| Module pipes (`src/afterstep/module.c`, `module_control.c`, `event_loop.c`; `libAfterStep/module.c`) | `Modules`, each `module_t` with its queue, the message buffer | connect, `SendPacket`, flush, commands, `UNLOCK`, death | `ModulePipes` |
| Layer shell, dock layout, decorations, input configuration | see PROJECT.json | | not modelled |

Components meet in shared fields of `struct aswl_server` and by calling each
other: an unmap clears the keyboard focus and refocuses the topmost view, a
focus may restore an iconified view and so change what is drawn, a lock ends a
grab and takes the keyboard, an unlock refocuses and restarts the idle timer.

What makes it hard, by component:

- **Session lock and outputs.** The lock client may only be told "locked" when
  no output shows the desktop any more. Frames arrive one output at a time,
  outputs are plugged and unplugged in between, and the lock client may die at
  any point, after which the session must stay locked and be adoptable.
- **Views and focus.** `focused_view`, the tail of `views`, the seat's keyboard
  focus and `ime_focused_surface` record one fact four times. About fifteen
  handlers change them, and menus, modules, WinTabs and docks are exceptions
  to the rule in different ways.
- **What is drawn.** A node's enabled flag is a function of `mapped`,
  `minimized`, `is_dock`, `workspace` and `current_workspace`; every handler
  that changes one of these recomputes it by hand.
- **Everything behind the lock.** Windows go on mapping, closing and asking for
  focus while the session is locked, through the same code.
- **IME relay.** Which text input is active is a cached search result over a
  list, flags and the keyboard focus; clients on both sides of the relay come
  and go at any time, and each must be told what the other has become.
- **Idle lock.** A one-shot timer whose callback may find the session inhibited
  or already locked; whoever ends that condition has to set it again.
- **Window list.** Nothing compares the panel's copy with the views: each of
  some twenty handlers sends the views it believes to have changed, at the
  moment it has changed the last thing about them.
- **Geometry.** A Wayland client answers a size when it likes; meanwhile the
  user drags on, a taskbar maximizes, the client asks for fullscreen. Two states
  share one saved rectangle.
- **State file.** Rewritten at every change; the compositor, or the machine, may
  stop between any two steps; outputs that are not there must not be forgotten.
- **Module pipes.** A broadcast may stop in the middle to wait for one module,
  run that module's commands meanwhile, and so start another broadcast from
  inside itself, with one static buffer for both.

## The modules

### `SessionLock`, `LockPromise`

`LockPromise` is the abstract specification: a session is unlocked, being
locked, locked or orphaned, and a set of outputs is *exposed* (the last picture
they were given is one of the desktop). Behind a lock that set never grows;
"locked" is said only when it is empty; only a confirmed lock client's unlock
leads back.

`SessionLock` is the code: `session_lock_enter`, `_exit`, `_apply_scene`, the
lock object's unlock and destroy handlers, `handle_output_frame`,
`handle_new_output`, `handle_output_destroy` and the applying half of
`output_manager_apply_or_test`. Its variables have the names of the C fields.
`shows[o]` is the last picture committed to output `o`; `needs_frame` is
wlroots' knowledge that an output has damage or a scheduled frame; `client` is
what each lock object has been told. `Promise` instantiates `LockPromise` with
the mapping from the three flags and `shows`.

Environment: lock clients request, unlock, die and retry as they like, within
what wlroots enforces (only an object that was sent "locked" may ask for
`unlock_and_destroy`; a second `locked` would be a protocol error). A saved
output configuration may bring an output up disabled. Changes of the layout may
or may not damage the other outputs.

Left out: lock surfaces (they are in `Desktop`; the rectangle and the disabled
desktop trees, which are here, cover an output without them), commits that the
backend rejects, failure of an output's initialisation.

### `Desktop`

One variable, `server`, a record with the fields of `struct aswl_server` and,
as sets, the flags of its views. The code's helpers call each other several
deep, so each is an operator from one record to the next and each action is a
guard and a composition of those: `Unmap(s, v)`, for instance, reads as
`handle_view_unmap` does.

`views` is the `wl_list` with its tail last (the tail is the topmost view);
`shown` is the set of enabled scene nodes; `kbd` is the seat's keyboard-focused
surface and `ime` is `ime_focused_surface`; `pressed` is the view that a valid
button serial names. The kinds of view that the code treats differently are
the constants `Xwayland`, `Popups` (the suite's menus), `Modules`, `WinTabs`
and `Dockapps`.

Assumptions and abstractions:

- a view's kind is fixed when it is created (the code reads app ids and window
  properties, which clients do not change after mapping in practice);
- no xdg_popup grab is active: wlroots then routes keyboard focus itself;
- two buttons held at once are one press whose serials are no longer valid;
- geometry, fullscreen and maximize state, decorations, configure events and
  everything sent to clients are left out; `ToggleFullscreen` is there because
  it ends a grab;
- a lock surface is a model value; a lock client's death destroys its surfaces
  after the lock object (`LockClientGone`).

`Disturbances` switches on three things that the code does not guard against,
so that the runs can say which results depend on them: `"unmapped"` (a request
for focus, a move or a resize names a window that is not mapped;
`aswl_control_focus_window` and `handle_xwayland_request_move` do not look),
`"elsewhere"` (one names a window that is not on the screen, without entering
its workspace), `"unplug"` (the seat has no keyboard for a while). Some
properties hold with all three, others only without; each says which.
`NothingDangles`, that `focused_view` and `grabbed_view` are views that exist,
holds with all of them. For the third pointer, `ime_focused_surface`, it is part
of `KeyboardFollowsFocus` and so claimed without disturbances only: with
`"unmapped"` the code leaves it dangling (see below).

`Consistent`, here as in the other modules, is the type invariant together with
the agreement of the records that the component keeps of one fact; its parts are
named, stated and commented one by one.

### `WindowList`

Extends `Desktop`: every handler again, with the events it broadcasts and what
the panel does with them. Events travel in order on one connection, so the
panel's state after it has read them is what was last sent: `list` maps each
view to its last event. `WindowList` has a record for each handler of which
views it sends (`Maps`, `Leaves`, `MovesFocus`, `Switches`), and `Bind` is the
replay that a client gets that comes late. `PanelShows` is the panel's own
filter.

The suite's menus are broadcast but filtered by the panel; views that become
docks leave an unmapped entry behind; X11 views without a name are skipped until
they have one (`Retitle`), and never lose it again here. Geometry and output
events are left out. Presses, lock surfaces and keyboards are left out as their
handlers broadcast nothing that a focus request would not.

`missed` names the views that were mapped while the session was locked with
`ASWLCOMP_FOCUS_ON_MAP` (or are menus): `handle_view_map` leaves their event to
`focus_view`, which returns at once behind the lock. A panel learns of them with
their next event.

### `Geometry`

One axis, the vertical one, on which the title bar and the reserved space are;
the code treats the horizontal one by the same statements. A window is a record
of the fields of `struct aswl_view` with, for a Wayland client, the size it was
last asked for (`asked`) and whether it has answered, for an X11 client the
position it was last told (`xy`) and whether it has a scene tree (`scened`):
X11 windows ask to be mapped (`MapRequest`), associate, map, unmap and dissociate,
and may ask for a move or a resize from associate on, mapped or not. A client's answer commits the size
asked or, where the code allows it, one of its own. `grab` is `cursor_mode`,
`grabbed_view` and the `grab_*` fields; `down` and `origin` are what the seat
knows of pressed buttons.

A Wayland window that resizes by its top edge moves with every motion and gets
its size only when its client answers, and a client may answer another size. So
`GrabHolds` says where the opposite edge is *for the size last asked*: an X11
window has that size, a Wayland window once it commits it.

The history variables name what the code leaves unguarded, so that the
properties can say exactly what it does guarantee:

- `overtaken`: requests for fullscreen or maximize from a client or a taskbar do
  not end a grab (the key bindings do), nor does a placement or a size that an
  X11 client sets itself, so a window may get a position or a size from others
  under it. The next motion takes both back, except that a resize by the bottom
  or right edge alone sets no position;
- `skewed`: a resize of such an X11 window by the bottom or right edge tells the
  client a position it is not at (`aswlcomp_decor.c:442-447`);
- `superseded`: `begin_interactive` over a resize leaves the first client with
  `resizing` set;
- `grab.x11`: an X11 client's move request names no button press, and may come
  when none is held;
- `steady`: the saved rectangle is that of before the first of the two states if
  the window was mapped and had answered. A window that asks for fullscreen
  before it maps saves a one-pixel content; one that leaves fullscreen and
  enters it again before the client has answered saves the full size.

Leaving one of the two states while in the other restores the saved rectangle
and leaves the other flag on; `RestoredHome` is about the window that has left
both. A window taller than the usable area is placed under the top bar, its
bottom aligned; `PlacedInView` is about windows that fit.

Left out: several outputs, docks and undecorated menus, sizes that clients
change unasked, answers to configures that have been overtaken (wlroots reports
the last), workspaces (windows map on the current one). A Wayland window that is
unmapped is destroyed.

### `StateFile`

A file is a record of the workspaces and, per output, of what a line says;
parsing and formatting are reduced to which keys a line has and what is written
for a missing one. A save is `Save`, with the handler that makes it, then
`SyncTmp` and `RenameTmp` or `SaveFails`; nothing else happens in between but
that the process dies (`Stop`) or the machine (`PowerCut`), after which the
name may lead to any file that it led to since the directory was last written.
`forced` is a start with `ASWLCOMP_OUTPUT_WIDTH` and `_HEIGHT`. The layout of
wlroots is external: outputs without a position follow to the right.

What the code does and the model keeps: an output whose first commit fails
stays in the list without a frame listener, is saved as off, and takes the
compositor with it when it is unplugged (`UnplugUnheard`,
`aswlcomp_output.c:187`); a mode that the output refuses is overwritten by the
one it fell back to, and so is one that a forced size replaced (`spoiled`); the
number of workspaces, once saved, is not changed by a later default; an entry
without a position is written at 0; failed saves are reported to nobody; the end
of the session does not save the outputs going away. An output that could not be
set up has no mode, and a save keeps the one its entry has.

Positions saved while other outputs were unplugged may overlap when all come
back, which is why `PlacedBack` asks of an output that has been somewhere only
that it returns there. The 0 made up for an entry without a position
(`aswlcomp_state.c:799`) is nowhere the output has been: entries remember, as
history (`was`), whether their position is one the output was at. An output with
a made-up position (`Invented`) is put at 0 in the next run, on top of whatever
is there, and `PlacedBack` says so; one that is unknown to the file, or known to
it without a position, lands on no other.

### `IdleLock`

The timer is the number of ticks left, or `Off`; ticks stand for
`idle_lock_seconds` in units of `Timeout`. The three outcomes of
`aswl_idle_lock_timer_cb` are three actions. `Refresh` is
`aswl_idle_inhibit_refresh`, run at the end of every inhibitor handler.
`idle_for` and `fired` are history variables: how long the session has been
unlocked, uninhibited and untouched, and whether the timer started a lock
client since it was last set. The lock is reduced to unlocked, locked or
orphaned; `SessionLock` has the rest. Timer expiry is exact, but its callback
may be late by any amount. A compositor started with no
`ASWLCOMP_IDLE_LOCK_SECONDS` has no timer and is not interesting.

### `ImeRelay`

Text inputs and input methods are sequences with the `wl_list` head first.
Nearly every handler ends in `aswl_ime_update`, so nearly every action ends in
`Update(old)`, with `old` the text input that was active before. `SetFocus` is
any call of `aswl_ime_set_focus`; which calls `Desktop`'s handlers make is not
repeated here, except that a lock leaves `focused_view` alone and that the
relay is given no surface while locked. `entered`, `activated`, `composing` and
`shown` are what the clients have been told and what is on the screen.
`ime_cursor_rect` is reduced to whose caret it is: text inputs in `Carets` send
a cursor rectangle, others make it invalid. `MCImeRelay` says which client
each surface and text input belongs to.

Assumptions: the seat has a keyboard, so `focused_view` and the relay's focus
change together; wlroots destroys the popups of an input method with it, and
before. Left out: the keyboard grab, where popups are placed, the text that is
passed on. Two things the model keeps as they are in the code: an input method
that is overtaken by a newer one is not told so, and what it commits is still
passed on (`handle_input_method_commit` does not ask whose it is).

### `ModulePipes`

`stack` is the C call stack as far as it matters: the `SendPacket` sequences in
progress, each with the module it is at, the rounds it has waited for `UNLOCK`
and the message it was composing. A command that sends from inside a wait
pushes another. `buffer` is `module_output_buffer`. A message is one or two
units, a pipe holds `Room` of them, and `module_t.queue` is the units not yet
written. `peer` is the module process: what it has still to say, what it has
read, and whether it lives; the module's half of the dialogue is
`libAfterStep/module.c`. All clients have one name, so that `SET_NAME` collides,
under each of the three policies.

History variables name what the code leaves open: `spoiled`, modules that may
have been sent the wrong message because a nested send overwrote the buffer, and
`astray`, modules that send an `UNLOCK` that no wait is for (after the limit of
2000 rounds, during a server grab, or before `SET_MASK`), which the next wait
takes for its own. A module is sent everything from the moment it connects,
and its queue is only flushed once its first command has been read
(`module_t.active`); `ConnectAfterStep` sends two at once.

What a module says of its own accord is a script, a finite sequence of any
commands, and commands that it repeats without end (`Chatter`), which are of the
kind that makes the window manager send nothing. The difference matters inside a
wait. A round of the wait is counted whatever was read in it, so chatter cannot
prolong it (`BroadcastEnds`); but a command that broadcasts
(`Send_WindowList`, which is not queued, `functions.c:271`, or `SET_FLAGS`) is run
from inside the round, and if the module locks what is then sent to it, another
`PositiveWrite` waits for it, counting from 0. A module that never stops sending
such commands nests waits without end. That is outside the model: scripts are
finite, and what `BroadcastEnds` shows of these commands is that each wait they
nest ends and the one around it goes on.

Left out: reading a command in pieces, starting module programs, the meaning of
messages and commands.

### Proof modules

`SessionLockProofs`, `IdleLockProofs`, `StateFileProofs`, `DesktopProofs`,
`WindowListProofs`, `ImeRelayProofs`, `GeometryProofs` and
`ModulePipesProofs`, described below.

### Faults

Operators commented "Fault:" stand before the definition they vary. Each is a
plausible mistake in that piece of code (a missing reset, a dropped guard, two
calls swapped) and is used nowhere in the specification: substituted for the
definition it varies, it makes the run named for it in PROJECT.json find a
violation of the property named there.

## What the runs check

| run | instance | shows |
|---|---|---|
| `session_lock` | 2 outputs, 2 lock objects, 5 output events, removal | "locked" covers every enabled output until the unlock; a dead lock client leaves it covered; flags, clients and scene agree; only the holder unlocks; implements `LockPromise`; every request is answered or the handshake is in the one `Stalled` state, which is only entered by losing an output |
| `desktop_windows` | xdg window, X11 window, menu, 2 workspaces, lock | the active view, the grab and the keyboard are on the screen and agree; a workspace change restores no iconified view |
| `desktop_docks` | window, WinTabs, dock, focus on map | the same with the views that are skipped by automatic refocusing; what is drawn |
| `desktop_lock` | window, menu, 2 lock surfaces, every disturbance | nothing behind the lock gets keyboard, input method or focus |
| `desktop_anything` | window, module, menu, requests naming any view | list, nodes, `focused_view`, `grabbed_view` and roles stay consistent |
| `window_list` | 2 windows, dock, X11 names, focus on map, a panel that binds at any time | the panel shows the windows of the workspace, with their flags, but for the one gap `missed`; one entry is the focused one |
| `geometry` | Wayland and X11 window, 2 buttons, output of 6 units | a drag keeps the point it holds or, for the size asked, the opposite edge; no grab without a button; clients know position and resizing state; a window comes home from fullscreen and maximized; placement in view |
| `state_file` | 2 outputs, crashes, power cuts, refused commits and failed saves | the file is always whole and current; no output is forgotten; wishes and known positions are restored, and what has no position lands on no other |
| `idle_lock` | 2 inhibitors, 2 surfaces, timeout 3, 8 events, failing lock clients | the cached flag is current; the timer equals the idle time left; it starts a client neither early nor never; an idle session is locked unless the last client it started has failed |
| `ime_relay` | 2 clients, 3 text inputs, 2 input methods, lock | the active text input is current; enter, activation, preedit strings and popups follow it |
| `module_pipes` | 2 modules of one name, one repeating `SET_MASK` without end, pipes of 3 units, waits of 2 rounds | the stream to a module is whole and in order; the window manager waits until a locked message is read, and no silence, death or chatter makes it wait for good; what is queued arrives; one live module of a name |
| `hidden_focus` | one window, two workspaces | the divergence described below |

### Bounds

- `SessionLock`: two outputs are the least with which one can have presented and
  the other not; the confirmation only asks whether every enabled output is in a
  set, so a third adds no case. Five output events let both outputs appear, one
  go and come back, and one be reconfigured during a handshake. Two lock objects
  are enough for a refused and an adopting client.
- `Desktop`: focus is a choice among visible views in list order; three views
  give a topmost, another candidate and one of the kind that is skipped. Two
  workspaces are here and elsewhere; wrap-around and normalisation are checked
  by `SetWorkspace(0)` and `SetWorkspace(NWorkspaces + 1)`. Each run has the
  kinds of view its properties tell apart, since all of them at once
  multiply the states without relating to each other. Nothing in `Desktop` is
  bounded but the constants; nor is anything in `WindowList`.
- `Geometry`: six units with one reserved hold a window of three and its title,
  at two cascade offsets, and one that is too tall. Two pointer positions make
  a drag go to either side, past the minimum size and above the output
  (`Margin`). Four events (`MaxEvents`) are a window that maps and three
  presses, requests or keys: a grab and two requests under it, fullscreen
  entered and left with a drag between, or fullscreen and maximized both entered
  and one of them left. Leaving both again takes a fifth event and is not
  explored here. Motion, releases, answers, map requests and
  associations are not counted.
- `StateFile`: two outputs, one to be away while the other is saved; both modes,
  one place next to the automatic one; five events (`MaxEvents`) are a start,
  both outputs, a change and an unplugging, or two starts around a crash in
  the middle of a save. The steps of a save, crashes in it and power cuts are
  not counted.
- `IdleLock`: two inhibitors on two surfaces let both share one surface and let
  each be the last in force. `Timeout = 3` separates "just set", "under way" and
  "due". Eight events let the session be inhibited, released, locked and
  unlocked in any order in one behaviour. `MaxLaunched = 2` is the Lock key
  and the timer at once.
- `ImeRelay`: two clients separate "other focus" from "no focus"; two text
  inputs in one client make the search choose, and only one of them has a
  caret, so that a caret can be left over. Two input methods let one overtake
  and survive the other.
- `ModulePipes`: messages of one and two units and pipes of three make every
  partial write happen; two modules are one that is waited for and one that
  comes before or after it in the list. One broadcast of the window manager's
  own (`MaxBroadcasts`) and those that commands cause nest two deep. The first
  module's script has a command that broadcasts twice, one that broadcasts once,
  and one that cannot be read (`Scripts`). It repeats `SET_MASK` as often as the
  one before was read (`Chat`), with no limit.

### Fairness

`SessionLock` assumes that an enabled output that has a frame scheduled gets
its frame event (`WF(Frame(o))`): the backend's obligation, and the only thing
the handshake waits for. Nothing is assumed about lock clients or hotplug.

`IdleLock` assumes that time passes, that the event loop dispatches a due
timer, and that a process that was started eventually asks for the lock or
fails. Its liveness properties speak of a session that is left alone; users
and clients do `MaxEvents` things at most, so every behaviour ends in such a
time. With unbounded activity the idle lock has no obligation.

`ModulePipes` assumes that the window manager goes on running: the step of a
send or of a wait that is possible is taken, and its event loop comes round to
pipes that have input and to those that have room (`select`); one pass handles
both of a pipe (`HandleModuleInOut`), so that endless input does not keep output
waiting. Nothing is assumed about the modules; `Delivered` speaks of one that
keeps emptying its pipe.

`Desktop`, `WindowList`, `Geometry`, `StateFile` and `ImeRelay` have no fairness
and no liveness: every handler completes, and nothing in them waits. (That a
save ends is not promised: it may fail, unreported.)

## What is proved

TLAPS checks all of it, with no bound on the number of outputs, lock objects,
views, workspaces, events, inhibitors, surfaces, text inputs or modules, on
positions and sizes, on the length of the timeout, on the pipes and on how deep
sends are nested. The assumptions are the named `ASSUME`s of the modules:
`NoLock` is not a lock object, `None` is no view, output, number or record, a torn
file is none that can be written, bounds are numbers, the timeout and the sizes of
windows are positive, no module sends `UNLOCK` unasked, and the commands it may
repeat without end are among those that send no messages.

| module | inductive invariant | theorems |
|---|---|---|
| `SessionLockProofs` | `IInv` | `TypeCorrect`, `RecordsAgree`, `LockHidesDesktop`, `OrphanedStaysCovered`, `OnlyHolderUnlocks`, `StallOnlyByRemoval`, `Refinement` |
| `IdleLockProofs` | `IInv` | `TypeCorrect`, `RecordsAgree`, `TimerIsIdleTime`, `NoEarlyLock`, `OnlyFailureAbandons` |
| `StateFileProofs` | `IInv`, `Kept`, `IInv /\ Whereabouts` | `WishesRestored`, `EntriesAlwaysKept`, `MemoryAndFileAgree`, `AlwaysPlacedBack` |
| `DesktopProofs` | `TypeOK` with `LockKeepsKeyboard`; `InOrderBut(server, None)`, `LockOK`, `Undisturbed` | `LockedKeyboard`, `LockedFocus`, `AlwaysConsistent`, `DesksRestoreNone`, `ActiveStaysOnScreen`, `KeyboardWithFocus` |
| `WindowListProofs` | `Mirrored`, with `InOrderBut(server, None)` | `PanelIsExact`, `OneIsFocused` |
| `ImeRelayProofs` | `IInv` | `ActiveStaysCurrent`, `NothingLeftShown`, `RelayAgrees` |
| `GeometryProofs` | `IInv` | `FieldsAgree`, `GrabsHold`, `GrabsNeedAButton`, `ClientsToldOfResizing`, `X11ClientsAgree`, `ReturnsHome`, `PlacedWithinView` |
| `ModulePipesProofs` | `IInv`; `IInv /\ Slots` | `ModulesConsistent`, `StreamsWhole`, `WaitsAreAnswered` |

`SessionLockProofs`. The inductive invariant is the conjunction of the safety
properties and `OffIsBlank`. None is inductive alone. That no enabled output
shows the desktop after "locked" (`ConfirmedHidesDesktop`) is established by
the frame that confirms: every other enabled output is in
`lock_frame_presented`, and those do not show the desktop
(`PresentedStaysCovered`), which is so because a frame committed while locked
is drawn from a scene whose desktop trees are off (`SceneMatchesLock`), and
because `session_lock_enter` clears the flags. That the confirmation is sent to
the holder, and that `sent` implies a holder, is `SentMatchesClient`. From the
invariant follow `TypeCorrect`, `LockHidesDesktop`, `OrphanedStaysCovered`,
`RecordsAgree`, the action properties `OnlyHolderUnlocks` and
`StallOnlyByRemoval`, and `Refinement`, that `SessionLock` implements `LockPromise`: there is one step
per handler, and `OffIsBlank` is what shows that an output that comes on
behind the lock does not bring the desktop along.

`IdleLockProofs`. The invariant is `TypeOK`, `CacheCurrent` and
`TimerMeasuresIdleness`; the second needs the first, because the timer is
restarted on the falling edge of the cached flag. One lemma treats `Refresh`
for all five inhibitor handlers, one `NoteActivity` for activity, the lock key
and the unlock. From it follow `TypeCorrect`, `RecordsAgree`,
`TimerIsIdleTime`, `NoEarlyLock` and `OnlyFailureAbandons`.

`StateFileProofs`. `Restored` speaks of the outputs that are there; what makes
an output that comes back what it was is the table and the file behind it. The
inductive invariant is `Typed`, `Agrees` and `Restored`: the table says of each
output that is not spoiled, there or not, what was wished of it. (A start takes
the wish from whatever file it finds.) One lemma says what
the table says after it was synchronised with the outputs, others that lines
that are written and read keep their types. From it follow `WishesRestored` and,
with `Kept`, `EntriesAlwaysKept`.

Where outputs are is the second half. Nothing in the handler that plugs an
output in says that it will not land on another: it asks the layout for a place,
and the layout puts whatever has none to the right of what is there. So the
operators of the layout come first: the greatest of a finite set of numbers
exists (`Greatest`), everything with a position of its own is to the left of
`Right`, those without are counted in their order (`BeforeGrows`), `With`,
`Without` and a reconfiguration keep every output in the layout once. The
invariant `Whereabouts` then says that the table knows the position of everything
in the layout and the last position of everything else (`Noticed`), that a save
under way holds what the table says, and that with nothing to save the file does
(`FilesOK`); it needs `synced` to be always true, which is the order of fsync and
rename. `MemoryAndFileAgree` follows from it and `IInv`, and `AlwaysPlacedBack`
from that and `OnlyPlugPlaces` (no other step brings an output into the layout)
and `LastIsRight`.

`DesktopProofs`. What every handler does to the lock's half of the state is one
relation, `Behind(s, t)`: a locked `s` leads to a locked `t` in which keyboard,
input method and focus are where they were or nowhere. It is transitive, and
handlers are compositions of helpers, so there is one lemma per helper and a
handler's proof is a chain of them. `LockedKeyboard` is the invariant,
`LockedFocus` the action property.

The second half is about order. In the middle of a handler the records do not agree: a
view is unmapped and still focused, or freed and still grabbed. They do agree
but for the one view the handler is about, and that is the parameter of the
invariant: `InOrderBut(s, x)` says that list, nodes, focus, grab and input method
agree in the state `s`, where `x` is excepted from what is said of the list and
of the focus. Each refocusing helper keeps it and does not choose `x` (`Away`);
`Beginning` and `Ending` lead from `InOrderBut(s, None)` to `InOrderBut(s, v)`
and, once the handler has taken grab, focus and input method from `v`, back.
The invariant `InOrderBut(server, None)` is stronger than `Consistent` in what
it says of the input method's surface (the active view or a mapped menu), and it
needs `LockKeepsKeyboard`, because a menu that closes behind the lock is not
replaced. Theorems `AlwaysConsistent` and `DesksRestoreNone`.

`ActiveOnScreen` and `KeyboardFollowsFocus` follow the same way, with
`PlacedBut(s, x)` for what is said of focus, grab and keyboard. They hold when
requests name mapped windows of the current workspace and the seat has a keyboard,
so the invariant is `Undisturbed`: *if* `Disturbances` is empty, then
`PlacedBut(server, None)`. (The run `hidden_focus` is what happens otherwise.) It
needs `LockOK`, that there are lock surfaces only while a lock client holds the
session, and for the unlock the existence of a topmost view among those that
may have the focus, by the least number principle over their places in the list:
if there is none, the active view has to be one that does without the keyboard
(WinTabs or a dock).

`WindowListProofs`. Whether the panel is right depends on what each handler
leaves out of what it sends. `Tells(s, t, told)` says that whoever is told of
`told` misses nothing of the change from `s` to `t`: a view outside `told` that
is listed and no dock has the focus, the iconified flag, the workspace and (if it
was mapped) the mapped flag it had, and a view that maps unannounced is a menu or
`FOCUS_ON_MAP` is set. There is one lemma per handler that the views it sends
are enough. They rest on what the refocusing helpers may do to what the panel is
told (`Refocuses`: restore, never iconify, and nothing else), and on `Hides` for
the handlers that take one view from the screen, which clear the focus first so
that only the next view need be told of. With these, `ToldStep` keeps the
invariant `Mirrored`. The invariant is about all entries, not only those that the
panel shows: each is what a fresh list would say, unless the view is a dock (whose
entry, from before it mapped, must be one of an unmapped view) or in `missed` (and
then its focus flag at least is right, because giving it the focus is telling of
it). That every handler with its broadcasts is a step of `Desktop`
(`MirroringIsPassive`) makes the invariants of `DesktopProofs` available.

`ImeRelayProofs`. The invariant has three parts, in the order in which a handler
gets to them: what it changes itself (`ListsOK`), the enter events of a focus
change (`EnteredOK`), and what `aswl_ime_update` leaves (`RelayOK`). A lemma on
the search (`FoundOK`) and one on `Update` cover the end of nearly all handlers,
given that the handler names the text input that was active before; each
handler's proof is then its own change of the lists. `RelayOK` says one thing no
property says: as long as an input method and an active text input are there,
the caret is that text input's or nobody's, which is why a popup that is created
later is shown where it should be.

`GeometryProofs`. One window's record is `Sound` in the middle of a handler and
`Whole` after it, when only windows in one of the two states have something
saved. X11 windows stay where their clients believe them to be because a resize
keeps the edge opposite to the dragged one; drags hold because positions are
computed from where the grab began and not from the last event. For
`RestoredHome` the invariant has `HomeIsKept`: what is saved, or, once one of
the two states was left, what the window already has, is where it was before.
The proof found the property false as it had once been stated, in a history
longer than the run explores. A window that is in both states and leaves one is
asked to take the saved size and the saved rectangle is forgotten; if it enters
that state again before its client has answered, the size that is saved is the
full one, and that is what it has when it has left both. The code does so
(`view_save_geometry` saves the size the client has), and `steady` now says when
what is saved is what the window had.

`ModulePipesProofs`. That no unit is lost, doubled or overtaken relates four
things of each module, changed by different steps: what was sent (`owed`), what
is queued, what is in the pipe and what was read. What a step does to the one it
serves is a lemma on sequences (what is written of a queue and what is left of
it make up the queue); of all others, that they are carried along or die
(`Carried`). Sends nested in a wait are covered by the stack's being typed frame
by frame: each frame keeps a position in the list that stays valid, because
modules that die during a send are only taken from the list when the stack is
empty (`RemoveDead`). For the names, a collision is looked for at each
`SET_NAME`, so the invariant `OneOfEachName` is kept by leaving at most one live
module of a name under each of the three policies.

That the window manager goes on only when the module has read the message
(`WaitsAreAnswered`) needs to know what is between the two processes. `Slots`
says that for a module that has not gone astray at most one thing is under way:
the header of a locked message, in the queue or the pipe, or the `UNLOCK` that
answers it, among the commands not yet read; and only while a frame of the stack
waits for the module with that very message, which it has read by the time the
answer exists. A module that has not spoken yet has set no lock and is not
waited for. Of every step it is shown that it starts no exchange and answers
none (the lemmas `KeptSlot` and `UnservedSlot`), but for three: a locked message
sent starts one, reading its header turns it into the answer, and the round of
the wait that reads the answer ends it. Beyond the masks and sizes, the proof
rests on one assumption: `UNLOCK` is an answer, never part of what a module says
unasked (`Scripts`, `Chatter`); `Animate.c:594`, in its handler of messages, is the only
place in the repository that sends it.

Not within the prover's reach is liveness (`LockAnswered`, `IdleSessionLocks`,
`BroadcastEnds`, `Delivered`), as is `ENABLED`, and induction over data where the
rule of induction would have to be applied to an operator. Where the proofs need
an induction (a greatest element, a first index) it is stated of a set: a least
member of the set of counterexamples, by the theorems on well-founded
orderings. The four liveness properties are all that is only model-checked:
every invariant and action property of a passing run is a theorem.

## Where the code and its comments differ

The run `hidden_focus` is expected to find a violation: `aswlcomp_view.c:110-112`
says that a hidden window cannot take focus, and `handle_foreign_request_activate`
(`aswlcomp_toplevel_protocols.c:61`) focuses the window without entering its
workspace, as the other two activation paths do.

Five more are in the models or beside them as the code has them, and no property
asks for the contrary:

- `aswlcomp_toplevel.c:414` says that focus is restored if the closing menu held
  it. The code restores it whether or not, and takes it from another open menu.
- `aswlcomp_toplevel_protocols.c:39-40` says that the minimize verb hands focus
  off. `view_set_minimized` does so only for `focused_view`, which a menu with
  the keyboard never is.
- `aswllock.c:242` asks for Enter on the lock surface. When the view in
  `focused_view` goes away behind the lock, the keyboard focus that is cleared
  is the lock surface's (`aswlcomp_toplevel.c:406`), and `focus_topmost_view`
  does nothing while locked.
- `aswlcomp_ime.c:524` says that the newest input method is preferred. When the
  one in use goes, the loop that looks for a successor
  (`handle_input_method_destroy`, line 560) runs on to the end of the list and
  takes the oldest.
- `module.c:537` says that a module has no more than 20 seconds to unlock the
  window manager. The count is that of one wait; a command that makes the window
  manager send from inside it may start another (see `ModulePipes`).

Two pointers are used that nothing keeps valid. `ime_focused_surface` is left
dangling when a menu is focused while it is not mapped
(`aswlcomp_control_lock.c:384-401`) and then destroyed: the destroy handler
(`aswlcomp_toplevel.c:428-510`) clears it only for the view in `focused_view`,
and `aswlcomp_ime.c:34` reads it. And an X11 window's request for a move or a
resize before its `associate` makes `begin_interactive` dereference a `scene_tree`
that is NULL (`aswlcomp_input.c:193`); that ends the program, and the models have
no such step.

Besides these, `Stalled` in `SessionLock` describes a handshake that waits for
nothing: the last output that had not presented the lock goes away
(`aswlcomp_output.c:174-197` does not look at the lock), and "locked" is only
sent with the next frame of another output, whenever that comes.
`IdleLock.Abandoned` is the other: a lock client started by the timer that
fails to lock is not started again before the next activity.

## Plan

Done: `LockPromise`, `SessionLock`, `Desktop`, `WindowList`, `Geometry`,
`StateFile`, `IdleLock`, `ImeRelay` and `ModulePipes`, each with its module of
proofs. To do, most important first:

1. `WindowList`: an abstract "mirror" specification and the refinement.
2. `Waiter`, the client side of `aswlwait`, `aswlidle` and `aswllock`: the
   lock client composed with `SessionLock`.
3. `Geometry` with a second output and layer surfaces' exclusive zones; dock
   layout.
4. From `libAfterBase`, the timer queue and the hash table.

## Not modelled

By far the most of the repository's C code is data processing that has no
interleaving, failure or ordering to explore: image codecs and filters
(`libAfterImage`, with its copies of libjpeg, libpng, zlib and libungif), fonts,
icons, themes and decorations, the parsers of configuration and their writers
(`libAfterConf`, `libAfterStep`), generated and bound code (Perl). TLC would
evaluate such code on a handful of inputs, which its tests do better.

The rest of the X11 window manager is a dialogue with the X server (reparenting,
configure and map requests, focus with timestamps, stacking); to check it, the
server's side of ICCCM would have to be modelled first, from documents that are
not in this repository. Its modules redraw what the pipe tells them.

Of the Wayland half: rendering, start-up and process launching, configuration
parsing, layer surfaces and dock layout (geometry), and the clients apart from
the panel's window list. Each component's reason is in PROJECT.json.
