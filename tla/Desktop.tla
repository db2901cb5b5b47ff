------------------------------ MODULE Desktop ------------------------------
(***************************************************************************)
(* Windows, focus, keyboard, interactive grab, workspaces and lock screen  *)
(* of the aswlcomp compositor: wayland/aswlcomp_view.c, _toplevel.c,       *)
(* _toplevel_protocols.c, _input.c, _control_lock.c and _server.c.         *)
(*                                                                         *)
(* The handlers of these files call one another (an unmap focuses the      *)
(* topmost view, a focus restores an iconified one), so each helper is an  *)
(* operator from one state of struct aswl_server to the next, and an       *)
(* action is one handler: a guard and a composition of helpers.            *)
(*                                                                         *)
(* A view stands for its struct, its toplevel and its main surface.        *)
(***************************************************************************)
EXTENDS Naturals, Sequences, Functions

CONSTANTS
    Views,          \* the toplevels clients can create
    Xwayland,       \* those that are X11 windows
    Popups,         \* view_is_suite_popup: the suite's own menus
    Modules,        \* view_is_nofocus_asmodule
    WinTabs,        \* the ASModule windows that may have the focus
    Dockapps,       \* view_is_xwayland_dockapp
    LockSurfaces,   \* the surfaces lock clients can create
    None,           \* NULL
    NWorkspaces,    \* workspace_count
    FocusOnMap,     \* ASWLCOMP_FOCUS_ON_MAP
    Disturbances    \* what else may happen, see below

(***************************************************************************)
(* Three things that the handlers do not guard against and that change     *)
(* what holds are switched on by Disturbances:                             *)
(*   "unmapped"  a client asks to focus, move or resize a window that is   *)
(*               not mapped;                                               *)
(*   "elsewhere" a client asks to focus, move or resize a mapped window    *)
(*               that is not on the screen, and its workspace is not       *)
(*               switched to;                                              *)
(*   "unplug"    the seat is without a keyboard for a while.               *)
(***************************************************************************)
ASSUME DesktopAssumption ==
    /\ Xwayland \subseteq Views
    /\ Popups \subseteq Views \ Xwayland
    /\ Modules \subseteq Xwayland
    /\ WinTabs \subseteq Xwayland \ Modules
    /\ Dockapps \subseteq Xwayland \ (Modules \cup WinTabs)
    /\ None \notin Views \cup LockSurfaces
    /\ Views \cap LockSurfaces = {}
    /\ NWorkspaces \in Nat \ {0}
    /\ FocusOnMap \in BOOLEAN
    /\ Disturbances \subseteq {"unmapped", "elsewhere", "unplug"}

VARIABLE server

Workspaces == 1..NWorkspaces

Servers ==
    [views     : Seq(Views),               \* wl_list, head first; tail on top
     scened    : SUBSET Views,             \* scene_tree # NULL
     mapped    : SUBSET Views,
     minimized : SUBSET Views,
     docks     : SUBSET Views,             \* is_dock
     shown     : SUBSET Views,             \* the scene node is enabled
     ws        : [Views -> Workspaces],    \* view->workspace
     cur       : Workspaces,               \* current_workspace
     focused   : Views \cup {None},        \* focused_view
     grabbed   : Views \cup {None},        \* grabbed_view
     pressed   : Views \cup {None},        \* where a pointer button is held
     keyboard  : BOOLEAN,                  \* wlr_seat_get_keyboard # NULL
     kbd       : Views \cup LockSurfaces \cup {None}, \* keyboard focus
     ime       : Views \cup {None},        \* ime_focused_surface
     locked    : BOOLEAN,                  \* session_locked
     lock      : BOOLEAN,                  \* session_lock # NULL
     lsurfs    : Seq(LockSurfaces),        \* lock_surfaces, head first
     lmapped   : SUBSET LockSurfaces]      \* those whose surface is mapped

Init ==
    \E w \in Workspaces :
        server = [views |-> <<>>, scened |-> {}, mapped |-> {},
                  minimized |-> {}, docks |-> {}, shown |-> {},
                  ws |-> [v \in Views |-> 1], cur |-> w,
                  focused |-> None, grabbed |-> None, pressed |-> None,
                  keyboard |-> "unplug" \notin Disturbances,
                  kbd |-> None, ime |-> None,
                  locked |-> FALSE, lock |-> FALSE,
                  lsurfs |-> <<>>, lmapped |-> {}]

-----------------------------------------------------------------------------
(***************************************************************************)
(* The helpers the handlers are made of.                                   *)
(***************************************************************************)

Listed(s) == Range(s.views)

\* wl_list_remove.
Without(seq, x) ==
    LET k == CHOOSE i \in DOMAIN seq : seq[i] = x
    IN  [i \in 1 .. Len(seq) - 1 |-> IF i < k THEN seq[i] ELSE seq[i + 1]]

\* wlr_scene_node_raise_to_top and the move to the tail of the list.
Raise(s, v) == [s EXCEPT !.views = Append(Without(s.views, v), v)]

\* Fault: an iconified view counts as visible.
VisibleIconified(s, v) ==
    /\ v \in (s.mapped \cap s.scened) \ s.docks
    /\ v \notin Popups \cup Modules \cup WinTabs
    /\ s.ws[v] = s.cur

\* view_visible: the views the focus may go to by itself.
Visible(s, v) ==
    /\ v \in (s.mapped \cap s.scened) \ (s.minimized \cup s.docks)
    /\ v \notin Popups \cup Modules \cup WinTabs
    /\ s.ws[v] = s.cur

\* "The standard enabled expression, plus the minimized term".
Enabled(s, v) ==
    /\ v \in s.mapped \ s.minimized
    /\ v \in s.docks \/ s.ws[v] = s.cur

\* wlr_scene_node_set_enabled with that expression.
UpdateNode(s, v) ==
    [s EXCEPT !.shown = IF v \in s.scened /\ Enabled(s, v) THEN @ \cup {v}
                                                           ELSE @ \ {v}]

\* wlr_seat_keyboard_notify_clear_focus and aswl_ime_set_focus(NULL).
ClearKeyboard(s) == [s EXCEPT !.kbd = None, !.ime = None]

\* end_interactive, when v is the grabbed view.
EndGrabOf(s, v) == IF s.grabbed = v THEN [s EXCEPT !.grabbed = None] ELSE s

\* focus_view, and the branch of view_set_minimized it takes to restore an
\* iconified view.  With no keyboard on the seat the keyboard focus stays.
Restore(s, v) ==
    IF v \in s.minimized \ s.docks
    THEN UpdateNode([s EXCEPT !.minimized = @ \ {v}], v)
    ELSE s

\* The rest of focus_view, for a view that takes the focus or does not.
GiveFocus(s, v, steals) ==
    LET enters == s.keyboard /\ v \in s.scened \ Modules
    IN  [Raise(Restore(s, v), v) EXCEPT
            !.focused = IF steals THEN v ELSE @,
            !.kbd = IF enters THEN v ELSE @,
            !.ime = IF enters THEN v ELSE @]

\* Faults: the lock is not looked at; or only before the keyboard moves.
FocusViewUnguarded(s, v) == GiveFocus(s, v, v \notin Popups \cup Modules)

FocusViewHalfGuarded(s, v) ==
    LET given == GiveFocus(s, v, v \notin Popups \cup Modules)
    IN  IF s.locked THEN [s EXCEPT !.focused = given.focused, !.views = given.views]
        ELSE given

FocusView(s, v) ==
    IF s.locked THEN s ELSE GiveFocus(s, v, v \notin Popups \cup Modules)

\* focus_topmost_view.
IsTopmost(s, i) ==
    /\ i \in DOMAIN s.views
    /\ Visible(s, s.views[i])
    /\ \A j \in DOMAIN s.views : Visible(s, s.views[j]) => j <= i

FocusTopmost(s) ==
    IF \E i \in DOMAIN s.views : IsTopmost(s, i)
    THEN FocusView(s, s.views[CHOOSE i \in DOMAIN s.views : IsTopmost(s, i)])
    ELSE s

\* Faults: the keyboard is not taken back; it is, but after the refocusing.
DefocusKeepsKeyboard(s, v) ==
    IF s.focused = v THEN FocusTopmost([s EXCEPT !.focused = None]) ELSE s

DefocusClearsLast(s, v) ==
    IF s.focused = v
    THEN ClearKeyboard(FocusTopmost([s EXCEPT !.focused = None]))
    ELSE s

\* The common end of every handler that takes the focus from v.
Defocus(s, v) ==
    IF s.focused = v
    THEN FocusTopmost(ClearKeyboard([s EXCEPT !.focused = None]))
    ELSE s

\* view_set_minimized(view, true).
Minimize(s, v) ==
    IF v \in s.minimized \cup s.docks THEN s
    ELSE Defocus(EndGrabOf(UpdateNode([s EXCEPT !.minimized = @ \cup {v}], v),
                           v), v)

NormalizeWorkspace(w) ==
    IF w < 1 THEN 1
    ELSE IF w > NWorkspaces THEN ((w - 1) % NWorkspaces) + 1 ELSE w

\* set_workspace.
Elsewhere(s, v) == v # None /\ v \notin s.docks /\ s.ws[v] # s.cur

\* Fault: the active view stays active on the workspace that is left.
EnterWorkspaceKeepsFocus(s, workspace) ==
    LET w == NormalizeWorkspace(workspace)
        moved   == [s EXCEPT !.cur = w]
        ungrab  == IF Elsewhere(moved, s.grabbed)
                   THEN [moved EXCEPT !.grabbed = None] ELSE moved
        redrawn == [ungrab EXCEPT
                      !.shown = {v \in s.scened : Enabled(ungrab, v)}]
    IN  IF w = s.cur THEN s ELSE FocusTopmost(redrawn)

EnterWorkspace(s, workspace) ==
    LET w == NormalizeWorkspace(workspace)
        moved   == [s EXCEPT !.cur = w]
        ungrab  == IF Elsewhere(moved, s.grabbed)
                   THEN [moved EXCEPT !.grabbed = None] ELSE moved
        unfocus == IF Elsewhere(ungrab, s.focused)
                   THEN ClearKeyboard([ungrab EXCEPT !.focused = None])
                   ELSE ungrab
        redrawn == [unfocus EXCEPT
                      !.shown = {v \in s.scened : Enabled(unfocus, v)}]
    IN  IF w = s.cur THEN s ELSE FocusTopmost(redrawn)

\* begin_interactive.
BeginInteractive(s, v) == [FocusView(s, v) EXCEPT !.grabbed = v]

-----------------------------------------------------------------------------
(***************************************************************************)
(* Windows come, map, unmap and go.                                        *)
(***************************************************************************)

\* handle_new_xdg_toplevel.
NewXdgToplevel(v) ==
    /\ v \in Views \ (Xwayland \cup Listed(server))
    /\ server' = [server EXCEPT !.views = Append(@, v),
                                !.scened = @ \cup {v},
                                !.ws[v] = server.cur]

\* handle_new_xwayland_surface, before the X11 window has a surface.
NewXwaylandSurface(v) ==
    /\ v \in Xwayland \ Listed(server)
    /\ server' = [server EXCEPT !.views = Append(@, v),
                                !.ws[v] = server.cur]

\* handle_view_map.
FocusesOnMap(s, v) ==
    \/ v \in Popups
    \/ FocusOnMap /\ v \notin Modules \cup WinTabs /\ s.focused = None

Map(s, v) ==
    LET mapped == UpdateNode([s EXCEPT !.mapped = @ \cup {v},
                                       !.docks = @ \cup ({v} \cap Dockapps)], v)
    IN  IF v \in mapped.docks \/ ~Enabled(mapped, v) THEN mapped
        ELSE IF FocusesOnMap(mapped, v) THEN FocusView(mapped, v)
        ELSE Raise(mapped, v)

MapView(v) ==
    /\ v \in server.scened \ server.mapped
    /\ server' = Map(server, v)

\* handle_xwayland_associate and xwayland_attach_surface.  The surface may be
\* mapped already; its map event is then made up for.
Associate(v) ==
    /\ v \in (Xwayland \cap Listed(server)) \ server.scened
    /\ LET attached == [server EXCEPT !.scened = @ \cup {v}]
       IN  server' \in {attached, Map(attached, v)}

\* handle_view_unmap.  A suite popup hands the keyboard to the focused view.
Unmap(s, v) ==
    LET hidden  == [s EXCEPT !.mapped = @ \ {v}, !.shown = @ \ {v}]
        refocus == Defocus(EndGrabOf(hidden, v), v)
    IN  IF v \notin Popups THEN refocus
        ELSE IF refocus.focused # None THEN FocusView(refocus, refocus.focused)
        ELSE ClearKeyboard(refocus)

UnmapView(v) ==
    /\ v \in server.mapped
    /\ server' = Unmap(server, v)

\* The seat forgets a surface that is destroyed (wlroots).
ForgetSurface(s, v) ==
    [s EXCEPT !.kbd = IF @ = v THEN None ELSE @,
              !.pressed = IF @ = v THEN None ELSE @]

\* handle_xwayland_dissociate and xwayland_detach_surface.  wlroots has
\* unmapped the surface; it may live on or be destroyed.
Dissociate(v) ==
    /\ v \in (Xwayland \cap server.scened) \ server.mapped
    /\ server' = ForgetSurface([Defocus(EndGrabOf(server, v), v) EXCEPT
                                  !.scened = @ \ {v}], v)

\* Fault: the active view is freed without a word to the seat.
DestroyViewKeepsFocus(v) ==
    /\ v \in Listed(server) \ server.mapped
    /\ server' = ForgetSurface([server EXCEPT !.views = Without(@, v),
                                              !.scened = @ \ {v},
                                              !.minimized = @ \ {v},
                                              !.docks = @ \ {v},
                                              !.ws[v] = 1], v)

\* handle_view_destroy.  wlroots unmaps a toplevel before it destroys it.
DestroyView(v) ==
    /\ v \in Listed(server) \ server.mapped
    /\ LET unlisted == [server EXCEPT !.views = Without(@, v)]
           gone     == Defocus(EndGrabOf(unlisted, v), v)
       IN  server' = ForgetSurface([gone EXCEPT !.scened = @ \ {v},
                                                !.minimized = @ \ {v},
                                                !.docks = @ \ {v},
                                                !.ws[v] = 1], v)

-----------------------------------------------------------------------------
(***************************************************************************)
(* What clients and panels ask for.                                        *)
(***************************************************************************)

\* May a focus request name v?
MayName(v) ==
    /\ v \in Listed(server)
    /\ v \in server.mapped \/ "unmapped" \in Disturbances

\* May a request to move or resize name v?
OnScreen(v) ==
    \/ v \in server.shown
    \/ v \in server.mapped /\ "elsewhere" \in Disturbances
    \/ v \notin server.mapped /\ "unmapped" \in Disturbances

\* handle_request_minimize, handle_xwayland_request_minimize and
\* handle_foreign_request_minimize.
RequestMinimize(v) ==
    /\ v \in Listed(server)
    /\ server' = Minimize(server, v)

\* The same from a taskbar or an X11 client that asks to be restored.
RequestRestore(v) ==
    /\ v \in server.minimized
    /\ v \in Xwayland \cup server.mapped
    /\ server' = Restore(server, v)

\* handle_request_move and handle_request_resize: an xdg client must name the
\* button press that it was sent.  Neither looks whether it is still mapped.
RequestInteractive(v) ==
    /\ v \in server.scened \ Xwayland
    /\ server.pressed = v
    /\ OnScreen(v)
    /\ server' = BeginInteractive(server, v)

\* handle_xwayland_request_move and _resize: an X11 client need not.  Of a
\* window without a scene tree begin_interactive reads through NULL, which
\* ends the program.
XwaylandRequestInteractive(v) ==
    /\ v \in (Xwayland \cap server.scened) \ server.docks
    /\ OnScreen(v)
    /\ server' = BeginInteractive(server, v)

\* handle_foreign_request_activate: a mapped window that is no dock has a
\* foreign toplevel handle.
ForeignActivate(v) ==
    /\ v \in server.mapped \ server.docks
    /\ server.ws[v] = server.cur \/ "elsewhere" \in Disturbances
    /\ server' = FocusView(server, v)

\* handle_xdg_activation_request_activate.
ActivationRequest(v) ==
    /\ ~server.locked
    /\ v \in server.scened
    /\ MayName(v)
    /\ server' = FocusView(IF v \in server.docks THEN server
                           ELSE EnterWorkspace(server, server.ws[v]), v)

\* aswl_control_focus_window.
FocusWindow(v) ==
    /\ MayName(v)
    /\ server' = FocusView(EnterWorkspace(server, server.ws[v]), v)

\* focus_next_view and focus_prev_view: the first of the views the focus may
\* go to, from the head or from the tail, that does not have it.
Others == {i \in DOMAIN server.views : /\ Visible(server, server.views[i])
                                       /\ server.views[i] # server.focused}

FocusNext ==
    \E i \in Others : /\ \A j \in Others : i <= j
                      /\ server' = FocusView(server, server.views[i])

FocusPrev ==
    \E i \in Others : /\ \A j \in Others : j <= i
                      /\ server' = FocusView(server, server.views[i])

\* set_workspace, workspace_next and workspace_prev.
SetWorkspace(w) == server' = EnterWorkspace(server, w)

WorkspaceNext ==
    server' = EnterWorkspace(server, IF server.cur + 1 > NWorkspaces THEN 1
                                                       ELSE server.cur + 1)

WorkspacePrev ==
    server' = EnterWorkspace(server, IF server.cur > 1 THEN server.cur - 1
                                                       ELSE NWorkspaces)

\* Fault: the node of the moved window is not recomputed.
MoveWindowKeepsNode(v, workspace) ==
    LET w     == NormalizeWorkspace(workspace)
        moved == [server EXCEPT !.ws[v] = w]
    IN  /\ v \in Listed(server) \ server.docks
        /\ server.ws[v] # w
        /\ server' = IF w = server.cur THEN moved
                     ELSE Defocus(EndGrabOf(moved, v), v)

\* aswl_control_move_window_to_workspace.
MoveWindowToWorkspace(v, workspace) ==
    LET w     == NormalizeWorkspace(workspace)
        moved == UpdateNode([server EXCEPT !.ws[v] = w], v)
    IN  /\ v \in Listed(server) \ server.docks
        /\ server.ws[v] # w
        /\ server' = IF w = server.cur THEN moved
                     ELSE Defocus(EndGrabOf(moved, v), v)

\* aswl_control_toggle_fullscreen and _maximized end the grab of the focused
\* view; their key bindings end any grab, but do not run while locked.
ToggleFullscreen ==
    /\ server.grabbed # None
    /\ \/ ~server.locked
       \/ /\ server.grabbed = server.focused
          /\ server.focused \in server.mapped \ server.docks
    /\ server' = [server EXCEPT !.grabbed = None]

-----------------------------------------------------------------------------
(***************************************************************************)
(* The seat.                                                               *)
(***************************************************************************)

\* handle_cursor_button on a view that is on the screen.  With a second
\* button down no serial of the first is valid any more.
PressButton(v, alt) ==
    LET pressed == [server EXCEPT !.pressed = IF @ = None THEN v ELSE None]
    IN  /\ ~server.locked
        /\ v \in server.shown
        /\ alt => server.keyboard /\ v \notin server.docks
        /\ server' = IF v \in server.docks THEN pressed
                     ELSE IF alt THEN BeginInteractive(pressed, v)
                     ELSE FocusView(pressed, v)

\* A release ends the grab unless another button started it.
ReleaseButton(ends) ==
    /\ server.pressed # None \/ server.grabbed # None
    /\ server' = [server EXCEPT !.pressed = None,
                                !.grabbed = IF ends THEN None ELSE @]

\* handle_new_input, handle_new_virtual_keyboard or a key of another keyboard.
KeyboardArrives ==
    /\ ~server.keyboard
    /\ server' = [server EXCEPT !.keyboard = TRUE]

\* handle_keyboard_destroy; wlroots drops the seat's keyboard, not its focus.
KeyboardUnplugged ==
    /\ "unplug" \in Disturbances
    /\ server.keyboard
    /\ server' = [server EXCEPT !.keyboard = FALSE]

-----------------------------------------------------------------------------
(***************************************************************************)
(* The lock screen.  Module SessionLock has the handshake with the outputs. *)
(***************************************************************************)

\* handle_new_session_lock and session_lock_enter.
NewSessionLock ==
    /\ ~server.lock
    /\ server' = [ClearKeyboard(server) EXCEPT
                    !.lock = TRUE, !.locked = TRUE,
                    !.grabbed = None, !.pressed = None]

\* handle_session_lock_unlock, lock_surfaces_destroy, session_lock_exit.
Unlock ==
    /\ server.lock
    /\ server' = FocusTopmost([server EXCEPT !.lock = FALSE, !.locked = FALSE,
                                             !.lsurfs = <<>>])

\* handle_session_lock_destroy: locked, with no lock client.
LockDestroyed ==
    /\ server.lock
    /\ server' = [server EXCEPT !.lock = FALSE, !.lsurfs = <<>>]

\* handle_session_lock_new_surface.
LockSurfaceNew(k) ==
    /\ server.lock
    /\ k \notin Range(server.lsurfs) \cup server.lmapped \cup {server.kbd}
    /\ server' = [server EXCEPT !.lsurfs = <<k>> \o @]

\* handle_lock_surface_map and focus_lock_surface.
LockSurfaceMap(k) ==
    /\ k \in Range(server.lsurfs) \ server.lmapped
    /\ server' = [server EXCEPT !.lmapped = @ \cup {k},
                                !.kbd = k, !.ime = None]

\* handle_lock_surface_unmap and focus_any_lock_surface.
IsFirstMapped(s, i) ==
    /\ i \in DOMAIN s.lsurfs
    /\ s.lsurfs[i] \in s.lmapped
    /\ \A j \in 1 .. i - 1 : s.lsurfs[j] \notin s.lmapped

FocusAnyLockSurface(s) ==
    IF \E i \in DOMAIN s.lsurfs : IsFirstMapped(s, i)
    THEN [s EXCEPT !.kbd = s.lsurfs[CHOOSE i \in DOMAIN s.lsurfs :
                                        IsFirstMapped(s, i)],
                   !.ime = None]
    ELSE ClearKeyboard(s)

LockSurfaceUnmap(k) ==
    /\ k \in Range(server.lsurfs) \cap server.lmapped
    /\ server' = FocusAnyLockSurface([server EXCEPT !.lmapped = @ \ {k}])

\* handle_lock_surface_destroy, after the unmap wlroots does first.
LockSurfaceDestroy(k) ==
    /\ k \in Range(server.lsurfs) \ server.lmapped
    /\ server' = [server EXCEPT !.lsurfs = Without(@, k)]

\* The surfaces of a lock client that is gone die; no handler is left on them.
LockClientGone ==
    LET dead == LockSurfaces \ Range(server.lsurfs)
    IN  /\ dead \cap ({server.kbd} \cup server.lmapped) # {}
        /\ server' = [server EXCEPT !.lmapped = @ \ dead,
                                    !.kbd = IF @ \in dead THEN None ELSE @]

-----------------------------------------------------------------------------
Next ==
    \/ \E v \in Views : \/ NewXdgToplevel(v)
                        \/ NewXwaylandSurface(v)
                        \/ MapView(v)
                        \/ Associate(v)
                        \/ UnmapView(v)
                        \/ Dissociate(v)
                        \/ DestroyView(v)
                        \/ RequestMinimize(v)
                        \/ RequestRestore(v)
                        \/ RequestInteractive(v)
                        \/ XwaylandRequestInteractive(v)
                        \/ ForeignActivate(v)
                        \/ ActivationRequest(v)
                        \/ FocusWindow(v)
                        \/ \E w \in Workspaces : MoveWindowToWorkspace(v, w)
                        \/ \E alt \in BOOLEAN : PressButton(v, alt)
    \/ \E w \in 0 .. NWorkspaces + 1 : SetWorkspace(w)
    \/ FocusNext \/ FocusPrev \/ WorkspaceNext \/ WorkspacePrev
    \/ ToggleFullscreen
    \/ \E ends \in BOOLEAN : ReleaseButton(ends)
    \/ KeyboardArrives \/ KeyboardUnplugged
    \/ NewSessionLock \/ Unlock \/ LockDestroyed \/ LockClientGone
    \/ \E k \in LockSurfaces : \/ LockSurfaceNew(k)
                               \/ LockSurfaceMap(k)
                               \/ LockSurfaceUnmap(k)
                               \/ LockSurfaceDestroy(k)

Spec == Init /\ [][Next]_server

-----------------------------------------------------------------------------
(***************************************************************************)
(* Properties.                                                             *)
(***************************************************************************)

TypeOK == server \in Servers

\* The view list names every view once, and only views that are on it are
\* mapped, have a scene tree or are drawn.
ListConsistent ==
    /\ \A i, j \in DOMAIN server.views : server.views[i] = server.views[j] => i = j
    /\ server.mapped \subseteq server.scened
    /\ server.scened \cup server.minimized \cup server.docks \subseteq Listed(server)

\* Every handler that changes one of the terms also recomputes the node: what
\* is drawn is what is mapped, not iconified, and a dock or on this workspace.
ShownExact == server.shown = {v \in server.scened : Enabled(server, v)}

\* Whatever requests name, no handler leaves focused_view or grabbed_view on a
\* view that has been freed, and a grabbed view keeps its scene node.  This is
\* not so for ime_focused_surface: a menu that is given the focus while it is
\* not mapped (aswl_control_focus_window) and then destroyed leaves it behind.
NothingDangles ==
    /\ server.focused \in Listed(server) \cup {None}
    /\ server.grabbed \in server.scened \cup {None}

\* While the session is locked no window has the keyboard or the input method.
LockKeepsKeyboard ==
    server.locked => server.kbd \notin Views /\ server.ime = None

\* Menus and modules never become the active view, and the active view is not
\* iconified (an iconified dock cannot be restored).
FocusRoles ==
    /\ server.focused \notin Popups \cup Modules
    /\ server.focused \in server.minimized => server.focused \in server.docks

\* Consistent: these together; they are what the handlers rely on.
Consistent == TypeOK /\ ListConsistent /\ ShownExact /\ NothingDangles /\ FocusRoles

\* If requests only name windows of this workspace, the active view and a view
\* being moved or resized are on the screen after every handler: no unmap,
\* workspace change, move or iconify leaves focus or grab behind.
ActiveOnScreen ==
    Disturbances = {} =>
        /\ server.focused \in server.shown \cup server.docks \cup {None}
        /\ server.grabbed \in server.shown \cup {None}

\* Outside the lock the keyboard is where the active view says: a window that
\* has it is the active one or a menu on top of it, and an active window is
\* never left without it.  The surface the input method is on exists.
KeyboardFollowsFocus ==
    Disturbances = {} /\ ~server.locked =>
        /\ server.kbd \in Views => server.kbd \in {server.focused} \cup Popups
        /\ server.focused # None => \/ server.kbd \in Views
                                   \/ server.focused \in WinTabs \cup server.docks
        /\ server.ime \in server.scened \cup {None}

\* While the session stays locked no view becomes the active one: the choice
\* of the next view waits for the unlock.
LockFreezesFocus ==
    [][server.locked /\ server'.locked =>
         server'.focused \in {server.focused, None}]_server

\* "nothing resurrects a hidden view by switching desks": a workspace change,
\* with the refocusing it does, leaves every iconified view iconified.
DesksKeepIconified ==
    [][\A w \in 0 .. NWorkspaces + 1 :
         SetWorkspace(w) => server'.minimized = server.minimized]_server

-----------------------------------------------------------------------------
(***************************************************************************)
(* What comments and texts of the repository say, and the code does not do. *)
(***************************************************************************)

\* aswlcomp_view.c: "a hidden window cannot take focus".  The window that
\* becomes active is on the screen.
HiddenTakesNoFocus ==
    [][server'.focused \notin {server.focused, None} \cup server'.docks =>
         server'.focused \in server'.shown]_server
=============================================================================
