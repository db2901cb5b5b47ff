----------------------------- MODULE WindowList -----------------------------
(***************************************************************************)
(* The window list that the control protocol mirrors to its clients        *)
(* (wayland/aswlcomp_control_lock.c), as the panel keeps it                *)
(* (wayland/aswlpanel_wl.c, aswlpanel_model.c).                            *)
(*                                                                         *)
(* There is no diffing: each handler of module Desktop sends the state of  *)
(* the views it thinks it has changed, and the client must end up with     *)
(* what a fresh list would say.  An action here is one of Desktop's with   *)
(* the broadcasts its handler makes; a view that a handler sends more than *)
(* once is in its final state when it is sent last.                        *)
(***************************************************************************)
EXTENDS Desktop

VARIABLES
    named,      \* other Xwayland views with a title or a class
    bound,      \* the panel has bound the global
    list,       \* its windows, each as the last event of it said
    workspace,  \* its current_workspace
    missed      \* history: views that mapped without an event and had none since
mirror == <<named, bound, list, workspace, missed>>

\* view_should_skip_window_list.  A module is known by its class.
Skipped(s, names) == s.docks \cup (Xwayland \ (names \cup Modules \cup WinTabs))

\* view_window_flags and the workspace.
State(s, v) == [mapped    |-> v \in s.mapped,
                focused   |-> s.focused = v,
                minimized |-> v \in s.minimized,
                workspace |-> s.ws[v]]

WInit ==
    /\ Init
    /\ named = {}
    /\ bound = FALSE
    /\ list = <<>>
    /\ workspace = 1
    /\ missed = {}

-----------------------------------------------------------------------------
(***************************************************************************)
(* What is sent.                                                           *)
(***************************************************************************)

\* broadcast_window_state for the views of told, and broadcast_window_closed
\* for one that was freed.
SendsIn(told) ==
    LET sent == (told \cap Listed(server')) \ Skipped(server', named')
        kept == DOMAIN list \cap Listed(server')
    IN  list' = IF bound
                THEN [v \in sent \cup kept |->
                        IF v \in sent THEN State(server', v) ELSE list[v]]
                ELSE list

\* broadcast_workspace_state, at the end of set_workspace.
SendsWorkspace ==
    workspace' = IF bound /\ server'.cur # server.cur THEN server'.cur ELSE workspace

Sends(told) ==
    /\ named' = named \cap Listed(server')
    /\ SendsIn(told)
    /\ SendsWorkspace
    /\ missed' = IF bound THEN server'.mapped \cap ((missed \cup (server'.mapped \ server.mapped)) \ told)
                          ELSE {}
    /\ UNCHANGED bound

\* Handlers that take the focus from a view clear focused_view first, so that
\* focus_view has only the next one to tell of.  As a fault: it always does so.
NewFocusTold(s, t) ==
    IF s.focused = t.focused THEN {} ELSE {t.focused} \ {None}

\* Otherwise focus_view tells of the view that loses the focus, too, and
\* view_set_minimized of the view it restores.
FocusTold(s, t) ==
    IF s.focused = t.focused THEN {} ELSE {s.focused, t.focused} \ {None}
RestoreTold(s, t) == s.minimized \ t.minimized
MovesFocus == Sends(FocusTold(server, server') \cup RestoreTold(server, server'))

\* A handler that hides v tells of it when the next view has the focus.
\* Fault: a view that was not the active one goes unannounced.
LeavesActive(v) ==
    Sends(IF server.focused = v THEN NewFocusTold(server, server') \cup {v} ELSE {})
Leaves(v) == Sends(NewFocusTold(server, server') \cup {v})

\* handle_view_map: focus_view does the telling for a view that is focused.
MapTold(s, t, v) ==
    IF v \in t.shown \ t.docks /\ FocusesOnMap(s, v) THEN FocusTold(s, t) ELSE {v}
Maps(v) == Sends(MapTold(server, server', v))

\* Two calls of focus_view: between them a view of the workspace that is entered
\* has the focus for a moment.
Switches(there) ==
    Sends(FocusTold(server, there) \cup FocusTold(there, server')
            \cup RestoreTold(server, server'))

-----------------------------------------------------------------------------
(***************************************************************************)
(* The panel.                                                              *)
(***************************************************************************)

\* send_window_list_snapshot, after which the panel has nothing else.
Snapshot == [v \in Listed(server) \ Skipped(server, named) |-> State(server, v)]

\* aswl_control_bind.
Bind ==
    /\ ~bound
    /\ bound' = TRUE
    /\ list' = Snapshot
    /\ workspace' = server.cur
    /\ missed' = {}
    /\ UNCHANGED <<server, named>>

\* The panel is restarted.
Unbind ==
    /\ bound
    /\ bound' = FALSE
    /\ list' = <<>>
    /\ workspace' = 1
    /\ missed' = {}
    /\ UNCHANGED <<server, named>>

\* as_window_visible: what the panel shows.
PanelShows ==
    {v \in DOMAIN list \ (Popups \cup Modules \cup WinTabs) :
        list[v].mapped /\ list[v].workspace = workspace}

-----------------------------------------------------------------------------
\* handle_view_set_title, _set_app_id and _set_class.
Retitle(v) ==
    /\ v \in Listed(server)
    /\ UNCHANGED <<server, bound, workspace>>
    /\ named' = named \cup ((Xwayland \ (Modules \cup WinTabs)) \cap {v})
    /\ SendsIn({v})
    /\ missed' = missed \ {v}

\* Presses and interactive requests are left out: all they do to the list is what
\* ForeignActivate does, which has the same call of focus_view.  So are lock
\* surfaces and keyboards: nothing is sent when they come and go.
WNext ==
    \/ \E v \in Views :
         \/ (NewXdgToplevel(v) \/ NewXwaylandSurface(v)) /\ Sends({})
         \/ MapView(v) /\ Maps(v)
         \/ /\ Associate(v)
            /\ IF v \in server'.mapped THEN Maps(v) ELSE Sends({})
         \/ (UnmapView(v) \/ Dissociate(v)) /\ Leaves(v)
         \/ DestroyView(v) /\ Leaves(v)
         \/ /\ RequestMinimize(v)
            /\ IF v \in server'.minimized \ server.minimized THEN Leaves(v) ELSE Sends({})
         \/ (RequestRestore(v) \/ ForeignActivate(v)) /\ MovesFocus
         \/ /\ ActivationRequest(v)
            /\ Switches(IF v \in server.docks THEN server
                        ELSE EnterWorkspace(server, server.ws[v]))
         \/ FocusWindow(v) /\ Switches(EnterWorkspace(server, server.ws[v]))
         \/ (\E w \in Workspaces : MoveWindowToWorkspace(v, w)) /\ Leaves(v)
         \/ Retitle(v)
    \/ /\ \/ \E w \in 0 .. NWorkspaces + 1 : SetWorkspace(w)
          \/ FocusNext \/ FocusPrev \/ WorkspaceNext \/ WorkspacePrev \/ Unlock
       /\ MovesFocus
    \/ (NewSessionLock \/ LockDestroyed) /\ Sends({})
    \/ Bind \/ Unbind

WSpec == WInit /\ [][WNext]_<<server, mirror>>

-----------------------------------------------------------------------------
(***************************************************************************)
(* Properties.                                                             *)
(***************************************************************************)

\* PanelExact: the panel shows exactly the windows of the workspace it believes
\* to be shown, which is that, with their current flags; except a window whose
\* mapping it was not told of.  handle_view_map leaves the telling to focus_view,
\* which behind the lock returns before it tells anybody.
Windows == server.mapped \ (Skipped(server, named) \cup Popups \cup Modules \cup WinTabs)

PanelExact ==
    bound =>
        /\ workspace = server.cur
        /\ PanelShows \ missed = {v \in Windows \ missed : server.ws[v] = server.cur}
        /\ \A v \in Windows \ missed : v \in DOMAIN list /\ list[v] = State(server, v)
        /\ FocusOnMap \/ missed \subseteq Popups

\* OneFocused: of all entries, whatever their kind, the one of the active view and
\* no other is marked focused, through refocusing on every kind of departure.
OneFocused ==
    \A v \in DOMAIN list \ server.docks : list[v].focused <=> server.focused = v
=============================================================================
