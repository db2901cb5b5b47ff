-------------------------------- MODULE Geometry --------------------------------
(***************************************************************************)
(* Where windows are and how large: placement, interactive moves and       *)
(* resizes, fullscreen and maximized windows (aswlcomp_input.c,            *)
(* aswlcomp_view.c, aswlcomp_toplevel.c).                                  *)
(*                                                                         *)
(* One axis, the vertical one, where the title bar is and panels reserve   *)
(* space; the code treats the other by the same statements.  One output.   *)
(* A Wayland client is asked for a size and answers when it likes, with    *)
(* the size it likes; an X11 window's size is set at once.  What an X11    *)
(* client and a taskbar request, they may request at any moment.           *)
(***************************************************************************)
EXTENDS Integers, FiniteSets

CONSTANTS
    Views, None,
    Xwayland,           \* those that are X11 windows
    Buttons,            \* "left" moves and "right" resizes, with Alt
    Height, Top,        \* the output, and where its usable part begins
    Title, Border,      \* view_get_deco_metrics
    Fallback,           \* the height of an X11 window that has none (400)
    Inset, Step, Wrap,  \* cascade placement (40, 32, 256)
    MinHeight,          \* the least content height the Wayland clients allow
    Sizes,              \* content heights clients choose
    Cursors,            \* pointer positions
    Places,             \* positions X11 clients ask for
    Margin,             \* bound: how far above the output windows are moved
    MaxEvents           \* bound: requests, grabs, windows that come and go

ASSUME GeometryAssumption ==
    /\ Xwayland \subseteq Views /\ None \notin Views \cup Buttons
    /\ None \notin [y : Int, h : Nat]
    /\ {Height, Top, Title, Border, Fallback, Inset, Step, Wrap, Margin, MaxEvents} \subseteq Nat
    /\ Top < Height /\ Fallback > 1 /\ Step <= Wrap /\ Step > 0
    /\ MinHeight \in Nat /\ Sizes \subseteq Nat \ {0} /\ Sizes # {}
    /\ Cursors \cup Places \subseteq 0..Height

\* The edges dragged, as far as they matter on this axis: with the left edge too
\* the position is set as well.
Edges == {{"top"}, {"bottom"}, {"bottom", "left"}}
Trim == Title + Border
Frame(h) == h + Trim
AtLeast(n, least) == IF n < least THEN least ELSE n

\* history: what the properties remember.  home is the geometry a window had
\* when it was last neither fullscreen nor maximized; steady, that the window was
\* mapped when it left it, nothing moved or resized it since, and it had that size
\* again whenever its geometry was saved anew.
VARIABLES
    view,       \* struct aswl_view, and what its client has been told
    grab,       \* cursor_mode, grabbed_view, grab_*
    cursor,     \* the pointer
    down,       \* buttons held
    origin,     \* the window the first of them was pressed on: the seat's grab serial
    cascade,    \* cascade_offset
    events,
    home, steady,
    overtaken,  \* history: what of its geometry the grabbed window was given by someone
                \* else, and no motion has taken back
    superseded, \* history: windows whose resize was replaced by another grab
    skewed      \* history: X11 windows resized while overtaken
vars == <<view, grab, cursor, down, origin, cascade, events, home, steady,
          overtaken, superseded, skewed>>
history == <<home, steady, overtaken, superseded, skewed>>

New == [scened |-> FALSE, mapped |-> FALSE, placed |-> FALSE, y |-> 0, h |-> 1, asked |-> 0, acked |-> TRUE,
        xy |-> 0, saved |-> None, full |-> FALSE, max |-> FALSE,
        wfull |-> FALSE, wmax |-> FALSE, resizing |-> FALSE]
NoGrab == [mode |-> "passthrough", view |-> None, button |-> None, edges |-> {},
           ly |-> 0, vy |-> 0, vh |-> 0, x11 |-> FALSE]

Init ==
    /\ view = [v \in Views |-> New]
    /\ grab = NoGrab
    /\ cursor \in Cursors
    /\ down = {}
    /\ origin = None
    /\ cascade = 0
    /\ events = 0
    /\ home = [v \in Views |-> None]
    /\ steady = [v \in Views |-> FALSE]
    /\ overtaken = {}
    /\ superseded = {}
    /\ skewed = {}

-----------------------------------------------------------------------------
\* One window

\* r is v's record.  A size is asked of a Wayland client and set on an X11 one.
Sized(v, r, h) ==
    IF v \in Xwayland THEN [r EXCEPT !.asked = h, !.h = h]
                      ELSE [r EXCEPT !.asked = h, !.acked = FALSE]
Positioned(r, y) == [r EXCEPT !.y = y]
\* wlr_xwayland_surface_configure names the content's position on the screen.
Configured(v, r, y, h) ==
    LET s == Sized(v, r, h) IN IF v \in Xwayland THEN [s EXCEPT !.xy = y + Title] ELSE s

\* An X11 window has a scene tree from associate to dissociate, mapped or not.
HasScene(v, r) == v \in Xwayland => r.scened

ApplyGeometry(v, r, y, fh) ==
    IF HasScene(v, r)
    THEN Configured(v, [Positioned(r, y) EXCEPT !.placed = TRUE], y, AtLeast(fh - Trim, 1))
    ELSE r

\* Fault: a second state saves over what the first has saved.
SaveGeometryAgain(v, r) ==
    IF HasScene(v, r) THEN [r EXCEPT !.saved = [y |-> r.y, h |-> Frame(AtLeast(r.h, 1))]] ELSE r
SaveGeometry(v, r) ==
    IF r.saved = None /\ HasScene(v, r)
    THEN [r EXCEPT !.saved = [y |-> r.y, h |-> Frame(AtLeast(r.h, 1))]]
    ELSE r

\* Fault: the saved geometry is used again later.
RestoreGeometryKeeps(v, r) ==
    IF r.saved = None THEN r ELSE ApplyGeometry(v, r, r.saved.y, r.saved.h)
RestoreGeometry(v, r) ==
    IF r.saved = None THEN r
    ELSE [ApplyGeometry(v, r, r.saved.y, r.saved.h) EXCEPT !.saved = None]

Flagged(v, r, kind, on) ==
    LET s == IF kind = "full" THEN [r EXCEPT !.wfull = on] ELSE [r EXCEPT !.wmax = on]
    IN  IF v \in Xwayland THEN [s EXCEPT !.full = s.wfull, !.max = s.wmax]
                          ELSE [s EXCEPT !.acked = FALSE]

\* view_set_fullscreen, view_set_maximized
SetState(v, r, kind, on) ==
    LET box == IF kind = "full" THEN 0 ELSE Top
    IN  IF on THEN ApplyGeometry(v, Flagged(v, SaveGeometry(v, r), kind, TRUE), box, Height - box)
              ELSE RestoreGeometry(v, Flagged(v, r, kind, FALSE))

\* Where place_view puts a frame of height fh.  Fault: a frame that does not fit
\* below the cascade offset stays there.
PlaceAtCascadeOnly(fh) == AtLeast(Top + Inset + cascade, Top)
PlaceAt(fh) ==
    LET bottom == Height - fh
        wished == Top + Inset + cascade
        y == AtLeast(IF wished > bottom THEN Top + Inset ELSE wished, Top)
    IN  IF y > bottom THEN bottom ELSE y

\* Clients that name no size yet are not to become invisible.
Usable(h) == IF h <= 1 THEN Fallback ELSE h
PlaceView(v, r) ==
    IF r.placed THEN r
    ELSE LET h == IF v \in Xwayland THEN Usable(r.h) ELSE AtLeast(r.h, 1)
             y == PlaceAt(Frame(h))
             s == [Positioned(r, y) EXCEPT !.placed = TRUE]
         IN  IF v \in Xwayland THEN Configured(v, s, y, h) ELSE s

NextCascade == IF cascade + Step >= Wrap THEN 0 ELSE cascade + Step

-----------------------------------------------------------------------------
\* Grabs

Happens == events < MaxEvents /\ events' = events + 1

Resizes(g, v) == g.mode = "resize" /\ g.view = v
Told(v, r, on) == IF v \in Xwayland THEN r ELSE [r EXCEPT !.resizing = on, !.acked = FALSE]

\* The views after end_interactive; the grab is then NoGrab.
\* Fault: the client is not told that the resize is over.
EndedUntold(views) == views
Ended(views) ==
    IF grab.mode = "resize"
    THEN [views EXCEPT ![grab.view] = Told(grab.view, @, FALSE)]
    ELSE views

\* begin_interactive does not end the grab it replaces.
BeginInteractive(v, mode, edges, button, x11) ==
    /\ grab' = [mode |-> mode, view |-> v, button |-> button, edges |-> edges, ly |-> cursor,
                vy |-> view[v].y, vh |-> Frame(AtLeast(view[v].h, 1)), x11 |-> x11]
    /\ view' = IF mode = "resize" THEN [view EXCEPT ![v] = Told(v, @, TRUE)] ELSE view
    /\ overtaken' = {}
    /\ superseded' = LET left == superseded \cup (IF grab.mode = "resize" THEN {grab.view} ELSE {})
                     IN  IF mode = "resize" THEN left \ {v} ELSE left
    /\ Happens
    /\ UNCHANGED <<cursor, cascade, home, steady, skewed>>

\* process_cursor_motion with the pointer at c: the grabbed view's new record.
\* Fault: the X11 client is not told where its window is.
MovedUntold(c) == Positioned(view[grab.view], grab.vy + (c - grab.ly))
Moved(c) ==
    LET v == grab.view
        y == grab.vy + (c - grab.ly)
        r == Positioned(view[v], y)
    IN  IF v \in Xwayland THEN Configured(v, r, y, AtLeast(grab.vh - Trim, 1)) ELSE r

Least(v) == Frame(IF v \in Xwayland THEN 1 ELSE AtLeast(MinHeight, 1))
Wished(dy) == CASE "top" \in grab.edges -> grab.vh - dy
                [] "bottom" \in grab.edges -> grab.vh + dy
                [] OTHER -> grab.vh
ResizedTo(y, fh) ==
    LET v == grab.view
        r == IF grab.edges \cap {"top", "left"} # {} THEN Positioned(view[v], y) ELSE view[v]
    IN  Configured(v, r, y, AtLeast(fh - Trim, 1))

\* Fault: at the minimum the edge not dragged is pushed along.
ResizedPushing(c) ==
    ResizedTo(IF "top" \in grab.edges THEN grab.vy + (c - grab.ly) ELSE grab.vy,
              AtLeast(Wished(c - grab.ly), Least(grab.view)))
Resized(c) ==
    LET fh == AtLeast(Wished(c - grab.ly), Least(grab.view))
    IN  ResizedTo(IF "top" \in grab.edges THEN grab.vy + grab.vh - fh ELSE grab.vy, fh)

-----------------------------------------------------------------------------
\* What the history records

Expanded(r) == r.wfull \/ r.wmax

\* v's record changes to r; moved if a grab or the client's own request did it.
\* One of two states that is left restores and forgets what is saved, so that
\* entering it again saves anew, perhaps before the client has answered.
Note(v, r, moved) ==
    /\ home' = [home EXCEPT ![v] =
                  CASE ~Expanded(r) -> None
                    [] Expanded(r) /\ Expanded(view[v]) -> @
                    [] OTHER -> [y |-> view[v].y, h |-> view[v].h]]
    /\ steady' = [steady EXCEPT ![v] =
                    /\ Expanded(r) /\ view[v].mapped /\ ~moved
                    /\ Expanded(view[v]) => @
                    /\ view[v].saved = None /\ r.saved # None => view[v].h = home'[v].h]

Unskewed(v, r) == IF r.xy = r.y + Title THEN skewed \ {v} ELSE skewed

\* v's record becomes r; the grab, if it has v, loses hold of what is named.
Becomes(v, r, moved, what) ==
    /\ view' = [view EXCEPT ![v] = r]
    /\ overtaken' = overtaken \cup (IF grab.view = v /\ r # view[v] THEN what ELSE {})
    /\ Note(v, r, moved)
    /\ skewed' = Unskewed(v, r)
    /\ UNCHANGED superseded

-----------------------------------------------------------------------------
\* Windows

\* Until it maps a Wayland client has only been asked to choose a size, whatever it
\* requested; it then comes with the size it chose.
WaylandArrival(r, h) ==
    [r EXCEPT !.asked = 0, !.acked = TRUE, !.h = h, !.full = r.wfull, !.max = r.wmax]
Arrivals(v) ==
    LET r == [view[v] EXCEPT !.mapped = TRUE]
    IN  IF v \in Xwayland THEN {r}
        ELSE {WaylandArrival(r, h) : h \in {s \in Sizes : s >= MinHeight}}

\* A new X11 window comes with the position and the size its client gave it, and is
\* placed unless it was given a position.
Requested(r, y, h) ==
    [r EXCEPT !.xy = y, !.h = h, !.asked = h, !.placed = @ \/ y # 0,
              !.y = IF r.scened THEN y - Title ELSE @]
MapRequest(v) ==
    /\ v \in Xwayland /\ ~view[v].mapped
    /\ \E y \in IF view[v] = New THEN Places ELSE {view[v].xy},
          h \in IF view[v] = New THEN Sizes ELSE {view[v].h} :
         Becomes(v, Requested(view[v], y, Usable(h)), TRUE, {"position", "size"})
    /\ UNCHANGED <<grab, cursor, down, origin, cascade, events>>

\* The X11 window gets its surface, and with it a scene tree.
Associate(v) ==
    /\ v \in Xwayland /\ view[v] # New /\ ~view[v].scened
    /\ Becomes(v, [view[v] EXCEPT !.scened = TRUE, !.y = view[v].xy - Title,
                                  !.asked = view[v].h], TRUE, {})
    /\ UNCHANGED <<grab, cursor, down, origin, cascade, events>>

Map(v) ==
    /\ ~view[v].mapped /\ HasScene(v, view[v])
    /\ Happens
    /\ \E r \in Arrivals(v) :
         /\ Becomes(v, PlaceView(v, r), TRUE,
                    IF v \in Xwayland /\ r.placed THEN {} ELSE {"position", "size"})
         /\ cascade' = IF r.placed THEN cascade ELSE NextCascade
    /\ UNCHANGED <<grab, cursor, down, origin>>

\* end_interactive, called from wherever a grab ends
EndInteractive ==
    /\ grab' = NoGrab
    /\ overtaken' = {}
    /\ superseded' = IF grab.mode = "resize" THEN superseded \ {grab.view} ELSE superseded

\* An X11 window that is withdrawn keeps its record; a Wayland window that goes
\* away is destroyed.
Gone(v, r) ==
    /\ view' = [(IF grab.view = v THEN Ended(view) ELSE view) EXCEPT ![v] = r]
    /\ grab' = IF grab.view = v THEN NoGrab ELSE grab
    /\ overtaken' = IF grab.view = v THEN {} ELSE overtaken
    /\ superseded' = superseded \ {v}
    /\ origin' = IF origin = v THEN None ELSE origin
    /\ home' = [home EXCEPT ![v] = IF Expanded(r) THEN @ ELSE None]
    /\ steady' = [steady EXCEPT ![v] = FALSE]
    /\ skewed' = IF r.scened THEN skewed ELSE skewed \ {v}
    /\ Happens
    /\ UNCHANGED <<cursor, down, cascade>>
Unmap(v) == v \in Xwayland /\ view[v].mapped /\ Gone(v, [view[v] EXCEPT !.mapped = FALSE])
Dissociate(v) ==
    /\ v \in Xwayland /\ view[v].scened /\ ~view[v].mapped
    /\ Gone(v, [view[v] EXCEPT !.scened = FALSE])
Destroy(v) == view[v] # New /\ Gone(v, New)

\* A Wayland client answers for the last configure, with the size it likes.
Commit(v) ==
    /\ v \notin Xwayland /\ view[v].mapped /\ ~view[v].acked
    /\ \E h \in ({view[v].asked} \ {0}) \cup {s \in Sizes : s >= MinHeight} :
         LET r == [view[v] EXCEPT !.h = h, !.acked = TRUE,
                                  !.full = view[v].wfull, !.max = view[v].wmax]
         IN  view' = [view EXCEPT ![v] = r]
    /\ UNCHANGED <<grab, cursor, down, origin, cascade, events, history>>

\* Requests of the client and of taskbars; they do not end a grab.
RequestState(v, kind, on) ==
    /\ Happens
    /\ Becomes(v, SetState(v, view[v], kind, on), FALSE, {"position", "size"})
    /\ UNCHANGED <<grab, cursor, down, origin, cascade>>

\* The key ends any grab, whatever window has the focus; the control protocol ends
\* one of the focused view, and wants it mapped.  What is toggled is the state the
\* client has answered for.
Toggle(v, kind) ==
    /\ Happens
    /\ LET on == ~(IF kind = "full" THEN view[v].full ELSE view[v].max) IN
       \E ends \in {TRUE} \cup (IF view[v].mapped THEN {grab.view = v} ELSE {}) :
         LET base == IF ends THEN Ended(view) ELSE view
             r == SetState(v, base[v], kind, on)
         IN  /\ view' = [base EXCEPT ![v] = r]
             /\ IF ends THEN EndInteractive ELSE UNCHANGED <<grab, overtaken, superseded>>
             /\ Note(v, r, FALSE)
             /\ skewed' = Unskewed(v, r)
    /\ UNCHANGED <<cursor, down, origin, cascade>>

\* An X11 ConfigureWindow, of which y and h may be what they were; the position
\* is not accepted during a grab.
Content(v) == IF HasScene(v, view[v]) THEN view[v].y + Title ELSE view[v].xy
ConfiguredAt(v, y, h) ==
    LET r == IF y = Content(v) \/ ~HasScene(v, view[v]) THEN view[v]
             ELSE [Positioned(view[v], y - Title) EXCEPT !.placed = TRUE]
    IN  [Sized(v, r, Usable(h)) EXCEPT !.xy = y]
ConfiguredAs(v, y, h) == ConfiguredAt(v, IF grab.view = v THEN Content(v) ELSE y, h)

RequestConfigure(v) ==
    /\ v \in Xwayland
    /\ Happens
    /\ \E y \in Places \cup {Content(v)}, h \in Sizes \cup {view[v].h} :
         Becomes(v, ConfiguredAs(v, y, h), TRUE, {"size"})
    /\ UNCHANGED <<grab, cursor, down, origin, cascade>>

-----------------------------------------------------------------------------
\* The pointer

Over(v) == view[v].mapped /\ cursor >= view[v].y /\ cursor < view[v].y + Frame(view[v].h)
OnContent(v) == cursor >= view[v].y + Title /\ cursor < view[v].y + Title + view[v].h

Pressed(b, v) ==
    /\ b \notin down
    /\ down' = down \cup {b}
    /\ origin' = IF down = {} THEN v ELSE origin

\* A press that starts no grab, on a window's content or elsewhere
Press(b) ==
    /\ \E v \in {w \in Views : Over(w) /\ OnContent(w)} \cup {None} : Pressed(b, v)
    /\ Happens
    /\ UNCHANGED <<view, grab, cursor, cascade, history>>

\* Alt and a button
AltPress(v, b) ==
    /\ Over(v)
    /\ Pressed(b, IF OnContent(v) THEN v ELSE None)
    /\ IF b = "left"
       THEN BeginInteractive(v, "move", {}, b, FALSE)
       ELSE \E edges \in Edges :
              /\ "top" \in edges <=> cursor - view[v].y < Frame(view[v].h) \div 2
              /\ BeginInteractive(v, "resize", edges, b, FALSE)

\* Fault: a grab that a client asked for does not end.
ReleasedGrabsButton(b) == grab.mode # "passthrough" /\ grab.button = b
ReleaseEnds(b) == grab.mode # "passthrough" /\ grab.button \in {None, b}

Release(b) ==
    /\ b \in down
    /\ down' = down \ {b}
    /\ origin' = IF down = {b} THEN None ELSE origin
    /\ IF ReleaseEnds(b)
       THEN EndInteractive /\ view' = Ended(view)
       ELSE UNCHANGED <<view, grab, overtaken, superseded>>
    /\ UNCHANGED <<cursor, cascade, events, home, steady, skewed>>

\* A grab that ends because its window leaves the screen or the session is locked
Interrupt ==
    /\ grab.mode # "passthrough"
    /\ EndInteractive
    /\ view' = Ended(view)
    /\ UNCHANGED <<cursor, down, origin, cascade, events, home, steady, skewed>>

\* A Wayland client's request names the press it answers.
RequestInteractive(v, mode, edges) ==
    /\ v \notin Xwayland
    /\ Cardinality(down) = 1 /\ origin = v
    /\ BeginInteractive(v, mode, edges, None, FALSE)
    /\ UNCHANGED <<down, origin>>

\* An X11 client's names none, and the window need not be mapped.  Without a scene
\* tree begin_interactive dereferences NULL, and the program ends.
XwaylandRequestInteractive(v, mode, edges) ==
    /\ v \in Xwayland /\ view[v].scened
    /\ BeginInteractive(v, mode, edges, None, TRUE)
    /\ UNCHANGED <<down, origin>>

Motion(c) ==
    /\ c # cursor
    /\ cursor' = c
    /\ IF grab.mode = "passthrough" THEN UNCHANGED <<view, history>>
       ELSE LET v == grab.view
                r == IF grab.mode = "move" THEN Moved(c) ELSE Resized(c)
            IN  /\ r.y \in (-Margin)..Height /\ r.asked <= Height
                /\ view' = [view EXCEPT ![v] = r]
                /\ Note(v, r, TRUE)
                /\ skewed' = IF v \in Xwayland /\ r.xy # r.y + Title /\ "position" \in overtaken
                             THEN skewed \cup {v} ELSE skewed
                /\ overtaken' = IF grab.mode = "move" \/ grab.edges \cap {"top", "left"} # {}
                                THEN {} ELSE overtaken \ {"size"}
                /\ UNCHANGED superseded
    /\ UNCHANGED <<grab, down, origin, cascade, events>>

-----------------------------------------------------------------------------
Next ==
    \/ \E v \in Views :
         \/ MapRequest(v) \/ Associate(v) \/ Map(v) \/ Unmap(v) \/ Dissociate(v) \/ Destroy(v)
         \/ Commit(v) \/ RequestConfigure(v)
         \/ \E kind \in {"full", "max"} :
              Toggle(v, kind) \/ \E on \in BOOLEAN : RequestState(v, kind, on)
         \/ \E b \in Buttons : AltPress(v, b)
         \/ RequestInteractive(v, "move", {}) \/ XwaylandRequestInteractive(v, "move", {})
         \/ \E edges \in Edges : \/ RequestInteractive(v, "resize", edges)
                                \/ XwaylandRequestInteractive(v, "resize", edges)
    \/ \E b \in Buttons : Press(b) \/ Release(b)
    \/ \E c \in Cursors : Motion(c)
    \/ Interrupt

Spec == Init /\ [][Next]_vars

-----------------------------------------------------------------------------
\* Properties

\* TypeOK: the shape of the state, and what a view's fields can be together: only
\* Wayland clients have something to answer for, and an X11 window on the scene has
\* the size it was last set to.  The grabbed window has a scene tree, mapped or not:
\* process_cursor_motion uses it without looking.
TypeOK ==
    /\ \A v \in Views :
         LET r == view[v] IN
         /\ r.y \in Int /\ r.xy \in Int /\ r.h \in Nat \ {0} /\ r.asked \in Nat
         /\ {r.scened, r.mapped, r.placed, r.acked, r.resizing} \subseteq BOOLEAN
         /\ r.acked => r.full = r.wfull /\ r.max = r.wmax
         /\ v \in Xwayland => r.acked /\ ~r.resizing /\ (r.scened => r.asked = r.h)
         /\ r.mapped => r.placed /\ HasScene(v, r)
    /\ grab.mode = "passthrough" <=> grab = NoGrab
    /\ grab.view \in Xwayland => view[grab.view].scened
    /\ cursor \in Cursors /\ down \subseteq Buttons
    /\ cascade \in 0..(Wrap - 1)
    /\ events \in 0..MaxEvents

\* GrabHolds: during a move the pointer stays on the point of the window where it
\* took hold.  During a resize the edge opposite to the dragged one stays, also at
\* the minimum size, when the window has the size it was last asked to have: an X11
\* window has it at once, a Wayland window once its client commits it, and one that
\* commits another size is off by the difference.  A position or a size that someone
\* else gives the window under the grab (a change of state, a placement, an X11
\* client's own size) lasts to the next motion, which takes it back; only dragging
\* the bottom edge alone sets no position, and leaves it (process_cursor_motion).
GrabHolds ==
    LET v == grab.view
        r == view[v]
    IN  /\ grab.mode = "move" /\ "position" \notin overtaken => r.y - cursor = grab.vy - grab.ly
        /\ grab.mode = "resize" /\ "position" \notin overtaken =>
             IF "top" \notin grab.edges THEN r.y = grab.vy
             ELSE \/ cursor = grab.ly /\ r.y = grab.vy
                  \/ "size" \in overtaken
                  \/ r.y + Frame(r.asked) = grab.vy + grab.vh /\ Frame(r.asked) >= Least(v)

\* GrabNeedsButton: no window sticks to the pointer with no button held, unless
\* an X11 client asked for the grab: its request names no press and may come late.
GrabNeedsButton ==
    grab.mode # "passthrough" /\ ~grab.x11 =>
        IF grab.button = None THEN down # {} ELSE grab.button \in down

\* ResizingTold: a Wayland client knows whether it is being resized; only one whose
\* resize was replaced by another grab is not told of its end (begin_interactive).
ResizingTold ==
    \A v \in Views \ Xwayland :
        /\ Resizes(grab, v) => view[v].resizing
        /\ view[v].resizing => Resizes(grab, v) \/ v \in superseded

\* X11Agrees: an X11 window is where its client was told it is, through placement,
\* moves, resizes and changes of state; only a resize that does not drag the top or
\* left edge, of a window made fullscreen or maximized meanwhile, separates them.
X11Agrees ==
    \A v \in Xwayland : view[v].scened => view[v].xy = view[v].y + Title \/ v \in skewed

\* RestoredHome: a window that ends being both fullscreen and maximized, in whatever
\* order it became so and through whichever request, is back where it was and has
\* the size it had; unless it was moved or resized since, or became one of them
\* again, while the other, before its client had taken the old size
\* (view_save_geometry saves the size the client has).
RestoredHome ==
    [][\A v \in Views :
         Expanded(view[v]) /\ view'[v].mapped /\ ~Expanded(view'[v]) /\ steady[v]
         => view'[v].y = home[v].y /\ view'[v].asked = home[v].h]_vars

\* SavedOnlyExpanded: no geometry is kept for a window that is neither fullscreen
\* nor maximized; a later state would not be saved and would end at the old place.
SavedOnlyExpanded == \A v \in Views : view[v].saved # None => Expanded(view[v])

\* Consistent: the fields of a window and of the grab are never in a combination
\* that the handlers do not expect.
Consistent == TypeOK /\ SavedOnlyExpanded

\* PlacedInView: a window that the compositor places lies in the usable part of the
\* output, at every cascade offset, if it fits into it.
PlacedInView ==
    [][\A v \in Views :
         LET r == view'[v] IN
         cascade' # cascade /\ ~view[v].mapped /\ r.mapped /\ Frame(r.h) <= Height - Top
         => r.y >= Top /\ r.y + Frame(r.h) <= Height]_vars

=============================================================================
