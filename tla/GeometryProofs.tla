---------------------------- MODULE GeometryProofs ----------------------------
(***************************************************************************)
(* Proofs about module Geometry, for any windows, sizes of the output and  *)
(* of decorations, pointer positions and numbers of events.                *)
(***************************************************************************)
EXTENDS Geometry, FiniteSetTheorems, TLAPS

Box == [y : Int, h : Nat]
View == [scened : BOOLEAN, mapped : BOOLEAN, placed : BOOLEAN, y : Int, h : Nat \ {0}, asked : Nat,
         acked : BOOLEAN, xy : Int, saved : {None} \cup Box, full : BOOLEAN, max : BOOLEAN,
         wfull : BOOLEAN, wmax : BOOLEAN, resizing : BOOLEAN]
Grab == [mode : {"passthrough", "move", "resize"}, view : Views \cup {None},
         button : Buttons \cup {None}, edges : {{}} \cup Edges, ly : Int, vy : Int, vh : Int,
         x11 : BOOLEAN]

\* What is said of one window's record, in between the steps of a handler and
\* after them.
Sound(v, r) ==
    /\ r \in View
    /\ r.acked => r.full = r.wfull /\ r.max = r.wmax
    /\ v \in Xwayland => r.acked /\ ~r.resizing /\ (r.scened => r.asked = r.h)
    /\ r.mapped => r.placed /\ (v \in Xwayland => r.scened)
Kept(r, s) ==
    /\ s.saved = r.saved /\ s.mapped = r.mapped /\ s.resizing = r.resizing
    /\ s.scened = r.scened
    /\ s.wfull = r.wfull /\ s.wmax = r.wmax
Whole(v, r) == Sound(v, r) /\ (r.saved # None => Expanded(r))

GrabTyped ==
    /\ grab \in Grab
    /\ grab.mode = "passthrough" => grab = NoGrab
    /\ grab.mode # "passthrough" => grab.view \in Views /\ HasScene(grab.view, view[grab.view])

Typed ==
    /\ view = [v \in Views |-> view[v]] /\ \A v \in Views : Whole(v, view[v])
    /\ GrabTyped
    /\ cursor \in Cursors /\ down \subseteq Buttons
    /\ cascade \in 0..(Wrap - 1)
    /\ events \in 0..MaxEvents
    /\ home \in [Views -> {None} \cup Box] /\ steady \in [Views -> BOOLEAN]

\* What will be restored, or already is because the other state was left, is home.
AtHome(r, b) ==
    /\ Expanded(r) /\ b \in Box /\ b.h > 0
    /\ IF r.saved = None THEN r.y = b.y /\ r.asked = b.h
                         ELSE r.saved = [y |-> b.y, h |-> Frame(b.h)]
HomeIsKept == \A v \in Views : steady[v] => AtHome(view[v], home[v])

(***************************************************************************)
(* The inductive invariant.  X11 windows stay where their clients believe  *)
(* them because a resize holds the edge opposite to the one dragged, and   *)
(* windows come home because what is saved is what they had.               *)
(***************************************************************************)
IInv ==
    /\ Typed
    /\ GrabHolds
    /\ GrabNeedsButton
    /\ ResizingTold
    /\ X11Agrees
    /\ HomeIsKept

-----------------------------------------------------------------------------
\* One window

LEMMA Numbers ==
    /\ Height \in Nat /\ Top \in Nat /\ Title \in Nat /\ Border \in Nat /\ Fallback \in Nat
    /\ Inset \in Nat /\ Step \in Nat /\ Wrap \in Nat /\ Margin \in Nat /\ MaxEvents \in Nat
    /\ MinHeight \in Nat /\ Trim \in Nat /\ Trim = Title + Border
    /\ Fallback > 1 /\ Step > 0 /\ Step <= Wrap /\ Top < Height
    /\ \A s \in Sizes : s \in Nat /\ s > 0
    /\ \A c \in Cursors \cup Places : c \in Nat
BY GeometryAssumption DEF Trim

LEMMA ConfiguredIs ==
    ASSUME NEW v, NEW r, Sound(v, r), NEW y \in Int, NEW h \in Nat \ {0}
    PROVE  LET s == Configured(v, r, y, h) IN
           /\ Sound(v, s)
           /\ s.y = r.y /\ s.asked = h
           /\ s.h = IF v \in Xwayland THEN h ELSE r.h
           /\ s.xy = IF v \in Xwayland THEN y + Title ELSE r.xy
           /\ r.placed => s.placed
           /\ Kept(r, s)
<1> USE DEF Kept
<1>1. CASE v \in Xwayland
  <2>1. Configured(v, r, y, h) = [r EXCEPT !.asked = h, !.h = h, !.xy = y + Title]
    BY <1>1 DEF Configured, Sized, Sound, View
  <2>2. y + Title \in Int
    BY Numbers
  <2> QED
    BY <1>1, <2>1, <2>2, ZenonT(60) DEF Sound, View
<1>2. CASE v \notin Xwayland
  <2>1. Configured(v, r, y, h) = [r EXCEPT !.asked = h, !.acked = FALSE]
    BY <1>2 DEF Configured, Sized
  <2> QED
    BY <1>2, <2>1 DEF Sound, View
<1> QED
  BY <1>1, <1>2

LEMMA ApplyGeometryIs ==
    ASSUME NEW v, NEW r, Sound(v, r), NEW y \in Int, NEW fh \in Int
    PROVE  LET s == ApplyGeometry(v, r, y, fh) IN
           /\ Sound(v, s) /\ Kept(r, s)
           /\ IF HasScene(v, r)
              THEN /\ s.y = y /\ s.asked = AtLeast(fh - Trim, 1)
                   /\ v \in Xwayland => s.xy = s.y + Title
              ELSE s = r
<1> DEFINE p == [Positioned(r, y) EXCEPT !.placed = TRUE]
           h == AtLeast(fh - Trim, 1)
<1>1. CASE ~HasScene(v, r)
  BY <1>1 DEF ApplyGeometry, Kept
<1>2. CASE HasScene(v, r)
  <2>1. h \in Nat \ {0}
    BY Numbers DEF AtLeast
  <2>2. Sound(v, p) /\ p.y = y /\ Kept(r, p)
    BY DEF Positioned, Sound, View, Kept
  <2> HIDE DEF p, h
  <2>3. LET s == Configured(v, p, y, h) IN
        /\ Sound(v, s)
        /\ s.y = p.y /\ s.asked = h
        /\ s.xy = IF v \in Xwayland THEN y + Title ELSE p.xy
        /\ Kept(p, s)
    BY <2>1, <2>2, ConfiguredIs
  <2> QED
    BY <1>2, <2>2, <2>3 DEF ApplyGeometry, Kept, p, h
<1> QED
  BY <1>1, <1>2

\* The geometry a window has, as view_save_geometry notes it.
Here(r) == [y |-> r.y, h |-> Frame(AtLeast(r.h, 1))]

LEMMA SaveGeometryIs ==
    ASSUME NEW v, NEW r, Sound(v, r)
    PROVE  /\ Sound(v, SaveGeometry(v, r))
           /\ SaveGeometry(v, r) =
                [r EXCEPT !.saved = IF r.saved = None /\ HasScene(v, r) THEN Here(r) ELSE @]
<1>1. Here(r) \in Box
  BY Numbers DEF Here, Sound, View, Box, Frame, AtLeast
<1> QED
  BY <1>1 DEF SaveGeometry, Sound, View, Here

LEMMA FlaggedIs ==
    ASSUME NEW v, NEW r, Sound(v, r), NEW kind \in {"full", "max"}, NEW on \in BOOLEAN
    PROVE  LET s == Flagged(v, r, kind, on) IN
           /\ Sound(v, s)
           /\ s.wfull = (IF kind = "full" THEN on ELSE r.wfull)
           /\ s.wmax = (IF kind = "full" THEN r.wmax ELSE on)
           /\ s.y = r.y /\ s.xy = r.xy /\ s.h = r.h /\ s.asked = r.asked
           /\ s.saved = r.saved /\ s.mapped = r.mapped /\ s.resizing = r.resizing
           /\ s.scened = r.scened
<1> USE DEF Flagged, Sound, View
<1>1. CASE v \in Xwayland
  BY <1>1
<1>2. CASE v \notin Xwayland
  BY <1>2
<1> QED
  BY <1>1, <1>2

LEMMA RestoreGeometryIs ==
    ASSUME NEW v, NEW r, Sound(v, r)
    PROVE  LET s == RestoreGeometry(v, r) IN
           /\ Sound(v, s) /\ s.saved = None
           /\ s.mapped = r.mapped /\ s.resizing = r.resizing /\ s.scened = r.scened
           /\ s.wfull = r.wfull /\ s.wmax = r.wmax
           /\ IF r.saved # None /\ HasScene(v, r)
              THEN /\ s.y = r.saved.y /\ s.asked = AtLeast(r.saved.h - Trim, 1)
                   /\ v \in Xwayland => s.xy = s.y + Title
              ELSE s.y = r.y /\ s.asked = r.asked /\ s.xy = r.xy
<1>1. CASE r.saved = None
  BY <1>1 DEF RestoreGeometry
<1>2. CASE r.saved # None
  <2> DEFINE a == ApplyGeometry(v, r, r.saved.y, r.saved.h)
  <2>1. r.saved.y \in Int /\ r.saved.h \in Int
    BY <1>2 DEF Sound, View, Box
  <2>2. /\ Sound(v, a) /\ Kept(r, a)
        /\ IF HasScene(v, r)
           THEN /\ a.y = r.saved.y /\ a.asked = AtLeast(r.saved.h - Trim, 1)
                /\ v \in Xwayland => a.xy = a.y + Title
           ELSE a = r
    BY <2>1, ApplyGeometryIs
  <2>3. RestoreGeometry(v, r) = [a EXCEPT !.saved = None]
    BY <1>2 DEF RestoreGeometry
  <2> HIDE DEF a
  <2> QED
    BY <1>2, <2>2, <2>3 DEF Sound, View, Kept
<1> QED
  BY <1>1, <1>2

\* view_set_fullscreen and view_set_maximized.  Leaving a state restores what is
\* saved, so that nothing is saved of a window that is in neither.
LEMMA SetStateIs ==
    ASSUME NEW v, NEW r, Whole(v, r), NEW kind \in {"full", "max"}, NEW on \in BOOLEAN
    PROVE  LET s == SetState(v, r, kind, on) IN
           /\ Whole(v, s)
           /\ s.mapped = r.mapped /\ s.resizing = r.resizing /\ s.scened = r.scened
           /\ on => /\ Expanded(s)
                    /\ r.saved = None /\ HasScene(v, r) => s.saved = Here(r)
                    /\ r.saved # None => s.saved = r.saved
           /\ ~on => /\ s.saved = None
                     /\ Expanded(s) => Expanded(r)
                     /\ IF r.saved # None /\ HasScene(v, r)
                        THEN s.y = r.saved.y /\ s.asked = AtLeast(r.saved.h - Trim, 1)
                        ELSE s.y = r.y /\ s.asked = r.asked
           /\ v \in Xwayland /\ r.scened /\ r.xy = r.y + Title => s.xy = s.y + Title
<1> DEFINE s == SetState(v, r, kind, on)
           box == IF kind = "full" THEN 0 ELSE Top
<1>1. CASE on = TRUE
  <2> DEFINE sv == SaveGeometry(v, r)
             f == Flagged(v, sv, kind, on)
  <2>1. /\ Sound(v, sv) /\ sv.mapped = r.mapped /\ sv.resizing = r.resizing
        /\ sv.scened = r.scened
        /\ sv.saved = IF r.saved = None /\ HasScene(v, r) THEN Here(r) ELSE r.saved
    BY SaveGeometryIs DEF Whole, Sound, View
  <2> HIDE DEF sv
  <2>2. /\ Sound(v, f) /\ f.mapped = r.mapped /\ f.resizing = r.resizing
        /\ f.saved = sv.saved /\ f.scened = r.scened
        /\ f.wfull = (IF kind = "full" THEN on ELSE sv.wfull)
        /\ f.wmax = (IF kind = "full" THEN sv.wmax ELSE on)
    BY <2>1, FlaggedIs
  <2> HIDE DEF f
  <2>3. box \in Int /\ Height - box \in Int
    BY Numbers
  <2>4. s = ApplyGeometry(v, f, box, Height - box)
    BY <1>1 DEF SetState, sv, f
  <2> HIDE DEF s, box
  <2>5. /\ Sound(v, s) /\ Kept(f, s)
        /\ HasScene(v, f) => (v \in Xwayland => s.xy = s.y + Title)
    BY <2>2, <2>3, <2>4, ApplyGeometryIs
  <2>6. v \in Xwayland /\ r.scened => s.xy = s.y + Title
    BY <2>2, <2>5 DEF HasScene, Kept
  <2> QED
    BY <1>1, <2>1, <2>2, <2>5, <2>6, ZenonT(60) DEF Whole, Expanded, Kept, Sound, View, s
<1>2. CASE on = FALSE
  <2> DEFINE f == Flagged(v, r, kind, on)
  <2>1. /\ Sound(v, f) /\ f.mapped = r.mapped /\ f.resizing = r.resizing /\ f.saved = r.saved
        /\ f.y = r.y /\ f.xy = r.xy /\ f.asked = r.asked /\ f.scened = r.scened
    BY FlaggedIs DEF Whole
  <2>4. Expanded(f) => Expanded(r)
    BY <1>2 DEF Expanded, Flagged, Whole, Sound, View
  <2>2. s = RestoreGeometry(v, f)
    BY <1>2 DEF SetState
  <2> HIDE DEF f, s
  <2>3. /\ Sound(v, s) /\ s.saved = None /\ s.mapped = r.mapped /\ s.resizing = r.resizing
        /\ s.scened = r.scened
        /\ IF r.saved # None /\ HasScene(v, r)
           THEN /\ s.y = r.saved.y /\ s.asked = AtLeast(r.saved.h - Trim, 1)
                /\ v \in Xwayland => s.xy = s.y + Title
           ELSE s.y = r.y /\ s.asked = r.asked /\ s.xy = r.xy
    BY <2>1, <2>2, RestoreGeometryIs DEF HasScene
  <2>5. Expanded(s) => Expanded(r)
    BY <2>1, <2>2, <2>4, RestoreGeometryIs DEF Expanded
  <2> QED
    BY <1>2, <2>3, <2>5 DEF Whole, s
<1> QED
  BY <1>1, <1>2

LEMMA CascadeWraps == cascade \in 0..(Wrap - 1) => NextCascade \in 0..(Wrap - 1)
BY Numbers DEF NextCascade

\* A frame that fits is placed within the usable part of the output.
LEMMA PlaceAtInView ==
    ASSUME cascade \in 0..(Wrap - 1), NEW fh \in Nat
    PROVE  /\ PlaceAt(fh) \in Int
           /\ fh <= Height - Top => PlaceAt(fh) >= Top /\ PlaceAt(fh) + fh <= Height
BY Numbers DEF PlaceAt, AtLeast

\* The content height a window is placed with
Measured(v, r) == IF v \in Xwayland THEN Usable(r.h) ELSE r.h

LEMMA PlaceViewIs ==
    ASSUME NEW v, NEW r, Sound(v, [r EXCEPT !.placed = TRUE]), r \in View,
           cascade \in 0..(Wrap - 1)
    PROVE  LET s == PlaceView(v, r) IN
           /\ Sound(v, s) /\ s.placed /\ Kept(r, s)
           /\ r.placed => s = r
           /\ ~r.placed => /\ s.h = Measured(v, r) /\ s.h \in Nat
                           /\ s.y = PlaceAt(Frame(s.h))
                           /\ v \in Xwayland => s.xy = s.y + Title
<1> DEFINE h == Measured(v, r)
           y == PlaceAt(Frame(h))
           p == [Positioned(r, y) EXCEPT !.placed = TRUE]
<1>1. AtLeast(r.h, 1) = r.h /\ h \in Nat \ {0} /\ Frame(h) \in Nat
      /\ (v \notin Xwayland => h = r.h)
  BY Numbers DEF AtLeast, View, Frame, Measured, Usable
<1>2. y \in Int
  BY <1>1, PlaceAtInView
<1>5. h = IF v \in Xwayland THEN Usable(r.h) ELSE AtLeast(r.h, 1)
  BY <1>1 DEF Measured
<1> HIDE DEF y, h
<1>3. CASE r.placed
  <2>1. [r EXCEPT !.placed = TRUE] = r
    BY <1>3 DEF View
  <2> QED
    BY <1>3, <2>1 DEF PlaceView, Kept
<1>4. CASE ~r.placed
  <2>1. Sound(v, p) /\ p.y = y /\ p.h = r.h /\ p.placed /\ Kept(r, p)
    BY <1>2 DEF Positioned, Sound, View, Kept
  <2>2. PlaceView(v, r) = IF v \in Xwayland THEN Configured(v, p, y, h) ELSE p
    BY <1>4, <1>5 DEF PlaceView, y
  <2> HIDE DEF p
  <2>3. LET s == Configured(v, p, y, h) IN
        /\ Sound(v, s)
        /\ s.y = p.y
        /\ s.placed
        /\ Kept(p, s)
    BY ONLY <1>1, <1>2, <2>1, ConfiguredIs
  <2>5. Configured(v, p, y, h).xy = IF v \in Xwayland THEN y + Title ELSE p.xy
    BY ONLY <1>1, <1>2, <2>1, ConfiguredIs
  <2>4. Configured(v, p, y, h).h = IF v \in Xwayland THEN h ELSE p.h
    BY <1>1, <1>2, <2>1, ConfiguredIs
  <2> QED
    BY <1>4, <2>1, <2>4, <1>1, <2>2, <2>3, <2>5 DEF Kept, y, h
<1> QED
  BY <1>3, <1>4

-----------------------------------------------------------------------------
\* All windows

Fine(f) == f = [v \in Views |-> f[v]] /\ \A v \in Views : Whole(v, f[v])

\* What being told of a resize leaves alone.
Alike(r, s) ==
    /\ s.saved = r.saved /\ s.mapped = r.mapped /\ s.placed = r.placed
    /\ s.scened = r.scened
    /\ s.wfull = r.wfull /\ s.wmax = r.wmax
    /\ s.y = r.y /\ s.h = r.h /\ s.asked = r.asked /\ s.xy = r.xy

LEMMA Replaced ==
    ASSUME NEW f, Fine(f), NEW v \in Views, NEW r, Whole(v, r)
    PROVE  /\ Fine([f EXCEPT ![v] = r])
           /\ [f EXCEPT ![v] = r][v] = r
           /\ \A u \in Views : u # v => [f EXCEPT ![v] = r][u] = f[u]
<1> DEFINE g == [f EXCEPT ![v] = r]
<1>1. g = [u \in Views |-> IF u = v THEN r ELSE f[u]]
  BY DEF Fine
<1> HIDE DEF g
<1>2. g = [u \in Views |-> g[u]]
  BY <1>1
<1>3. g[v] = r /\ \A u \in Views : u # v => g[u] = f[u]
  BY <1>1
<1>4. \A u \in Views : Whole(u, g[u])
  BY <1>3 DEF Fine
<1> QED
  BY <1>2, <1>3, <1>4 DEF Fine, g

LEMMA ToldIs ==
    ASSUME NEW v, NEW r, Whole(v, r), NEW on \in BOOLEAN
    PROVE  /\ Whole(v, Told(v, r, on)) /\ Alike(r, Told(v, r, on))
           /\ v \in Xwayland => Told(v, r, on) = r
           /\ v \notin Xwayland => Told(v, r, on).resizing = on
BY DEF Told, Whole, Sound, View, Alike, Expanded

\* end_interactive
LEMMA EndedIs ==
    ASSUME Typed
    PROVE  /\ Fine(Ended(view))
           /\ \A u \in Views :
                /\ Alike(view[u], Ended(view)[u])
                /\ u \in Xwayland => Ended(view)[u] = view[u]
                /\ u \notin Xwayland =>
                     Ended(view)[u].resizing = (view[u].resizing /\ ~Resizes(grab, u))
<1>1. Fine(view)
  BY DEF Typed, Fine
<1>2. CASE grab.mode # "resize"
  BY <1>1, <1>2 DEF Ended, Resizes, Alike, Fine, Whole, Sound, View
<1>3. CASE grab.mode = "resize"
  <2> DEFINE g == grab.view
             t == Told(g, view[g], FALSE)
  <2>1. g \in Views
    BY <1>3 DEF Typed, GrabTyped
  <2>2. Whole(g, t) /\ Alike(view[g], t) /\ (g \in Xwayland => t = view[g])
        /\ (g \notin Xwayland => t.resizing = FALSE)
    BY <1>1, <2>1, ToldIs DEF Fine
  <2>3. Ended(view) = [view EXCEPT ![g] = t]
    BY <1>1, <1>3, <2>1 DEF Ended, t, Fine
  <2> HIDE DEF g, t
  <2>4. /\ Fine(Ended(view)) /\ Ended(view)[g] = t
        /\ \A u \in Views : u # g => Ended(view)[u] = view[u]
    <3>1. Whole(g, t)
      BY <2>2
    <3>2. Fine([view EXCEPT ![g] = t])
      BY ONLY <1>1, <2>1, <3>1, Replaced
    <3>3. [view EXCEPT ![g] = t][g] = t
      BY <1>1, <2>1 DEF Fine
    <3>4. \A u \in Views : u # g => [view EXCEPT ![g] = t][u] = view[u]
      BY <1>1, <2>1 DEF Fine
    <3> QED
      BY <2>3, <3>2, <3>3, <3>4
  <2>5. ASSUME NEW u \in Views
        PROVE  /\ Alike(view[u], Ended(view)[u])
               /\ u \in Xwayland => Ended(view)[u] = view[u]
               /\ u \notin Xwayland =>
                     Ended(view)[u].resizing = (view[u].resizing /\ ~Resizes(grab, u))
    <3>1. CASE u = g
      BY <1>3, <2>2, <2>4, <3>1 DEF Resizes, g
    <3>2. CASE u # g
      BY <1>1, <2>4, <3>2 DEF Resizes, Alike, Fine, Whole, Sound, View, g
    <3> QED
      BY <3>1, <3>2
  <2> QED
    BY <2>4, <2>5
<1> QED
  BY <1>2, <1>3

-----------------------------------------------------------------------------
\* What the grab holds is held as long as neither pointer nor window moves.
LEMMA StillHeld ==
    ASSUME Typed, GrabHolds, grab' = grab, cursor' = cursor,
           overtaken \subseteq overtaken',
           grab.mode # "passthrough" =>
             \/ "position" \in overtaken'
             \/ /\ view'[grab.view].y = view[grab.view].y
                /\ \/ "size" \in overtaken'
                   \/ view'[grab.view].asked = view[grab.view].asked
    PROVE  GrabHolds'
BY DEF GrabHolds, Typed, GrabTyped, Least

LEMMA NoneHeld == grab' = NoGrab => GrabHolds' /\ GrabTyped' /\ GrabNeedsButton'
BY DEF GrabHolds, NoGrab, GrabTyped, GrabNeedsButton, Grab

-----------------------------------------------------------------------------
\* What the history records

LEMMA NoteIs ==
    ASSUME Typed, NEW v \in Views, NEW r, NEW moved \in BOOLEAN, Note(v, r, moved)
    PROVE  /\ home' \in [Views -> {None} \cup Box] /\ steady' \in [Views -> BOOLEAN]
           /\ \A u \in Views : u # v => home'[u] = home[u] /\ (steady'[u] => steady[u])
           /\ home'[v] = IF ~Expanded(r) THEN None
                         ELSE IF Expanded(view[v]) THEN home[v]
                         ELSE [y |-> view[v].y, h |-> view[v].h]
           /\ steady'[v] => /\ Expanded(r) /\ view[v].mapped /\ ~moved
                            /\ Expanded(view[v]) => steady[v]
                            /\ view[v].saved = None /\ r.saved # None => view[v].h = home'[v].h
<1>1. [y |-> view[v].y, h |-> view[v].h] \in Box
  BY DEF Typed, Whole, Sound, View, Box
<1>2. home[v] \in {None} \cup Box
  BY DEF Typed
<1> DEFINE b == IF ~Expanded(r) THEN None
                ELSE IF Expanded(view[v]) THEN home[v]
                ELSE [y |-> view[v].y, h |-> view[v].h]
<1>3. home' = [home EXCEPT ![v] = b]
  BY DEF Note
<1>4. b \in {None} \cup Box
  BY <1>1, <1>2
<1> DEFINE st == /\ Expanded(r) /\ view[v].mapped /\ ~moved
                 /\ Expanded(view[v]) => steady[v]
                 /\ view[v].saved = None /\ r.saved # None => view[v].h = home'[v].h
<1>5. steady' = [steady EXCEPT ![v] = st]
  BY DEF Note
<1>6. st \in BOOLEAN
  OBVIOUS
<1> HIDE DEF b, st
<1>7. home' \in [Views -> {None} \cup Box] /\ home'[v] = b
      /\ \A u \in Views : u # v => home'[u] = home[u]
  BY <1>3, <1>4 DEF Typed
<1>8. steady' \in [Views -> BOOLEAN] /\ steady'[v] = st
      /\ \A u \in Views : u # v => steady'[u] = steady[u]
  BY <1>5, <1>6 DEF Typed
<1> QED
  BY <1>7, <1>8 DEF b, st

\* Whatever state is entered or left, what will be restored is home.
LEMMA StateKeepsHome ==
    ASSUME Typed, HomeIsKept, NEW v \in Views, NEW b, Whole(v, b), Alike(view[v], b),
           NEW kind \in {"full", "max"}, NEW on \in BOOLEAN,
           NEW s, s = SetState(v, b, kind, on), Note(v, s, FALSE), steady'[v]
    PROVE  AtHome(s, home'[v])
<1>1. /\ home'[v] = IF Expanded(view[v]) THEN home[v] ELSE [y |-> view[v].y, h |-> view[v].h]
      /\ Expanded(s) /\ view[v].mapped /\ (Expanded(view[v]) => steady[v])
      /\ view[v].saved = None /\ s.saved # None => view[v].h = home'[v].h
  BY NoteIs
<1>2. Expanded(view[v]) => AtHome(view[v], home[v])
  BY <1>1 DEF HomeIsKept
<1>3. HasScene(v, b) /\ b.saved = view[v].saved /\ b.y = view[v].y /\ b.asked = view[v].asked
      /\ b.h = view[v].h /\ (Expanded(b) => Expanded(view[v]))
  BY <1>1 DEF Alike, HasScene, Expanded, Whole, Sound
<1>4. Whole(v, view[v])
  BY DEF Typed
<1>5. AtLeast(view[v].h, 1) = view[v].h
  BY <1>4 DEF Whole, Sound, View, AtLeast
<1>8. LET t == SetState(v, b, kind, on) IN
      /\ on /\ b.saved = None /\ HasScene(v, b) => t.saved = Here(b)
      /\ on /\ b.saved # None => t.saved = b.saved
  BY SetStateIs
<1>6. CASE on
  <2>1. s.saved = IF b.saved = None THEN Here(b) ELSE b.saved
    BY <1>3, <1>6, <1>8
  <2>2. Here(b) = [y |-> view[v].y, h |-> Frame(view[v].h)]
    BY <1>3, <1>5 DEF Here
  <2>3. Here(b) # None
    <3>1. Here(b) \in Box
      BY <1>4, <2>2, Numbers DEF Whole, Sound, View, Box, Frame
    <3> QED
      BY <3>1, GeometryAssumption DEF Box
  <2>4. CASE Expanded(view[v])
    BY <1>1, <1>2, <1>3, <2>1, <2>2, <2>3, <2>4 DEF AtHome
  <2>5. CASE ~Expanded(view[v])
    <3>1. view[v].saved = None
      BY <1>4, <2>5 DEF Whole
    <3>2. home'[v] \in Box /\ home'[v].h > 0 /\ home'[v].y = view[v].y /\ home'[v].h = view[v].h
      BY <1>1, <1>4, <2>5 DEF Whole, Sound, View, Box
    <3> QED
      BY <1>1, <1>3, <2>1, <2>2, <2>3, <3>1, <3>2 DEF AtHome
  <2> QED
    BY <2>4, <2>5
<1>7. CASE ~on
  <2>1. /\ s.saved = None /\ (Expanded(s) => Expanded(b))
        /\ IF b.saved # None THEN s.y = b.saved.y /\ s.asked = AtLeast(b.saved.h - Trim, 1)
                             ELSE s.y = b.y /\ s.asked = b.asked
    BY <1>3, <1>7, SetStateIs
  <2>2. AtHome(view[v], home[v]) /\ home'[v] = home[v]
    BY <1>1, <1>2, <1>3, <2>1
  <2>3. AtLeast(Frame(home[v].h) - Trim, 1) = home[v].h
    BY <2>2, Numbers DEF AtHome, Box, Frame, AtLeast
  <2> QED
    BY <1>1, <1>3, <2>1, <2>2, <2>3 DEF AtHome
<1> QED
  BY <1>6, <1>7

LEMMA HomeStays ==
    ASSUME Typed, HomeIsKept, NEW v \in Views, NEW r, NEW moved \in BOOLEAN, Note(v, r, moved),
           view'[v] = r, steady'[v] => AtHome(r, home'[v]),
           \A u \in Views : u # v => Alike(view[u], view'[u])
    PROVE  HomeIsKept'
<1> SUFFICES ASSUME NEW u \in Views, steady'[u]
             PROVE  AtHome(view'[u], home'[u])
  BY DEF HomeIsKept
<1>1. CASE u = v
  BY <1>1
<1>2. CASE u # v
  <2>1. steady[u] /\ home'[u] = home[u]
    BY <1>2, NoteIs
  <2> QED
    BY <1>2, <2>1 DEF HomeIsKept, AtHome, Alike, Expanded
<1> QED
  BY <1>1, <1>2

Agrees(r) == r.xy = r.y + Title

LEMMA AgreesStays ==
    ASSUME X11Agrees, NEW v \in Views, skewed' = Unskewed(v, view'[v]),
           \A u \in Views : u # v => Alike(view[u], view'[u]),
           v \in Xwayland /\ view'[v].scened =>
             Agrees(view'[v]) \/ (view[v].scened /\ ~Agrees(view[v]))
    PROVE  X11Agrees'
<1> SUFFICES ASSUME NEW u \in Xwayland, view'[u].scened
             PROVE  view'[u].xy = view'[u].y + Title \/ u \in skewed'
  BY DEF X11Agrees
<1>1. CASE u = v
  BY <1>1 DEF X11Agrees, Unskewed, Agrees
<1>2. CASE u # v
  <2>1. u \in Views
    BY GeometryAssumption
  <2> QED
    BY <1>2, <2>1 DEF X11Agrees, Alike, Unskewed
<1> QED
  BY <1>1, <1>2

LEMMA ToldStays ==
    ASSUME ResizingTold, grab' = grab, superseded' = superseded,
           \A u \in Views : view'[u].resizing = view[u].resizing
    PROVE  ResizingTold'
BY DEF ResizingTold, Resizes

-----------------------------------------------------------------------------
\* A record is replaced, the grab stays.
LEMMA BecomesIs ==
    ASSUME IInv, NEW v \in Views, NEW r, Whole(v, r), NEW moved \in BOOLEAN, NEW what,
           Becomes(v, r, moved, what), UNCHANGED <<grab, cursor, down>>,
           cascade' \in 0..(Wrap - 1), events' \in 0..MaxEvents,
           view[v].scened => r.scened,
           r.resizing = view[v].resizing,
           grab.view = v =>
             \/ "position" \in what
             \/ r.y = view[v].y /\ ("size" \in what \/ r.asked = view[v].asked),
           v \in Xwayland /\ r.scened => Agrees(r) \/ (view[v].scened /\ ~Agrees(view[v])),
           steady'[v] => AtHome(r, home'[v])
    PROVE  IInv'
<1>1. Fine(view) /\ Typed
  BY DEF IInv, Typed, Fine
<1>2. view' = [view EXCEPT ![v] = r] /\ Note(v, r, moved) /\ skewed' = Unskewed(v, r)
      /\ superseded' = superseded
      /\ overtaken' = overtaken \cup (IF grab.view = v /\ r # view[v] THEN what ELSE {})
  BY DEF Becomes
<1>3. Fine([view EXCEPT ![v] = r])
  BY ONLY <1>1, Whole(v, r), v \in Views, Replaced
<1>4. view'[v] = r /\ \A u \in Views : u # v => view'[u] = view[u]
  BY <1>1, <1>2 DEF Fine
<1>5. \A u \in Views : u # v => Alike(view[u], view'[u])
  BY <1>4 DEF Alike
<1>6. Typed'
  <2>1. view' = [u \in Views |-> view'[u]] /\ \A u \in Views : Whole(u, view'[u])
    BY <1>2, <1>3 DEF Fine
  <2>2. \A u \in Views : view[u].scened => view'[u].scened
    BY <1>4
  <2>3. GrabTyped'
    BY <1>1, <2>2 DEF Typed, GrabTyped, NoGrab, HasScene
  <2>4. home' \in [Views -> {None} \cup Box] /\ steady' \in [Views -> BOOLEAN]
    BY <1>1, <1>2, NoteIs
  <2>5. cursor' \in Cursors /\ down' \subseteq Buttons
    BY <1>1 DEF Typed
  <2> QED
    BY <2>1, <2>3, <2>4, <2>5 DEF Typed, Whole, Sound, Expanded, HasScene
<1>7. GrabHolds'
  <2>1. ASSUME grab.mode # "passthrough"
        PROVE  \/ "position" \in overtaken'
               \/ /\ view'[grab.view].y = view[grab.view].y
                  /\ \/ "size" \in overtaken'
                     \/ view'[grab.view].asked = view[grab.view].asked
    <3>1. grab.view \in Views
      BY <1>1, <2>1 DEF Typed, GrabTyped
    <3>2. CASE grab.view = v /\ r # view[v]
      BY <1>2, <1>4, <3>2
    <3>3. CASE grab.view = v /\ r = view[v]
      BY <1>4, <3>3
    <3>4. CASE grab.view # v
      BY <1>4, <3>1, <3>4
    <3> QED
      BY <3>2, <3>3, <3>4
  <2>2. overtaken \subseteq overtaken'
    BY <1>2
  <2> QED
    BY <1>1, <2>1, <2>2, StillHeld DEF IInv
<1>8. GrabNeedsButton'
  BY DEF IInv, GrabNeedsButton
<1>9. ResizingTold'
  <2>1. \A u \in Views : view'[u].resizing = view[u].resizing
    BY <1>4
  <2> QED
    BY <1>2, <2>1, ToldStays DEF IInv
<1>10. X11Agrees'
  BY <1>2, <1>4, <1>5, AgreesStays DEF IInv
<1>11. HomeIsKept'
  BY <1>1, <1>2, <1>4, <1>5, HomeStays DEF IInv
<1> QED
  BY <1>6, <1>7, <1>8, <1>9, <1>10, <1>11 DEF IInv

LEMMA Counted == Happens /\ events \in 0..MaxEvents => events' \in 0..MaxEvents
BY Numbers DEF Happens

LEMMA RequestStateStep ==
    ASSUME IInv, NEW v \in Views, NEW kind \in {"full", "max"}, NEW on \in BOOLEAN,
           RequestState(v, kind, on)
    PROVE  IInv'
<1> DEFINE r == SetState(v, view[v], kind, on)
           what == {"position", "size"}
<1>1. Becomes(v, r, FALSE, what) /\ Happens /\ UNCHANGED <<grab, cursor, down, origin, cascade>>
  BY DEF RequestState
<1>2. Typed /\ HomeIsKept /\ X11Agrees /\ Whole(v, view[v])
  BY DEF IInv, Typed
<1>3. cascade' \in 0..(Wrap - 1) /\ events' \in 0..MaxEvents
  BY <1>1, <1>2, Counted DEF Typed
<1>4. /\ Whole(v, r) /\ r.scened = view[v].scened /\ r.resizing = view[v].resizing
      /\ v \in Xwayland /\ view[v].scened /\ Agrees(view[v]) => Agrees(r)
  BY <1>2, SetStateIs DEF Agrees
<1>5. Alike(view[v], view[v]) /\ Note(v, r, FALSE)
  BY <1>1 DEF Alike, Becomes
<1> HIDE DEF r
<1>6. steady'[v] => AtHome(r, home'[v])
  BY <1>2, <1>5, StateKeepsHome DEF r
<1>7. "position" \in what
  OBVIOUS
<1> HIDE DEF what
<1> QED
  BY <1>1, <1>3, <1>4, <1>6, <1>7, BecomesIs

\* An X11 window's new record when its client asks for a position and a size
LEMMA ConfiguredAsIs ==
    ASSUME IInv, NEW v \in Views, v \in Xwayland,
           NEW y \in Places \cup {Content(v)}, NEW h \in Sizes \cup {view[v].h}
    PROVE  LET c == ConfiguredAs(v, y, h) IN
           /\ Whole(v, c) /\ c.scened = view[v].scened /\ c.resizing = view[v].resizing
           /\ c.wfull = view[v].wfull /\ c.wmax = view[v].wmax
           /\ grab.view = v => c.y = view[v].y
           /\ c.scened => Agrees(c)
<1>3. Typed /\ Whole(v, view[v])
  BY DEF IInv, Typed
<1> DEFINE at == IF grab.view = v THEN Content(v) ELSE y
           c == ConfiguredAs(v, y, h)
<1>5. Usable(h) \in Nat \ {0} /\ at \in Int /\ Content(v) \in Int
  BY <1>3, Numbers DEF Usable, Content, Whole, Sound, View
<1>6. c = ConfiguredAt(v, at, h) /\ HasScene(v, view[v]) = (view[v].scened = TRUE)
  BY <1>3 DEF ConfiguredAs, HasScene, Whole, Sound, View
<1> HIDE DEF at
<1> DEFINE p == IF at = Content(v) \/ ~view[v].scened THEN view[v]
                ELSE [Positioned(view[v], at - Title) EXCEPT !.placed = TRUE]
<1>8. /\ p \in View /\ Sound(v, p)
      /\ p.saved = view[v].saved /\ p.mapped = view[v].mapped /\ p.scened = view[v].scened
      /\ p.wfull = view[v].wfull /\ p.wmax = view[v].wmax
      /\ p.resizing = view[v].resizing
      /\ p.y = IF at = Content(v) \/ ~view[v].scened THEN view[v].y ELSE at - Title
  <2>1. CASE at = Content(v) \/ ~view[v].scened
    BY <1>3, <2>1 DEF Whole, Sound
  <2>2. CASE ~(at = Content(v) \/ ~view[v].scened)
    <3>1. at - Title \in Int
      BY <1>5, Numbers
    <3>2. p = [view[v] EXCEPT !.y = at - Title, !.placed = TRUE]
      BY <2>2 DEF Positioned
    <3> HIDE DEF p
    <3> QED
      BY <1>3, <2>2, <3>1, <3>2 DEF Whole, Sound, View, HasScene
  <2> QED
    BY <2>1, <2>2
<1>7. c = [p EXCEPT !.asked = Usable(h), !.h = Usable(h), !.xy = at]
  BY <1>6, <1>8 DEF ConfiguredAt, Sized, View
<1> HIDE DEF p, c
<1>9. /\ Whole(v, c) /\ c.scened = view[v].scened /\ c.resizing = view[v].resizing
      /\ c.wfull = view[v].wfull /\ c.wmax = view[v].wmax
      /\ c.y = p.y /\ c.xy = at
  BY <1>3, <1>5, <1>7, <1>8 DEF Whole, Sound, View, Expanded, HasScene
<1>10. grab.view = v => c.y = view[v].y
  BY <1>8, <1>9 DEF at
<1>11. c.scened => Agrees(c)
  <2>1. view[v].scened => Content(v) = view[v].y + Title
    BY DEF Content, HasScene
  <2>2. view[v].y \in Int /\ Title \in Int
    BY <1>3, Numbers DEF Whole, Sound, View
  <2> QED
    BY <1>5, <1>8, <1>9, <2>1, <2>2 DEF Agrees
<1> QED
  BY <1>9, <1>10, <1>11 DEF c

LEMMA RequestConfigureStep ==
    ASSUME IInv, NEW v \in Views, RequestConfigure(v)
    PROVE  IInv'
<1>1. /\ v \in Xwayland /\ Happens
      /\ UNCHANGED <<grab, cursor, down, origin, cascade>>
  BY DEF RequestConfigure
<1>2. PICK y \in Places \cup {Content(v)}, h \in Sizes \cup {view[v].h} :
        Becomes(v, ConfiguredAs(v, y, h), TRUE, {"size"})
  BY DEF RequestConfigure
<1>3. Typed
  BY DEF IInv
<1>4. cascade' \in 0..(Wrap - 1) /\ events' \in 0..MaxEvents
  BY <1>1, <1>3, Counted DEF Typed
<1> DEFINE c == ConfiguredAs(v, y, h)
           what == {"size"}
<1>5. /\ Whole(v, c) /\ c.scened = view[v].scened /\ c.resizing = view[v].resizing
      /\ grab.view = v => c.y = view[v].y
      /\ c.scened => Agrees(c)
  BY <1>1, ConfiguredAsIs
<1>6. "size" \in what /\ Becomes(v, c, TRUE, what)
  BY <1>2
<1> HIDE DEF c, what
<1>7. ~steady'[v]
  <2>1. Note(v, c, TRUE)
    BY <1>6 DEF Becomes
  <2> QED
    BY <1>3, <2>1, NoteIs
<1> QED
  BY <1>1, <1>4, <1>5, <1>6, <1>7, BecomesIs

\* An X11 client asks to be mapped.
LEMMA RequestedIs ==
    ASSUME NEW v \in Xwayland, NEW b, Whole(v, b), ~b.mapped, NEW y \in Int, NEW h \in Nat \ {0}
    PROVE  LET r == Requested(b, y, h) IN
           /\ Whole(v, r) /\ r.scened = b.scened /\ r.resizing = b.resizing
           /\ r.wfull = b.wfull /\ r.wmax = b.wmax
           /\ r.scened => Agrees(r)
<1> DEFINE p == b.placed \/ y # 0
           at == IF b.scened THEN y - Title ELSE b.y
<1>1. y - Title \in Int /\ (y - Title) + Title = y
  BY Numbers
<1>2. at \in Int /\ p \in BOOLEAN /\ (b.scened => at = y - Title)
  BY <1>1 DEF Whole, Sound, View
<1>3. Requested(b, y, h) = [b EXCEPT !.xy = y, !.h = h, !.asked = h, !.placed = p, !.y = at]
  BY DEF Requested, Whole, Sound, View
<1> HIDE DEF p, at
<1>4. LET r == Requested(b, y, h) IN
      /\ Whole(v, r) /\ r.scened = b.scened /\ r.resizing = b.resizing
      /\ r.wfull = b.wfull /\ r.wmax = b.wmax /\ r.xy = y /\ r.y = at
  <2> DEFINE q == [b EXCEPT !.xy = y, !.y = at, !.placed = p]
  <2>1. /\ q \in View /\ q.scened = b.scened /\ q.mapped = b.mapped
        /\ q.resizing = b.resizing /\ q.acked = b.acked
        /\ q.wfull = b.wfull /\ q.wmax = b.wmax /\ q.full = b.full /\ q.max = b.max
        /\ q.saved = b.saved /\ q.xy = y /\ q.y = at
    BY <1>2 DEF Whole, Sound, View
  <2>2. Requested(b, y, h) = [q EXCEPT !.h = h, !.asked = h]
    BY <1>2, <1>3 DEF Whole, Sound, View
  <2> HIDE DEF q
  <2>3. LET r == Requested(b, y, h) IN
        /\ r \in View /\ r.scened = b.scened /\ r.mapped = b.mapped
        /\ r.resizing = b.resizing /\ r.acked = b.acked
        /\ r.wfull = b.wfull /\ r.wmax = b.wmax /\ r.full = b.full /\ r.max = b.max
        /\ r.saved = b.saved /\ r.xy = y /\ r.y = at /\ r.h = h /\ r.asked = h
    BY <2>1, <2>2, ZenonT(60) DEF View
  <2> QED
    BY <2>3, ZenonT(60) DEF Whole, Sound, Expanded
<1> QED
  BY <1>1, <1>2, <1>4 DEF Agrees

LEMMA MapRequestStep ==
    ASSUME IInv, NEW v \in Views, MapRequest(v)
    PROVE  IInv'
<1>1. /\ v \in Xwayland /\ ~view[v].mapped
      /\ UNCHANGED <<grab, cursor, down, origin, cascade, events>>
  BY DEF MapRequest
<1>2. PICK y \in IF view[v] = New THEN Places ELSE {view[v].xy},
           s \in IF view[v] = New THEN Sizes ELSE {view[v].h} :
        Becomes(v, Requested(view[v], y, Usable(s)), TRUE, {"position", "size"})
  BY DEF MapRequest
<1>3. Typed /\ Whole(v, view[v])
  BY DEF IInv, Typed
<1> DEFINE h == Usable(s)
           r == Requested(view[v], y, h)
           what == {"position", "size"}
<1>4. y \in Int /\ h \in Nat \ {0}
  BY <1>3, Numbers DEF Usable, Whole, Sound, View
<1> HIDE DEF h
<1>5. /\ Whole(v, r) /\ r.scened = view[v].scened /\ r.resizing = view[v].resizing
      /\ r.scened => Agrees(r)
  BY <1>1, <1>3, <1>4, RequestedIs
<1>6. "position" \in what /\ Becomes(v, r, TRUE, what)
  BY <1>2 DEF h
<1>7. cascade' \in 0..(Wrap - 1) /\ events' \in 0..MaxEvents
  BY <1>1, <1>3 DEF Typed
<1> HIDE DEF r, what
<1>8. ~steady'[v]
  <2>1. Note(v, r, TRUE)
    BY <1>6 DEF Becomes
  <2> QED
    BY <1>3, <2>1, NoteIs
<1> QED
  BY <1>1, <1>5, <1>6, <1>7, <1>8, BecomesIs

\* An X11 window gets its scene tree where its client has it.
LEMMA AssociatedIs ==
    ASSUME NEW v \in Xwayland, NEW b, Whole(v, b), ~b.scened
    PROVE  LET r == [b EXCEPT !.scened = TRUE, !.y = b.xy - Title, !.asked = b.h] IN
           /\ Whole(v, r) /\ r.scened /\ r.resizing = b.resizing
           /\ r.wfull = b.wfull /\ r.wmax = b.wmax
           /\ Agrees(r)
<1> DEFINE y == b.xy - Title
           h == b.h
<1>1. y \in Int /\ y + Title = b.xy /\ h \in Nat \ {0} /\ h = b.h
  BY Numbers DEF Whole, Sound, View
<1> HIDE DEF y, h
<1>2. LET r == [b EXCEPT !.scened = TRUE, !.y = y, !.asked = h] IN
      /\ Whole(v, r) /\ r.scened /\ r.resizing = b.resizing
      /\ r.wfull = b.wfull /\ r.wmax = b.wmax /\ r.xy = b.xy /\ r.y = y
  BY <1>1 DEF Whole, Sound, View, Expanded, HasScene
<1> QED
  BY <1>1, <1>2 DEF Agrees, y, h

LEMMA AssociateStep ==
    ASSUME IInv, NEW v \in Views, Associate(v)
    PROVE  IInv'
<1> DEFINE r == [view[v] EXCEPT !.scened = TRUE, !.y = view[v].xy - Title, !.asked = view[v].h]
<1>1. /\ v \in Xwayland /\ ~view[v].scened /\ Becomes(v, r, TRUE, {})
      /\ UNCHANGED <<grab, cursor, down, origin, cascade, events>>
  BY DEF Associate
<1>2. Typed /\ Whole(v, view[v])
  BY DEF IInv, Typed
<1>3. Whole(v, r) /\ r.scened /\ r.resizing = view[v].resizing /\ Agrees(r)
  BY <1>1, <1>2, AssociatedIs
<1>4. grab.view # v
  BY <1>1, <1>2, GeometryAssumption DEF Typed, GrabTyped, NoGrab, HasScene
<1>5. cascade' \in 0..(Wrap - 1) /\ events' \in 0..MaxEvents
  BY <1>1, <1>2 DEF Typed
<1> HIDE DEF r
<1>6. ~steady'[v]
  <2>1. Note(v, r, TRUE)
    BY <1>1 DEF Becomes
  <2> QED
    BY <1>2, <2>1, NoteIs
<1> QED
  BY <1>1, <1>3, <1>4, <1>5, <1>6, BecomesIs

\* The records a window maps with, before it is placed
LEMMA ArrivalsAre ==
    ASSUME NEW v \in Views, Whole(v, view[v]), HasScene(v, view[v]), NEW r \in Arrivals(v)
    PROVE  /\ r \in View /\ Sound(v, [r EXCEPT !.placed = TRUE])
           /\ r.mapped /\ r.scened = view[v].scened
           /\ r.saved = view[v].saved /\ r.resizing = view[v].resizing
           /\ r.wfull = view[v].wfull /\ r.wmax = view[v].wmax
           /\ v \in Xwayland => r.y = view[v].y /\ r.xy = view[v].xy /\ r.asked = view[v].asked
<1> DEFINE m == [view[v] EXCEPT !.mapped = TRUE]
<1>3. /\ m \in View /\ m.mapped /\ Sound(v, [m EXCEPT !.placed = TRUE])
      /\ m.saved = view[v].saved /\ m.resizing = view[v].resizing
      /\ m.scened = view[v].scened /\ m.wfull = view[v].wfull /\ m.wmax = view[v].wmax
      /\ m.y = view[v].y /\ m.xy = view[v].xy /\ m.asked = view[v].asked
  BY DEF Whole, Sound, View, HasScene
<1> HIDE DEF m
<1>5. Arrivals(v) =
        IF v \in Xwayland THEN {m}
        ELSE {WaylandArrival(m, h) : h \in {s \in Sizes : s >= MinHeight}}
  BY ONLY DEF Arrivals, m
<1>1. CASE v \notin Xwayland
  <2>1. PICK h \in {s \in Sizes : s >= MinHeight} : r = WaylandArrival(m, h)
    BY ONLY <1>1, <1>5, r \in Arrivals(v)
  <2>2. h \in Nat \ {0}
    BY Numbers
  <2> QED
    BY <1>1, <1>3, <2>1, <2>2, ZenonT(60) DEF WaylandArrival, Sound, View, HasScene
<1>2. CASE v \in Xwayland
  <2>1. r = m
    BY ONLY <1>2, <1>5, r \in Arrivals(v)
  <2> QED
    BY <1>3, <2>1
<1> QED
  BY <1>1, <1>2

LEMMA MapStep ==
    ASSUME IInv, NEW v \in Views, Map(v)
    PROVE  IInv'
<1>1. ~view[v].mapped /\ HasScene(v, view[v]) /\ Happens /\ UNCHANGED <<grab, cursor, down, origin>>
  BY DEF Map
<1>2. PICK r \in Arrivals(v) :
        /\ Becomes(v, PlaceView(v, r), TRUE,
                   IF v \in Xwayland /\ r.placed THEN {} ELSE {"position", "size"})
        /\ cascade' = IF r.placed THEN cascade ELSE NextCascade
  BY DEF Map
<1>3. Typed /\ Whole(v, view[v]) /\ cascade \in 0..(Wrap - 1)
  BY DEF IInv, Typed
<1>4. cascade' \in 0..(Wrap - 1) /\ events' \in 0..MaxEvents
  BY <1>1, <1>2, <1>3, Counted, CascadeWraps DEF Typed
<1>5. /\ r \in View /\ Sound(v, [r EXCEPT !.placed = TRUE])
      /\ r.mapped /\ r.scened = view[v].scened
      /\ r.saved = view[v].saved /\ r.resizing = view[v].resizing
      /\ r.wfull = view[v].wfull /\ r.wmax = view[v].wmax
      /\ v \in Xwayland => r.y = view[v].y /\ r.xy = view[v].xy /\ r.asked = view[v].asked
  BY <1>1, <1>3, ArrivalsAre
<1> DEFINE s == PlaceView(v, r)
           what == IF v \in Xwayland /\ r.placed THEN {} ELSE {"position", "size"}
<1>6. /\ Sound(v, s) /\ Kept(r, s)
      /\ r.placed => s = r
      /\ ~r.placed => (v \in Xwayland => s.xy = s.y + Title)
  BY <1>3, <1>5, PlaceViewIs
<1>7. Becomes(v, s, TRUE, what)
  BY <1>2
<1>12. ~(v \in Xwayland /\ r.placed) => "position" \in what
  OBVIOUS
<1> HIDE DEF s, what
<1>8. Whole(v, s) /\ s.scened = view[v].scened /\ s.resizing = view[v].resizing
  BY <1>3, <1>5, <1>6 DEF Whole, Kept, Expanded
<1>9. v \in Xwayland => Agrees(s) \/ (view[v].scened /\ ~Agrees(view[v]))
  BY <1>1, <1>5, <1>6 DEF Agrees, HasScene
<1>10. "position" \in what \/ (s.y = view[v].y /\ s.asked = view[v].asked)
  BY <1>5, <1>6, <1>12
<1>11. ~steady'[v]
  <2>1. Note(v, s, TRUE)
    BY <1>7 DEF Becomes
  <2> QED
    BY <1>3, <2>1, NoteIs
<1> QED
  BY <1>1, <1>4, <1>7, <1>8, <1>9, <1>10, <1>11, BecomesIs

LEMMA CommitStep ==
    ASSUME IInv, NEW v \in Views, Commit(v)
    PROVE  IInv'
<1>1. v \notin Xwayland /\ UNCHANGED <<grab, cursor, down, origin, cascade, events, history>>
  BY DEF Commit
<1>2. PICK h \in ({view[v].asked} \ {0}) \cup {s \in Sizes : s >= MinHeight} :
        view' = [view EXCEPT ![v] = [view[v] EXCEPT !.h = h, !.acked = TRUE,
                                       !.full = view[v].wfull, !.max = view[v].wmax]]
  BY DEF Commit
<1> DEFINE r == [view[v] EXCEPT !.h = h, !.acked = TRUE,
                                !.full = view[v].wfull, !.max = view[v].wmax]
<1>3. Fine(view) /\ Typed /\ Whole(v, view[v])
  BY DEF IInv, Typed, Fine
<1>4. h \in Nat \ {0}
  BY <1>3, Numbers DEF Whole, Sound, View
<1>5. /\ Whole(v, r) /\ Kept(view[v], r)
      /\ r.y = view[v].y /\ r.asked = view[v].asked
  BY <1>1, <1>3, <1>4 DEF Whole, Sound, View, Expanded, Kept, HasScene
<1>6. view' = [view EXCEPT ![v] = r]
  BY <1>2
<1> HIDE DEF r
<1>7. Fine([view EXCEPT ![v] = r])
  BY ONLY <1>3, <1>5, v \in Views, Replaced
<1>8. view'[v] = r /\ \A u \in Views : u # v => view'[u] = view[u]
  BY <1>3, <1>6 DEF Fine
<1>9. \A u \in Views : /\ Kept(view[u], view'[u])
                       /\ view'[u].y = view[u].y /\ view'[u].asked = view[u].asked
  BY <1>5, <1>8 DEF Kept
<1>10. Typed'
  BY <1>1, <1>3, <1>6, <1>7, <1>9
     DEF Typed, GrabTyped, Fine, Kept, history, Whole, Sound, Expanded, NoGrab, HasScene
<1>11. GrabHolds'
  <2>1. grab.mode # "passthrough" => grab.view \in Views
    BY <1>3 DEF Typed, GrabTyped
  <2> QED
    BY <1>1, <1>3, <1>9, <2>1, StillHeld DEF IInv, history
<1>12. GrabNeedsButton'
  BY <1>1 DEF IInv, GrabNeedsButton
<1>13. ResizingTold'
  BY <1>1, <1>9, ToldStays DEF IInv, history, Kept
<1>14. X11Agrees'
  <2>1. \A u \in Xwayland : view'[u] = view[u]
    BY <1>1, <1>8, GeometryAssumption
  <2> QED
    BY <1>1, <2>1 DEF IInv, X11Agrees, history
<1>15. HomeIsKept'
  BY <1>1, <1>9 DEF IInv, HomeIsKept, AtHome, Kept, Expanded, history
<1> QED
  BY <1>10, <1>11, <1>12, <1>13, <1>14, <1>15 DEF IInv

-----------------------------------------------------------------------------
\* The grab ends or begins.
LEMMA EndStep ==
    ASSUME IInv, EndInteractive, view' = Ended(view), down' \subseteq Buttons,
           UNCHANGED <<cursor, cascade, events, home, steady, skewed>>
    PROVE  IInv'
<1>1. Typed /\ grab' = NoGrab
      /\ superseded' = IF grab.mode = "resize" THEN superseded \ {grab.view} ELSE superseded
  BY DEF IInv, EndInteractive
<1>2. /\ Fine(view')
      /\ \A u \in Views :
           /\ Alike(view[u], view'[u])
           /\ u \notin Xwayland =>
                view'[u].resizing = (view[u].resizing /\ ~Resizes(grab, u))
  BY <1>1, EndedIs
<1>3. GrabTyped' /\ GrabHolds' /\ GrabNeedsButton'
  BY <1>1, NoneHeld
<1>4. Typed'
  BY <1>1, <1>2, <1>3 DEF Typed, Fine, Whole, Sound, Expanded
<1>5. ResizingTold'
  BY <1>1, <1>2 DEF IInv, ResizingTold, Resizes, NoGrab
<1>6. X11Agrees'
  <2>1. Xwayland \subseteq Views
    BY GeometryAssumption
  <2> QED
    BY <1>2, <2>1 DEF IInv, X11Agrees, Alike
<1>7. HomeIsKept'
  BY <1>2 DEF IInv, HomeIsKept, AtHome, Alike, Expanded
<1> QED
  BY <1>3, <1>4, <1>5, <1>6, <1>7 DEF IInv

LEMMA BeginStep ==
    ASSUME IInv, NEW v \in Views, HasScene(v, view[v]), NEW mode \in {"move", "resize"},
           NEW edges \in {{}} \cup Edges, NEW button \in Buttons \cup {None},
           NEW x11 \in BOOLEAN,
           BeginInteractive(v, mode, edges, button, x11),
           down' \subseteq Buttons,
           ~x11 => IF button = None THEN down' # {} ELSE button \in down'
    PROVE  IInv'
<1>1. /\ grab' = [mode |-> mode, view |-> v, button |-> button, edges |-> edges, ly |-> cursor,
                  vy |-> view[v].y, vh |-> Frame(AtLeast(view[v].h, 1)), x11 |-> x11]
      /\ view' = IF mode = "resize" THEN [view EXCEPT ![v] = Told(v, view[v], TRUE)] ELSE view
      /\ superseded' =
           LET left == superseded \cup (IF grab.mode = "resize" THEN {grab.view} ELSE {})
           IN  IF mode = "resize" THEN left \ {v} ELSE left
      /\ Happens /\ UNCHANGED <<cursor, cascade, home, steady, skewed>>
  BY DEF BeginInteractive
<1>2. Typed /\ Fine(view) /\ Whole(v, view[v])
  BY DEF IInv, Typed, Fine
<1> DEFINE t == IF mode = "resize" THEN Told(v, view[v], TRUE) ELSE view[v]
<1>3. /\ Whole(v, t) /\ Alike(view[v], t)
      /\ mode = "resize" /\ v \notin Xwayland => t.resizing
      /\ mode # "resize" => t = view[v]
  <2>1. CASE mode = "resize"
    <3> DEFINE on == TRUE
    <3>1. on \in BOOLEAN
      OBVIOUS
    <3> HIDE DEF on
    <3>2. /\ Whole(v, Told(v, view[v], on)) /\ Alike(view[v], Told(v, view[v], on))
          /\ v \notin Xwayland => Told(v, view[v], on).resizing = on
      BY <1>2, <3>1, ToldIs
    <3> QED
      BY <2>1, <3>2 DEF on
  <2>2. CASE mode # "resize"
    BY <1>2, <2>2 DEF Alike
  <2> QED
    BY <2>1, <2>2
<1>4. view' = [view EXCEPT ![v] = t]
  BY <1>1, <1>2 DEF Fine
<1> HIDE DEF t
<1>5. Fine([view EXCEPT ![v] = t])
  BY ONLY <1>2, <1>3, v \in Views, Replaced
<1>6. view'[v] = t /\ \A u \in Views : u # v => view'[u] = view[u]
  BY <1>2, <1>4 DEF Fine
<1>7. \A u \in Views : Alike(view[u], view'[u])
  BY <1>3, <1>6 DEF Alike
<1>8. Typed'
  <2>1. grab' \in Grab
    <3>1. cursor \in Int /\ view[v].y \in Int /\ Frame(AtLeast(view[v].h, 1)) \in Int
      BY <1>2, Numbers DEF Typed, Frame, AtLeast, Whole, Sound, View
    <3> QED
      BY <1>1, <3>1 DEF Grab
  <2>2. grab'.mode # "passthrough" /\ grab'.view = v /\ view'[v].scened = view[v].scened
    BY <1>1, <1>7 DEF Alike
  <2>3. GrabTyped'
    BY <2>1, <2>2 DEF GrabTyped, HasScene
  <2>4. view' = [u \in Views |-> view'[u]] /\ \A u \in Views : Whole(u, view'[u])
    BY <1>4, <1>5 DEF Fine
  <2>5. events' \in 0..MaxEvents
    BY <1>1, <1>2, Counted DEF Typed
  <2> QED
    BY <1>1, <1>2, <2>3, <2>4, <2>5 DEF Typed, Whole, Sound, Expanded, HasScene
<1>9. GrabHolds'
  <2>1. view'[v].y = view[v].y /\ view[v].y \in Int /\ cursor \in Int
    BY <1>2, <1>7, Numbers DEF Alike, Typed, Whole, Sound, View
  <2> QED
    BY <1>1, <2>1 DEF GrabHolds
<1>10. GrabNeedsButton'
  BY <1>1 DEF GrabNeedsButton
<1>11. ResizingTold'
  <2> SUFFICES ASSUME NEW u \in Views \ Xwayland
               PROVE  /\ Resizes(grab', u) => view'[u].resizing
                      /\ view'[u].resizing => Resizes(grab', u) \/ u \in superseded'
    BY DEF ResizingTold, Resizes
  <2>1. view[u].resizing => Resizes(grab, u) \/ u \in superseded
    BY DEF IInv, ResizingTold
  <2>2. Resizes(grab', u) <=> mode = "resize" /\ u = v
    BY <1>1 DEF Resizes
  <2>3. CASE mode = "resize" /\ u = v
    BY <1>3, <1>6, <2>2, <2>3
  <2>4. CASE ~(mode = "resize" /\ u = v)
    <3>1. view'[u] = view[u]
      BY <1>3, <1>6, <2>4
    <3> QED
      BY <1>1, <2>1, <2>2, <2>4, <3>1 DEF Resizes
  <2> QED
    BY <2>3, <2>4
<1>12. X11Agrees'
  <2>1. Xwayland \subseteq Views
    BY GeometryAssumption
  <2> QED
    BY <1>1, <1>7, <2>1 DEF IInv, X11Agrees, Alike
<1>13. HomeIsKept'
  <2>1. home' = home /\ steady' = steady
    BY <1>1
  <2> QED
    BY <1>7, <2>1 DEF IInv, HomeIsKept, AtHome, Alike, Expanded
<1> QED
  BY <1>8, <1>9, <1>10, <1>11, <1>12, <1>13 DEF IInv

LEMMA AltPressStep ==
    ASSUME IInv, NEW v \in Views, NEW b \in Buttons, AltPress(v, b)
    PROVE  IInv'
<1>1. HasScene(v, view[v]) /\ down' = down \cup {b}
  BY DEF AltPress, Over, Pressed, IInv, Typed, Whole, Sound, HasScene
<1>2. down' \subseteq Buttons /\ b \in down' /\ b # None
  BY <1>1, GeometryAssumption DEF IInv, Typed
<1>3. PICK mode \in {"move", "resize"}, edges \in {{}} \cup Edges :
        BeginInteractive(v, mode, edges, b, FALSE)
  <2>1. CASE b = "left"
    BY <2>1 DEF AltPress
  <2>2. CASE b # "left"
    BY <2>2 DEF AltPress
  <2> QED
    BY <2>1, <2>2
<1> QED
  BY <1>1, <1>2, <1>3, BeginStep

LEMMA RequestInteractiveStep ==
    ASSUME IInv, NEW v \in Views, NEW mode \in {"move", "resize"},
           NEW edges \in {{}} \cup Edges, RequestInteractive(v, mode, edges)
    PROVE  IInv'
<1>1. /\ HasScene(v, view[v]) /\ down' = down /\ Cardinality(down) = 1
      /\ BeginInteractive(v, mode, edges, None, FALSE)
  BY DEF RequestInteractive, HasScene
<1>2. down' \subseteq Buttons
  BY <1>1 DEF IInv, Typed
<1>3. down' # {}
  BY <1>1, FS_EmptySet
<1> QED
  BY <1>1, <1>2, <1>3, BeginStep

LEMMA XwaylandRequestInteractiveStep ==
    ASSUME IInv, NEW v \in Views, NEW mode \in {"move", "resize"},
           NEW edges \in {{}} \cup Edges, XwaylandRequestInteractive(v, mode, edges)
    PROVE  IInv'
<1>1. /\ HasScene(v, view[v]) /\ down' = down
      /\ BeginInteractive(v, mode, edges, None, TRUE)
  BY DEF XwaylandRequestInteractive, HasScene
<1>2. down' \subseteq Buttons
  BY <1>1 DEF IInv, Typed
<1> QED
  BY <1>1, <1>2, BeginStep

-----------------------------------------------------------------------------
\* The remaining handlers
LEMMA GoneStep ==
    ASSUME IInv, NEW v \in Views, NEW r, Whole(v, r), ~r.resizing, Gone(v, r),
           v \in Xwayland /\ r.scened =>
             view[v].scened /\ r.y = view[v].y /\ r.xy = view[v].xy
    PROVE  IInv'
<1> DEFINE base == IF grab.view = v THEN Ended(view) ELSE view
<1>1. /\ view' = [base EXCEPT ![v] = r]
      /\ grab' = IF grab.view = v THEN NoGrab ELSE grab
      /\ superseded' = superseded \ {v}
      /\ skewed' = IF r.scened THEN skewed ELSE skewed \ {v}
      /\ home' = [home EXCEPT ![v] = IF Expanded(r) THEN home[v] ELSE None]
      /\ steady' = [steady EXCEPT ![v] = FALSE]
      /\ Happens /\ UNCHANGED <<cursor, down, cascade>>
  BY DEF Gone
<1>2. Typed
  BY DEF IInv
<1>3. /\ Fine(base)
      /\ \A u \in Views : u # v => Alike(view[u], base[u])
      /\ \A u \in Views \ Xwayland : u # v => base[u].resizing = view[u].resizing
  <2>1. CASE grab.view = v
    <3>1. \A u \in Views : u # v => ~Resizes(grab, u)
      BY <2>1 DEF Resizes
    <3>2. \A u \in Views \ Xwayland :
            Ended(view)[u].resizing = (view[u].resizing /\ ~Resizes(grab, u))
      BY <1>2, EndedIs
    <3>3. \A u \in Views : view[u].resizing \in BOOLEAN
      BY <1>2 DEF Typed, Whole, Sound, View
    <3>4. \A u \in Views \ Xwayland : u # v => Ended(view)[u].resizing = view[u].resizing
      BY <3>1, <3>2, <3>3
    <3>5. Fine(Ended(view)) /\ \A u \in Views : Alike(view[u], Ended(view)[u])
      BY <1>2, EndedIs
    <3> QED
      BY <2>1, <3>4, <3>5
  <2>2. CASE grab.view # v
    BY <1>2, <2>2 DEF Typed, Fine, Alike
  <2> QED
    BY <2>1, <2>2
<1> HIDE DEF base
<1>4. Fine([base EXCEPT ![v] = r])
  BY ONLY <1>3, Whole(v, r), v \in Views, Replaced
<1>5. view'[v] = r /\ \A u \in Views : u # v => view'[u] = base[u]
  BY <1>1, <1>3 DEF Fine
<1>6. \A u \in Views : u # v => Alike(view[u], view'[u])
  BY <1>3, <1>5
<1>7. grab.view # v => view' = [view EXCEPT ![v] = r]
  BY <1>1 DEF base
<1>8. Typed'
  <2>1. view' = [u \in Views |-> view'[u]] /\ \A u \in Views : Whole(u, view'[u])
    BY <1>1, <1>4 DEF Fine
  <2>2. GrabTyped'
    <3>1. CASE grab.view = v
      BY <1>1, <3>1, NoneHeld
    <3>2. CASE grab.view # v
      BY <1>1, <1>2, <1>6, <3>2 DEF Typed, GrabTyped, Alike, NoGrab, HasScene
    <3> QED
      BY <3>1, <3>2
  <2>3. events' \in 0..MaxEvents
    BY <1>1, <1>2, Counted DEF Typed
  <2>4. home' \in [Views -> {None} \cup Box]
    BY <1>1, <1>2 DEF Typed
  <2>5. steady' \in [Views -> BOOLEAN]
    BY <1>1, <1>2 DEF Typed
  <2> QED
    BY <1>1, <1>2, <2>1, <2>2, <2>3, <2>4, <2>5 DEF Typed, Whole, Sound, Expanded, HasScene
<1>9. GrabHolds'
  <2>1. CASE grab.view = v
    BY <1>1, <2>1, NoneHeld
  <2>2. CASE grab.view # v
    <3>1. grab.mode # "passthrough" => grab.view \in Views
      BY <1>2 DEF Typed, GrabTyped
    <3>2. grab.mode # "passthrough" => view'[grab.view].y = view[grab.view].y
                                       /\ view'[grab.view].asked = view[grab.view].asked
      BY <1>6, <2>2, <3>1 DEF Alike
    <3>3. overtaken' = overtaken
      BY <2>2 DEF Gone
    <3> QED
      BY <1>1, <1>2, <2>2, <3>2, <3>3, StillHeld DEF IInv
  <2> QED
    BY <2>1, <2>2
<1>10. GrabNeedsButton'
  <2>1. CASE grab.view = v
    BY <1>1, <2>1, NoneHeld
  <2>2. CASE grab.view # v
    BY <1>1, <2>2 DEF IInv, GrabNeedsButton
  <2> QED
    BY <2>1, <2>2
<1>11. ResizingTold'
  <2> SUFFICES ASSUME NEW u \in Views \ Xwayland
               PROVE  /\ Resizes(grab', u) => view'[u].resizing
                      /\ view'[u].resizing => Resizes(grab', u) \/ u \in superseded'
    BY DEF ResizingTold, Resizes
  <2>1. /\ Resizes(grab, u) => view[u].resizing
        /\ view[u].resizing => Resizes(grab, u) \/ u \in superseded
    BY DEF IInv, ResizingTold
  <2>2. Resizes(grab', u) <=> Resizes(grab, u) /\ grab.view # v
    BY <1>1 DEF Resizes, NoGrab
  <2>3. CASE u = v
    BY <1>5, <2>2, <2>3 DEF Resizes
  <2>4. CASE u # v
    <3>1. view'[u].resizing = view[u].resizing
      BY <1>3, <1>5, <2>4
    <3>2. Resizes(grab, u) => grab.view # v
      BY <2>4 DEF Resizes
    <3> QED
      BY <1>1, <2>1, <2>2, <2>4, <3>1, <3>2
  <2> QED
    BY <2>3, <2>4
<1>12. X11Agrees'
  <2>1. Xwayland \subseteq Views
    BY GeometryAssumption
  <2> QED
    BY <1>1, <1>5, <1>6, <2>1 DEF IInv, X11Agrees, Alike
<1>13. HomeIsKept'
  <2> SUFFICES ASSUME NEW u \in Views, steady'[u]
               PROVE  AtHome(view'[u], home'[u])
    BY DEF HomeIsKept
  <2>1. u # v /\ steady[u] /\ home'[u] = home[u]
    BY <1>1, <1>2 DEF Typed
  <2>2. AtHome(view[u], home[u]) /\ Alike(view[u], view'[u])
    BY <1>6, <2>1 DEF IInv, HomeIsKept
  <2> QED
    BY <2>1, <2>2 DEF AtHome, Alike, Expanded
<1> QED
  BY <1>8, <1>9, <1>10, <1>11, <1>12, <1>13 DEF IInv

LEMMA LeavingStep ==
    ASSUME IInv, NEW v \in Views, Unmap(v) \/ Dissociate(v) \/ Destroy(v)
    PROVE  IInv'
<1>1. Whole(v, view[v])
  BY DEF IInv, Typed
<1>2. CASE Unmap(v)
  <2> DEFINE r == [view[v] EXCEPT !.mapped = FALSE]
  <2>1. /\ Whole(v, r) /\ ~r.resizing /\ Gone(v, r)
        /\ r.scened = view[v].scened /\ r.y = view[v].y /\ r.xy = view[v].xy
    BY <1>1, <1>2 DEF Unmap, Whole, Sound, View, Expanded, HasScene
  <2> HIDE DEF r
  <2> QED
    BY <2>1, GoneStep
<1>4. CASE Dissociate(v)
  <2> DEFINE r == [view[v] EXCEPT !.scened = FALSE]
  <2>1. Whole(v, r) /\ ~r.resizing /\ ~r.scened /\ Gone(v, r)
    BY <1>1, <1>4 DEF Dissociate, Whole, Sound, View, Expanded, HasScene
  <2> HIDE DEF r
  <2> QED
    BY <2>1, GoneStep
<1>3. CASE Destroy(v)
  <2>1. Whole(v, New) /\ ~New.scened /\ ~New.resizing
    BY DEF New, Whole, Sound, View
  <2> QED
    BY <1>3, <2>1, GoneStep DEF Destroy
<1> QED
  BY <1>2, <1>3, <1>4

LEMMA ToggleStep ==
    ASSUME IInv, NEW v \in Views, NEW kind \in {"full", "max"}, Toggle(v, kind)
    PROVE  IInv'
<1> DEFINE on == ~(IF kind = "full" THEN view[v].full ELSE view[v].max)
<1>1. Happens /\ UNCHANGED <<cursor, down, origin, cascade>>
  BY DEF Toggle
<1>2. PICK ends \in {TRUE} \cup (IF view[v].mapped THEN {grab.view = v} ELSE {}) :
        LET base == IF ends THEN Ended(view) ELSE view
            r == SetState(v, base[v], kind, on)
        IN  /\ view' = [base EXCEPT ![v] = r]
            /\ IF ends THEN EndInteractive ELSE UNCHANGED <<grab, overtaken, superseded>>
            /\ Note(v, r, FALSE)
            /\ skewed' = Unskewed(v, r)
  BY DEF Toggle
<1> DEFINE base == IF ends THEN Ended(view) ELSE view
           r == SetState(v, base[v], kind, on)
<1>3. Typed /\ HomeIsKept /\ X11Agrees /\ Whole(v, view[v])
  BY DEF IInv, Typed
<1>4. on \in BOOLEAN
  OBVIOUS
<1>5. ~ends => grab.view # v
  OBVIOUS
<1>6. /\ view' = [base EXCEPT ![v] = r] /\ Note(v, r, FALSE) /\ skewed' = Unskewed(v, r)
      /\ ends => EndInteractive
      /\ ~ends => UNCHANGED <<grab, overtaken, superseded>>
  BY <1>2
<1>7. /\ Fine(base) /\ \A u \in Views : Alike(view[u], base[u])
      /\ \A u \in Views \ Xwayland :
           base[u].resizing = (view[u].resizing /\ ~(ends /\ Resizes(grab, u)))
  <2>1. CASE ends
    BY <1>3, <2>1, EndedIs
  <2>2. CASE ~ends
    BY <1>3, <2>2 DEF Typed, Fine, Alike, Whole, Sound, View
  <2> QED
    BY <2>1, <2>2
<1> HIDE DEF base, on
<1>8. Whole(v, base[v]) /\ Alike(view[v], base[v])
  BY <1>7 DEF Fine
<1>9. /\ Whole(v, r) /\ r.scened = base[v].scened /\ r.resizing = base[v].resizing
      /\ v \in Xwayland /\ base[v].scened /\ Agrees(base[v]) => Agrees(r)
  BY <1>4, <1>8, SetStateIs DEF Agrees
<1> HIDE DEF r
<1>10. Fine([base EXCEPT ![v] = r])
  BY ONLY <1>7, <1>9, v \in Views, Replaced
<1>11. view'[v] = r /\ \A u \in Views : u # v => view'[u] = base[u]
  BY <1>6, <1>7 DEF Fine
<1>12. \A u \in Views : u # v => Alike(view[u], view'[u])
  BY <1>7, <1>11
<1>13. r.scened = view[v].scened
  BY <1>8, <1>9 DEF Alike
<1>14. Typed'
  <2>1. view' = [u \in Views |-> view'[u]] /\ \A u \in Views : Whole(u, view'[u])
    BY <1>6, <1>10 DEF Fine
  <2>2. GrabTyped'
    <3>1. CASE ends
      BY <1>6, <3>1, NoneHeld DEF EndInteractive
    <3>2. CASE ~ends
      BY <1>3, <1>5, <1>6, <1>12, <3>2 DEF Typed, GrabTyped, Alike, NoGrab, HasScene
    <3> QED
      BY <3>1, <3>2
  <2>3. home' \in [Views -> {None} \cup Box] /\ steady' \in [Views -> BOOLEAN]
    BY <1>3, <1>6, NoteIs
  <2>4. events' \in 0..MaxEvents
    BY <1>1, <1>3, Counted DEF Typed
  <2> QED
    BY <1>1, <1>3, <2>1, <2>2, <2>3, <2>4 DEF Typed, Whole, Sound, Expanded, HasScene
<1>15. GrabHolds' /\ GrabNeedsButton'
  <2>1. CASE ends
    BY <1>6, <2>1, NoneHeld DEF EndInteractive
  <2>2. CASE ~ends
    <3>1. grab.mode # "passthrough" => grab.view \in Views /\ grab.view # v
      BY <1>3, <1>5, <2>2 DEF Typed, GrabTyped
    <3>2. grab.mode # "passthrough" => view'[grab.view].y = view[grab.view].y
                                       /\ view'[grab.view].asked = view[grab.view].asked
      BY <1>12, <3>1 DEF Alike
    <3>3. GrabHolds'
      BY <1>1, <1>3, <1>6, <2>2, <3>2, StillHeld DEF IInv
    <3> QED
      BY <1>1, <1>6, <2>2, <3>3 DEF IInv, GrabNeedsButton
  <2> QED
    BY <2>1, <2>2
<1>16. ResizingTold'
  <2> SUFFICES ASSUME NEW u \in Views \ Xwayland
               PROVE  /\ Resizes(grab', u) => view'[u].resizing
                      /\ view'[u].resizing => Resizes(grab', u) \/ u \in superseded'
    BY DEF ResizingTold, Resizes
  <2>1. /\ Resizes(grab, u) => view[u].resizing
        /\ view[u].resizing => Resizes(grab, u) \/ u \in superseded
    BY DEF IInv, ResizingTold
  <2>2. view'[u].resizing = (view[u].resizing /\ ~(ends /\ Resizes(grab, u)))
    BY <1>7, <1>9, <1>11
  <2>3. CASE ends
    <3>1. grab' = NoGrab /\ (u \in superseded /\ ~Resizes(grab, u) => u \in superseded')
      BY <1>6, <2>3 DEF EndInteractive, Resizes
    <3>2. ~Resizes(grab', u)
      BY <3>1 DEF Resizes, NoGrab
    <3> QED
      BY <2>1, <2>2, <2>3, <3>1, <3>2
  <2>4. CASE ~ends
    BY <1>6, <2>1, <2>2, <2>4 DEF Resizes
  <2> QED
    BY <2>3, <2>4
<1>17. X11Agrees'
  <2>1. Agrees(base[v]) <=> Agrees(view[v])
    BY <1>8 DEF Agrees, Alike
  <2>2. v \in Xwayland /\ r.scened => view[v].scened /\ (Agrees(r) \/ ~Agrees(view[v]))
    BY <1>8, <1>9, <1>13, <2>1 DEF Alike
  <2> QED
    BY <1>3, <1>6, <1>11, <1>12, <2>2, AgreesStays
<1>18. HomeIsKept'
  <2>1. steady'[v] => AtHome(r, home'[v])
    BY <1>3, <1>4, <1>6, <1>8, StateKeepsHome DEF r
  <2>2. \E moved \in BOOLEAN : Note(v, r, moved)
    BY <1>6
  <2> QED
    BY <1>3, <1>11, <1>12, <2>1, <2>2, HomeStays
<1> QED
  BY <1>14, <1>15, <1>16, <1>17, <1>18 DEF IInv

LEMMA PressStep ==
    ASSUME IInv, NEW b \in Buttons, Press(b)
    PROVE  IInv'
<1>1. /\ down' = down \cup {b} /\ Happens
      /\ UNCHANGED <<view, grab, cursor, cascade, home, steady, overtaken, superseded, skewed>>
  BY DEF Press, Pressed, history
<1>2. Typed'
  BY <1>1, Counted DEF IInv, Typed, GrabTyped, Whole, Sound, Expanded, NoGrab, HasScene
<1>3. GrabHolds' /\ GrabNeedsButton' /\ ResizingTold' /\ X11Agrees' /\ HomeIsKept'
  BY <1>1 DEF IInv, GrabHolds, Least, GrabNeedsButton, ResizingTold, Resizes, X11Agrees,
              HomeIsKept, AtHome, Expanded
<1> QED
  BY <1>2, <1>3 DEF IInv

LEMMA ReleaseStep ==
    ASSUME IInv, NEW b \in Buttons, Release(b)
    PROVE  IInv'
<1>1. /\ b \in down /\ down' = down \ {b} /\ down' \subseteq Buttons
      /\ UNCHANGED <<cursor, cascade, events, home, steady, skewed>>
  BY DEF Release, IInv, Typed
<1>2. CASE ReleaseEnds(b)
  BY <1>1, <1>2, EndStep DEF Release
<1>3. CASE ~ReleaseEnds(b)
  <2>1. UNCHANGED <<view, grab, overtaken, superseded>>
    BY <1>3 DEF Release
  <2>2. Typed'
    BY <1>1, <2>1 DEF IInv, Typed, GrabTyped, Whole, Sound, Expanded, NoGrab, HasScene
  <2>3. GrabNeedsButton'
    BY <1>1, <1>3, <2>1 DEF IInv, GrabNeedsButton, ReleaseEnds
  <2>4. GrabHolds' /\ ResizingTold' /\ X11Agrees' /\ HomeIsKept'
    BY <1>1, <2>1 DEF IInv, GrabHolds, Least, ResizingTold, Resizes, X11Agrees,
                      HomeIsKept, AtHome, Expanded
  <2> QED
    BY <2>2, <2>3, <2>4 DEF IInv
<1> QED
  BY <1>2, <1>3

-----------------------------------------------------------------------------
\* The pointer moves the window or an edge of it.
LEMMA MovedIs ==
    ASSUME IInv, NEW c \in Cursors, grab.mode = "move"
    PROVE  LET r == Moved(c) IN
           /\ Whole(grab.view, r) /\ Kept(view[grab.view], r)
           /\ r.y = grab.vy + (c - grab.ly)
           /\ grab.view \in Xwayland => Agrees(r)
<1> DEFINE v == grab.view
           y == grab.vy + (c - grab.ly)
           p == Positioned(view[v], y)
           h == AtLeast(grab.vh - Trim, 1)
<1>1. v \in Views /\ Whole(v, view[v]) /\ grab.vy \in Int /\ grab.ly \in Int /\ grab.vh \in Int
  BY DEF IInv, Typed, GrabTyped, Grab
<1>2. y \in Int /\ h \in Nat \ {0}
  BY <1>1, Numbers DEF AtLeast
<1>3. Moved(c) = IF v \in Xwayland THEN Configured(v, p, y, h) ELSE p
  BY DEF Moved
<1> HIDE DEF y, h
<1>4. Whole(v, p) /\ p.y = y /\ Kept(view[v], p)
  BY <1>1, <1>2 DEF Positioned, Whole, Sound, View, Kept, Expanded
<1> HIDE DEF v, p
<1>5. CASE v \in Xwayland
  <2>1. LET s == Configured(v, p, y, h) IN
        /\ Sound(v, s) /\ s.y = p.y /\ Kept(p, s)
        /\ s.xy = IF v \in Xwayland THEN y + Title ELSE p.xy
    BY <1>2, <1>4, ConfiguredIs DEF Whole
  <2> QED
    BY <1>3, <1>4, <1>5, <2>1 DEF Whole, Kept, Expanded, Agrees, v, y
<1>6. CASE v \notin Xwayland
  BY <1>3, <1>4, <1>6 DEF v, y
<1> QED
  BY <1>5, <1>6

LEMMA ResizedIs ==
    ASSUME IInv, NEW c \in Cursors, grab.mode = "resize"
    PROVE  LET r == Resized(c) IN
           /\ Whole(grab.view, r) /\ Kept(view[grab.view], r)
           /\ Frame(r.asked) >= Least(grab.view)
           /\ "top" \in grab.edges => r.y + Frame(r.asked) = grab.vy + grab.vh
           /\ "top" \notin grab.edges => r.y = grab.vy \/ r.y = view[grab.view].y
           /\ "top" \notin grab.edges /\ "left" \in grab.edges => r.y = grab.vy
           /\ grab.view \in Xwayland =>
                Agrees(r) \/ ("top" \notin grab.edges /\ r.xy = grab.vy + Title)
<1> DEFINE v == grab.view
           fh == AtLeast(Wished(c - grab.ly), Least(v))
           y == IF "top" \in grab.edges THEN grab.vy + grab.vh - fh ELSE grab.vy
           p == IF grab.edges \cap {"top", "left"} # {} THEN Positioned(view[v], y) ELSE view[v]
           h == AtLeast(fh - Trim, 1)
<1>1. v \in Views /\ Whole(v, view[v]) /\ grab.vy \in Int /\ grab.ly \in Int /\ grab.vh \in Int
  BY DEF IInv, Typed, GrabTyped, Grab
<1>2. /\ Wished(c - grab.ly) \in Int
      /\ Least(v) \in Int /\ Least(v) - Trim >= 1
  BY <1>1, Numbers DEF Wished, Least, Frame, AtLeast
<1>3. fh \in Int /\ fh >= Least(v)
  BY <1>2 DEF AtLeast
<1> HIDE DEF fh
<1>4. h \in Nat \ {0} /\ Frame(h) = fh /\ y \in Int
  BY <1>1, <1>2, <1>3, Numbers DEF AtLeast, Frame
<1>5. Resized(c) = Configured(v, p, y, h)
  BY DEF Resized, ResizedTo, fh
<1>8. "top" \in grab.edges => y + fh = grab.vy + grab.vh
  BY <1>1, <1>3
<1>9. "top" \notin grab.edges => y = grab.vy
  OBVIOUS
<1> HIDE DEF y, h
<1>6. /\ Whole(v, p) /\ Kept(view[v], p)
      /\ "top" \in grab.edges \/ "left" \in grab.edges => p.y = y
      /\ p.y = y \/ p.y = view[v].y
  BY <1>1, <1>4 DEF Positioned, Whole, Sound, View, Kept, Expanded
<1> HIDE DEF v, p
<1>7. LET s == Configured(v, p, y, h) IN
      /\ Sound(v, s) /\ s.y = p.y /\ s.asked = h /\ Kept(p, s)
      /\ s.xy = IF v \in Xwayland THEN y + Title ELSE p.xy
  BY <1>4, <1>6, ConfiguredIs DEF Whole
<1> DEFINE r == Resized(c)
<1>10. r.y = p.y /\ r.asked = h /\ Whole(v, r) /\ Kept(view[v], r)
  BY <1>5, <1>6, <1>7 DEF Whole, Kept, Expanded
<1>11. v \in Xwayland => r.xy = y + Title
  BY <1>5, <1>7
<1> HIDE DEF r
<1>12. Frame(r.asked) >= Least(v)
  BY <1>3, <1>4, <1>10
<1>13. "top" \in grab.edges => r.y + Frame(r.asked) = grab.vy + grab.vh
  BY <1>4, <1>6, <1>8, <1>10
<1>14. "top" \notin grab.edges => r.y = grab.vy \/ r.y = view[v].y
  BY <1>6, <1>9, <1>10
<1>16. "top" \notin grab.edges /\ "left" \in grab.edges => r.y = grab.vy
  BY <1>6, <1>9, <1>10
<1>15. v \in Xwayland => Agrees(r) \/ ("top" \notin grab.edges /\ r.xy = grab.vy + Title)
  BY <1>6, <1>9, <1>10, <1>11 DEF Agrees
<1> QED
  BY <1>10, <1>12, <1>13, <1>14, <1>15, <1>16 DEF r, v

LEMMA MotionStep ==
    ASSUME IInv, NEW c \in Cursors, Motion(c)
    PROVE  IInv'
<1>1. cursor' = c /\ UNCHANGED <<grab, down, origin, cascade, events>>
  BY DEF Motion
<1>2. Typed /\ GrabHolds /\ X11Agrees /\ HomeIsKept
  BY DEF IInv
<1>3. GrabNeedsButton'
  BY <1>1 DEF IInv, GrabNeedsButton
<1>4. CASE grab.mode = "passthrough"
  <2>1. UNCHANGED <<view, home, steady, overtaken, superseded, skewed>>
    BY <1>4 DEF Motion, history
  <2>2. Typed'
    BY <1>1, <1>2, <2>1 DEF Typed, GrabTyped, Whole, Sound, Expanded, NoGrab, HasScene
  <2>3. GrabHolds'
    BY <1>1, <1>4 DEF GrabHolds
  <2>4. ResizingTold' /\ X11Agrees' /\ HomeIsKept'
    BY <1>1, <2>1 DEF IInv, ResizingTold, Resizes, X11Agrees, HomeIsKept, AtHome, Expanded
  <2> QED
    BY <1>3, <2>2, <2>3, <2>4 DEF IInv
<1>5. CASE grab.mode # "passthrough"
  <2> DEFINE v == grab.view
             r == IF grab.mode = "move" THEN Moved(c) ELSE Resized(c)
  <2>1. /\ view' = [view EXCEPT ![v] = r] /\ Note(v, r, TRUE)
        /\ skewed' = IF v \in Xwayland /\ r.xy # r.y + Title /\ "position" \in overtaken
                     THEN skewed \cup {v} ELSE skewed
        /\ overtaken' = IF grab.mode = "move" \/ grab.edges \cap {"top", "left"} # {}
                        THEN {} ELSE overtaken \ {"size"}
        /\ UNCHANGED superseded
    BY <1>5 DEF Motion
  <2>2. grab.mode \in {"move", "resize"} /\ v \in Views /\ Fine(view)
    BY <1>2, <1>5 DEF Typed, GrabTyped, Grab, Fine
  <2>3. /\ Whole(v, r) /\ Kept(view[v], r)
        /\ grab.mode = "move" => r.y = grab.vy + (c - grab.ly)
        /\ grab.mode = "resize" =>
             /\ Frame(r.asked) >= Least(v)
             /\ "top" \in grab.edges => r.y + Frame(r.asked) = grab.vy + grab.vh
             /\ "top" \notin grab.edges => r.y = grab.vy \/ r.y = view[v].y
             /\ "top" \notin grab.edges /\ "left" \in grab.edges => r.y = grab.vy
        /\ v \in Xwayland =>
             \/ Agrees(r)
             \/ grab.mode = "resize" /\ "top" \notin grab.edges /\ r.xy = grab.vy + Title
    <3>1. CASE grab.mode = "move"
      BY <3>1, MovedIs
    <3>2. CASE grab.mode = "resize"
      BY <3>2, ResizedIs
    <3> QED
      BY <2>2, <3>1, <3>2
  <2> HIDE DEF v, r
  <2>4. Fine([view EXCEPT ![v] = r])
    BY ONLY <2>2, <2>3, Replaced
  <2>5. view'[v] = r /\ \A u \in Views : u # v => view'[u] = view[u]
    BY <2>1, <2>2 DEF Fine
  <2>6. \A u \in Views : Kept(view[u], view'[u])
    BY <2>3, <2>5 DEF Kept
  <2>7. \A u \in Views : u # v => Alike(view[u], view'[u])
    BY <2>5 DEF Alike
  <2>8. Typed'
    <3>1. view' = [u \in Views |-> view'[u]] /\ \A u \in Views : Whole(u, view'[u])
      BY <2>1, <2>4 DEF Fine
    <3>2. GrabTyped'
      BY <1>1, <1>2, <2>6 DEF Typed, GrabTyped, Kept, NoGrab, HasScene
    <3>3. \E moved \in BOOLEAN : Note(v, r, moved)
      BY <2>1
    <3>4. home' \in [Views -> {None} \cup Box] /\ steady' \in [Views -> BOOLEAN]
      BY <1>2, <2>2, <3>3, NoteIs
    <3> QED
      BY <1>1, <1>2, <3>1, <3>2, <3>4 DEF Typed, Whole, Sound, Expanded, HasScene
  <2>9. grab.mode = "resize" /\ "position" \notin overtaken /\ "top" \notin grab.edges
        => r.y = grab.vy
    BY <1>2, <2>3 DEF GrabHolds, v
  <2>10. GrabHolds'
    <3>1. grab.vy \in Int /\ grab.ly \in Int /\ c \in Int
      BY <1>2, Numbers DEF Typed, GrabTyped, Grab
    <3>2. grab' = grab /\ cursor' = c /\ view'[grab.view] = r
      BY <1>1, <2>1, <2>5 DEF v
    <3>3. grab.mode = "move" => r.y - c = grab.vy - grab.ly
      BY <2>3, <3>1
    <3>4. grab.mode = "resize" /\ "position" \notin overtaken' /\ "top" \notin grab.edges
          => r.y = grab.vy
      <4>1. CASE "left" \in grab.edges
        BY <2>3, <4>1
      <4>2. CASE "left" \notin grab.edges
        BY <2>1, <2>9, <4>2
      <4> QED
        BY <4>1, <4>2
    <3>5. grab.mode = "resize" /\ "top" \in grab.edges =>
            Frame(r.asked) >= Least(v)' /\ r.y + Frame(r.asked) = grab.vy + grab.vh
      BY <2>3, <3>2 DEF Least, v
    <3> QED
      BY <3>2, <3>3, <3>4, <3>5 DEF GrabHolds, Least, v
  <2>11. ResizingTold'
    <3>1. \A u \in Views : view'[u].resizing = view[u].resizing
      BY <2>6 DEF Kept
    <3> QED
      BY <1>1, <2>1, <3>1, ToldStays DEF IInv
  <2>12. X11Agrees'
    <3> SUFFICES ASSUME NEW u \in Xwayland, view'[u].scened
                 PROVE  view'[u].xy = view'[u].y + Title \/ u \in skewed'
      BY DEF X11Agrees
    <3>1. u \in Views
      BY GeometryAssumption
    <3>2. CASE u # v
      BY <1>2, <2>1, <2>5, <3>1, <3>2 DEF X11Agrees
    <3>3. CASE u = v
      <4>1. CASE Agrees(r)
        BY <2>5, <3>3, <4>1 DEF Agrees
      <4>2. CASE ~Agrees(r)
        <5>1. grab.mode = "resize" /\ "top" \notin grab.edges /\ r.xy = grab.vy + Title
          BY <2>3, <3>3, <4>2
        <5>2. CASE "position" \in overtaken
          BY <2>1, <3>3, <4>2, <5>2 DEF Agrees
        <5>3. CASE "position" \notin overtaken
          BY <2>9, <4>2, <5>1, <5>3 DEF Agrees
        <5> QED
          BY <5>2, <5>3
      <4> QED
        BY <4>1, <4>2
    <3> QED
      BY <3>2, <3>3
  <2>13. HomeIsKept'
    <3> DEFINE moved == TRUE
    <3>1. moved \in BOOLEAN /\ Note(v, r, moved) /\ moved
      BY <2>1
    <3> HIDE DEF moved
    <3>2. ~steady'[v]
      BY <1>2, <2>2, <3>1, NoteIs
    <3> QED
      BY <1>2, <2>2, <2>5, <2>7, <3>1, <3>2, HomeStays
  <2> QED
    BY <1>3, <2>8, <2>10, <2>11, <2>12, <2>13 DEF IInv
<1> QED
  BY <1>4, <1>5

-----------------------------------------------------------------------------
LEMMA Initially == Init => IInv
<1> SUFFICES ASSUME Init PROVE IInv
  OBVIOUS
<1>1. \A v : Whole(v, New)
  BY DEF New, Whole, Sound, View
<1>2. \A v \in Views : view[v] = New
  BY DEF Init
<1>3. GrabTyped
  BY DEF Init, GrabTyped, NoGrab, Grab
<1>4. Typed
  BY <1>1, <1>2, <1>3, Numbers DEF Init, Typed
<1>5. GrabHolds /\ GrabNeedsButton
  BY DEF Init, GrabHolds, GrabNeedsButton, NoGrab
<1>6. ResizingTold /\ X11Agrees
  BY <1>2, GeometryAssumption DEF Init, ResizingTold, Resizes, X11Agrees, NoGrab, New
<1>7. HomeIsKept
  BY DEF Init, HomeIsKept
<1> QED
  BY <1>4, <1>5, <1>6, <1>7 DEF IInv

LEMMA StutterStep ==
    ASSUME IInv, UNCHANGED vars
    PROVE  IInv'
BY DEF IInv, vars, Typed, Whole, Sound, Expanded, GrabTyped, NoGrab, HasScene, GrabHolds, Least,
       GrabNeedsButton, ResizingTold, Resizes, X11Agrees, HomeIsKept, AtHome

LEMMA Inductive == IInv /\ [Next]_vars => IInv'
<1> SUFFICES ASSUME IInv, [Next]_vars PROVE IInv'
  OBVIOUS
<1>1. ASSUME NEW v \in Views,
             \/ MapRequest(v) \/ Associate(v) \/ Map(v) \/ Unmap(v) \/ Dissociate(v)
             \/ Destroy(v) \/ Commit(v) \/ RequestConfigure(v)
      PROVE  IInv'
  BY <1>1, MapRequestStep, AssociateStep, MapStep, LeavingStep, CommitStep,
     RequestConfigureStep
<1>2. ASSUME NEW v \in Views, NEW kind \in {"full", "max"}, Toggle(v, kind)
      PROVE  IInv'
  BY <1>2, ToggleStep
<1>3. ASSUME NEW v \in Views, NEW kind \in {"full", "max"}, NEW on \in BOOLEAN,
             RequestState(v, kind, on)
      PROVE  IInv'
  BY <1>3, RequestStateStep
<1>4. ASSUME NEW v \in Views, NEW b \in Buttons, AltPress(v, b)
      PROVE  IInv'
  BY <1>4, AltPressStep
<1>5. ASSUME NEW v \in Views,
             RequestInteractive(v, "move", {}) \/ XwaylandRequestInteractive(v, "move", {})
      PROVE  IInv'
  BY <1>5, RequestInteractiveStep, XwaylandRequestInteractiveStep
<1>6. ASSUME NEW v \in Views, NEW edges \in Edges,
             \/ RequestInteractive(v, "resize", edges)
             \/ XwaylandRequestInteractive(v, "resize", edges)
      PROVE  IInv'
  BY <1>6, RequestInteractiveStep, XwaylandRequestInteractiveStep
<1>7. ASSUME NEW b \in Buttons, Press(b) \/ Release(b)
      PROVE  IInv'
  BY <1>7, PressStep, ReleaseStep
<1>8. ASSUME NEW c \in Cursors, Motion(c)
      PROVE  IInv'
  BY <1>8, MotionStep
<1>9. CASE Interrupt
  <2>1. down' \subseteq Buttons
    BY <1>9 DEF Interrupt, IInv, Typed
  <2> QED
    BY <1>9, <2>1, EndStep DEF Interrupt
<1>10. CASE UNCHANGED vars
  BY <1>10, StutterStep
<1> QED
  BY <1>1, <1>2, <1>3, <1>4, <1>5, <1>6, <1>7, <1>8, <1>9, <1>10 DEF Next

LEMMA Invariance == Spec => []IInv
BY Initially, Inductive, PTL DEF Spec

-----------------------------------------------------------------------------
\* The fields of a window and of the grab are never in a combination that the
\* handlers do not expect; nothing is saved of a window that is in neither state.
THEOREM FieldsAgree == Spec => []Consistent
<1>1. IInv => Consistent
  <2> SUFFICES ASSUME IInv PROVE Consistent
    OBVIOUS
  <2>1. \A v \in Views : Whole(v, view[v])
    BY DEF IInv, Typed
  <2>2. /\ grab.mode = "passthrough" <=> grab = NoGrab
        /\ grab.view \in Xwayland => view[grab.view].scened
    BY GeometryAssumption DEF IInv, Typed, GrabTyped, NoGrab, HasScene
  <2>3. /\ cursor \in Cursors /\ down \subseteq Buttons /\ cascade \in 0..(Wrap - 1)
        /\ events \in 0..MaxEvents
    BY DEF IInv, Typed
  <2>4. \A v \in Views :
          LET r == view[v] IN
          /\ r.y \in Int /\ r.xy \in Int /\ r.h \in Nat \ {0} /\ r.asked \in Nat
          /\ {r.scened, r.mapped, r.placed, r.acked, r.resizing} \subseteq BOOLEAN
          /\ r.acked => r.full = r.wfull /\ r.max = r.wmax
          /\ v \in Xwayland => r.acked /\ ~r.resizing /\ (r.scened => r.asked = r.h)
          /\ r.mapped => r.placed /\ HasScene(v, r)
    BY <2>1 DEF Whole, Sound, View, HasScene
  <2>5. TypeOK
    BY <2>2, <2>3, <2>4 DEF TypeOK
  <2>6. SavedOnlyExpanded
    BY <2>1 DEF SavedOnlyExpanded, Whole
  <2> QED
    BY <2>5, <2>6 DEF Consistent
<1> QED
  BY Invariance, <1>1, PTL

\* The pointer stays on the point where it took hold of a window, and the edge
\* opposite to a dragged one stays for the size last asked of the client, also at
\* the minimum; what others give the window under the grab lasts to the next motion,
\* but for a position while the bottom edge alone is dragged.
THEOREM GrabsHold == Spec => []GrabHolds
<1>1. IInv => GrabHolds
  BY DEF IInv
<1> QED
  BY Invariance, <1>1, PTL

\* Only an X11 client's request leaves a grab without a button that is held.
THEOREM GrabsNeedAButton == Spec => []GrabNeedsButton
<1>1. IInv => GrabNeedsButton
  BY DEF IInv
<1> QED
  BY Invariance, <1>1, PTL

\* Wayland clients know whether they are being resized.
THEOREM ClientsToldOfResizing == Spec => []ResizingTold
<1>1. IInv => ResizingTold
  BY DEF IInv
<1> QED
  BY Invariance, <1>1, PTL

\* X11 windows are where their clients were told they are.
THEOREM X11ClientsAgree == Spec => []X11Agrees
<1>1. IInv => X11Agrees
  BY DEF IInv
<1> QED
  BY Invariance, <1>1, PTL

-----------------------------------------------------------------------------
\* Only the requests for a state and the toggles change whether a window that
\* stays mapped is in one.
LEMMA OthersKeepStates ==
    ASSUME IInv, NEW v \in Views, view'[v].mapped,
           \/ \E u \in Views :
                \/ MapRequest(u) \/ Associate(u) \/ Map(u) \/ Unmap(u) \/ Dissociate(u)
                \/ Destroy(u) \/ Commit(u) \/ RequestConfigure(u)
           \/ \E u \in Views, b \in Buttons : AltPress(u, b)
           \/ \E u \in Views :
                RequestInteractive(u, "move", {}) \/ XwaylandRequestInteractive(u, "move", {})
           \/ \E u \in Views, edges \in Edges :
                \/ RequestInteractive(u, "resize", edges)
                \/ XwaylandRequestInteractive(u, "resize", edges)
           \/ \E b \in Buttons : Press(b) \/ Release(b)
           \/ \E c \in Cursors : Motion(c)
           \/ Interrupt
           \/ UNCHANGED vars
    PROVE  Expanded(view[v]) => Expanded(view'[v])
<1>1. Typed /\ Fine(view) /\ \A u \in Views : Whole(u, view[u])
  BY DEF IInv, Typed, Fine
<1>2. ASSUME NEW u \in Views, NEW r, view' = [view EXCEPT ![u] = r],
             r.wfull = view[u].wfull, r.wmax = view[u].wmax
      PROVE  Expanded(view[v]) => Expanded(view'[v])
  <2>1. view'[v] = IF v = u THEN r ELSE view[v]
    BY <1>1, <1>2 DEF Fine
  <2> QED
    BY <1>2, <2>1 DEF Expanded
<1>3. ASSUME view' = Ended(view) \/ view' = view
      PROVE  Expanded(view[v]) => Expanded(view'[v])
  <2>1. CASE view' = Ended(view)
    BY <1>1, <2>1, EndedIs DEF Alike, Expanded
  <2>2. CASE view' = view
    BY <2>2
  <2> QED
    BY <1>3, <2>1, <2>2
<1>14. ASSUME NEW u \in Views, MapRequest(u)
       PROVE  Expanded(view[v]) => Expanded(view'[v])
  <2>1. /\ u \in Xwayland /\ ~view[u].mapped
        /\ \E y \in IF view[u] = New THEN Places ELSE {view[u].xy},
             h \in IF view[u] = New THEN Sizes ELSE {view[u].h} :
             view' = [view EXCEPT ![u] = Requested(view[u], y, Usable(h))]
    BY <1>14 DEF MapRequest, Becomes
  <2>2. PICK y \in IF view[u] = New THEN Places ELSE {view[u].xy},
             h \in IF view[u] = New THEN Sizes ELSE {view[u].h} :
          view' = [view EXCEPT ![u] = Requested(view[u], y, Usable(h))]
    BY <2>1
  <2>3. y \in Int /\ Usable(h) \in Nat \ {0} /\ Whole(u, view[u])
    BY <1>1, Numbers DEF Usable, Whole, Sound, View
  <2>4. LET r == Requested(view[u], y, Usable(h)) IN
        r.wfull = view[u].wfull /\ r.wmax = view[u].wmax
    BY <2>1, <2>3, RequestedIs
  <2> QED
    BY <1>2, <2>2, <2>4
<1>15. ASSUME NEW u \in Views, Associate(u)
       PROVE  Expanded(view[v]) => Expanded(view'[v])
  <2> DEFINE r == [view[u] EXCEPT !.scened = TRUE, !.y = view[u].xy - Title,
                                  !.asked = view[u].h]
  <2>1. u \in Xwayland /\ ~view[u].scened /\ view' = [view EXCEPT ![u] = r]
    BY <1>15 DEF Associate, Becomes
  <2>2. r.wfull = view[u].wfull /\ r.wmax = view[u].wmax
    BY <1>1, <2>1, AssociatedIs
  <2> HIDE DEF r
  <2> QED
    BY <1>2, <2>1, <2>2
<1>4. ASSUME NEW u \in Views, Map(u)
      PROVE  Expanded(view[v]) => Expanded(view'[v])
  <2>1. PICK r \in Arrivals(u) : view' = [view EXCEPT ![u] = PlaceView(u, r)]
    BY <1>4 DEF Map, Becomes
  <2>2. /\ r \in View /\ Sound(u, [r EXCEPT !.placed = TRUE])
        /\ r.wfull = view[u].wfull /\ r.wmax = view[u].wmax
    BY <1>1, <1>4, ArrivalsAre DEF Map
  <2>3. Kept(r, PlaceView(u, r))
    BY <1>1, <2>2, PlaceViewIs DEF Typed
  <2> QED
    BY <1>2, <2>1, <2>2, <2>3 DEF Kept
<1>5. ASSUME NEW u \in Views, Unmap(u) \/ Dissociate(u) \/ Destroy(u)
      PROVE  Expanded(view[v]) => Expanded(view'[v])
  <2> DEFINE base == IF grab.view = u THEN Ended(view) ELSE view
  <2>1. PICK r : ~r.mapped /\ view' = [base EXCEPT ![u] = r]
    <3>1. CASE Unmap(u)
      <4>1. ~[view[u] EXCEPT !.mapped = FALSE].mapped
        BY <1>1 DEF Whole, Sound, View
      <4> QED
        BY <3>1, <4>1 DEF Unmap, Gone
    <3>2. CASE Destroy(u)
      <4>1. ~New.mapped
        BY DEF New
      <4> QED
        BY <3>2, <4>1 DEF Destroy, Gone
    <3>3. CASE Dissociate(u)
      <4>1. ~[view[u] EXCEPT !.scened = FALSE].mapped
        BY <1>1, <3>3 DEF Dissociate, Whole, Sound, View
      <4> QED
        BY <3>3, <4>1 DEF Dissociate, Gone
    <3> QED
      BY <1>5, <3>1, <3>2, <3>3
  <2>2. /\ Fine(base) /\ \A w \in Views : Alike(view[w], base[w])
    <3>1. CASE grab.view = u
      BY <1>1, <3>1, EndedIs
    <3>2. CASE grab.view # u
      BY <1>1, <3>2 DEF Alike
    <3> QED
      BY <3>1, <3>2
  <2> HIDE DEF base
  <2>3. view'[v] = IF v = u THEN r ELSE base[v]
    BY <2>1, <2>2 DEF Fine
  <2> QED
    BY <2>1, <2>2, <2>3 DEF Alike, Expanded
<1>6. ASSUME NEW u \in Views, Commit(u)
      PROVE  Expanded(view[v]) => Expanded(view'[v])
  <2>1. PICK h : view' = [view EXCEPT ![u] = [view[u] EXCEPT !.h = h, !.acked = TRUE,
                            !.full = view[u].wfull, !.max = view[u].wmax]]
    BY <1>6 DEF Commit
  <2> DEFINE r == [view[u] EXCEPT !.h = h, !.acked = TRUE,
                     !.full = view[u].wfull, !.max = view[u].wmax]
  <2>2. r.wfull = view[u].wfull /\ r.wmax = view[u].wmax
    BY <1>1 DEF Whole, Sound, View
  <2>3. view' = [view EXCEPT ![u] = r]
    BY <2>1
  <2> HIDE DEF r
  <2> QED
    BY <1>2, <2>2, <2>3
<1>7. ASSUME NEW u \in Views, RequestConfigure(u)
      PROVE  Expanded(view[v]) => Expanded(view'[v])
  <2>1. PICK y \in Places \cup {Content(u)}, h \in Sizes \cup {view[u].h} :
          view' = [view EXCEPT ![u] = ConfiguredAs(u, y, h)]
    BY <1>7 DEF RequestConfigure, Becomes
  <2>2. LET r == ConfiguredAs(u, y, h) IN r.wfull = view[u].wfull /\ r.wmax = view[u].wmax
    BY <1>7, ConfiguredAsIs DEF RequestConfigure
  <2> QED
    BY <1>2, <2>1, <2>2
<1>8. ASSUME NEW u \in Views, NEW mode, NEW edges, NEW b, NEW x11,
             BeginInteractive(u, mode, edges, b, x11)
      PROVE  Expanded(view[v]) => Expanded(view'[v])
  <2>1. CASE mode = "resize"
    <3>1. view' = [view EXCEPT ![u] = Told(u, view[u], TRUE)]
      BY <1>1, <1>8, <2>1 DEF BeginInteractive, Fine
    <3> DEFINE r == Told(u, view[u], TRUE)
    <3>2. r.wfull = view[u].wfull /\ r.wmax = view[u].wmax
      BY <1>1 DEF Told, Whole, Sound, View
    <3>3. view' = [view EXCEPT ![u] = r]
      BY <3>1
    <3> HIDE DEF r
    <3> QED
      BY <1>2, <3>2, <3>3
  <2>2. CASE mode # "resize"
    BY <1>3, <1>8, <2>2 DEF BeginInteractive
  <2> QED
    BY <2>1, <2>2
<1>9. ASSUME NEW u \in Views, NEW b \in Buttons, AltPress(u, b)
      PROVE  Expanded(view[v]) => Expanded(view'[v])
  <2>1. \E mode, edges : BeginInteractive(u, mode, edges, b, FALSE)
    <3>1. CASE b = "left"
      BY <1>9, <3>1 DEF AltPress
    <3>2. CASE b # "left"
      BY <1>9, <3>2 DEF AltPress
    <3> QED
      BY <3>1, <3>2
  <2> QED
    BY <1>8, <2>1
<1>10. ASSUME NEW u \in Views, NEW mode, NEW edges,
              \/ RequestInteractive(u, mode, edges)
              \/ XwaylandRequestInteractive(u, mode, edges)
       PROVE  Expanded(view[v]) => Expanded(view'[v])
  BY <1>8, <1>10 DEF RequestInteractive, XwaylandRequestInteractive
<1>11. ASSUME NEW b \in Buttons, Press(b) \/ Release(b)
       PROVE  Expanded(view[v]) => Expanded(view'[v])
  BY <1>3, <1>11 DEF Press, Release
<1>12. ASSUME NEW c \in Cursors, Motion(c)
       PROVE  Expanded(view[v]) => Expanded(view'[v])
  <2>1. CASE grab.mode = "passthrough"
    BY <1>3, <1>12, <2>1 DEF Motion
  <2>2. CASE grab.mode # "passthrough"
    <3> DEFINE r == IF grab.mode = "move" THEN Moved(c) ELSE Resized(c)
    <3>1. view' = [view EXCEPT ![grab.view] = r]
      BY <1>12, <2>2 DEF Motion
    <3>2. grab.view \in Views /\ grab.mode \in {"move", "resize"}
      BY <1>1, <2>2 DEF Typed, GrabTyped, Grab
    <3>3. Kept(view[grab.view], r)
      BY <3>2, MovedIs, ResizedIs
    <3> HIDE DEF r
    <3> QED
      BY <1>2, <3>1, <3>2, <3>3 DEF Kept
  <2> QED
    BY <2>1, <2>2
<1>13. ASSUME Interrupt \/ UNCHANGED vars
       PROVE  Expanded(view[v]) => Expanded(view'[v])
  BY <1>3, <1>13 DEF Interrupt, vars
<1> QED
  BY <1>4, <1>5, <1>6, <1>7, <1>9, <1>10, <1>11, <1>12, <1>13, <1>14, <1>15

LEMMA StateComesHome ==
    ASSUME Typed, HomeIsKept, NEW v \in Views, steady[v], NEW b, Whole(v, b), Alike(view[v], b),
           NEW kind \in {"full", "max"}, NEW on \in BOOLEAN,
           NEW s, s = SetState(v, b, kind, on), s.mapped, ~Expanded(s)
    PROVE  s.y = home[v].y /\ s.asked = home[v].h
<1>1. AtHome(view[v], home[v])
  BY DEF HomeIsKept
<1>2. ~on /\ b.mapped
  <2>1. on => Expanded(SetState(v, b, kind, on))
    BY ONLY Whole(v, b), kind \in {"full", "max"}, on \in BOOLEAN, SetStateIs
  <2>2. SetState(v, b, kind, on).mapped = b.mapped
    BY ONLY Whole(v, b), kind \in {"full", "max"}, on \in BOOLEAN, SetStateIs
  <2> QED
    BY <2>1, <2>2
<1>3. HasScene(v, b) /\ b.saved = view[v].saved /\ b.y = view[v].y /\ b.asked = view[v].asked
  BY <1>2 DEF Alike, HasScene, Whole, Sound
<1>4. IF b.saved # None THEN s.y = b.saved.y /\ s.asked = AtLeast(b.saved.h - Trim, 1)
                        ELSE s.y = b.y /\ s.asked = b.asked
  BY <1>2, <1>3, SetStateIs
<1>5. AtLeast(Frame(home[v].h) - Trim, 1) = home[v].h
  BY <1>1, Numbers DEF AtHome, Box, Frame, AtLeast
<1> QED
  BY <1>1, <1>3, <1>4, <1>5 DEF AtHome

\* A window that ends being both fullscreen and maximized is back where it was,
\* with the size it had.
THEOREM ReturnsHome == Spec => RestoredHome
<1> DEFINE Returns ==
      \A v \in Views :
        Expanded(view[v]) /\ view'[v].mapped /\ ~Expanded(view'[v]) /\ steady[v]
        => view'[v].y = home[v].y /\ view'[v].asked = home[v].h
<1>1. IInv /\ [Next]_vars => [Returns]_vars
  <2> SUFFICES ASSUME IInv, [Next]_vars, NEW v \in Views,
                      Expanded(view[v]), view'[v].mapped, ~Expanded(view'[v]), steady[v]
               PROVE  view'[v].y = home[v].y /\ view'[v].asked = home[v].h
    OBVIOUS
  <2>1. Typed /\ HomeIsKept /\ Fine(view) /\ Whole(v, view[v])
    BY DEF IInv, Typed, Fine
  <2>2. ASSUME NEW u \in Views, NEW kind \in {"full", "max"}, NEW on \in BOOLEAN,
               RequestState(u, kind, on)
        PROVE  view'[v].y = home[v].y /\ view'[v].asked = home[v].h
    <3> DEFINE r == SetState(u, view[u], kind, on)
    <3>1. view' = [view EXCEPT ![u] = r]
      BY <2>2 DEF RequestState, Becomes
    <3>2. view'[v] = IF v = u THEN r ELSE view[v]
      BY <2>1, <3>1 DEF Fine
    <3>3. u = v
      BY <3>2
    <3>4. view'[v] = SetState(v, view[v], kind, on)
      BY <3>2, <3>3
    <3>5. Alike(view[v], view[v])
      BY DEF Alike
    <3> HIDE DEF r
    <3> QED
      BY <2>1, <3>4, <3>5, StateComesHome
  <2>3. ASSUME NEW u \in Views, NEW kind \in {"full", "max"}, Toggle(u, kind)
        PROVE  view'[v].y = home[v].y /\ view'[v].asked = home[v].h
    <3> DEFINE on == ~(IF kind = "full" THEN view[u].full ELSE view[u].max)
    <3>1. on \in BOOLEAN
      OBVIOUS
    <3>2. PICK ends \in {TRUE} \cup (IF view[u].mapped THEN {grab.view = u} ELSE {}) :
            LET base == IF ends THEN Ended(view) ELSE view
            IN  view' = [base EXCEPT ![u] = SetState(u, base[u], kind, on)]
      BY <2>3 DEF Toggle
    <3> DEFINE base == IF ends THEN Ended(view) ELSE view
               r == SetState(u, base[u], kind, on)
    <3>3. view' = [base EXCEPT ![u] = r]
      BY <3>2
    <3>4. Fine(base) /\ \A w \in Views : Alike(view[w], base[w])
      <4>1. CASE ends
        BY <2>1, <4>1, EndedIs
      <4>2. CASE ~ends
        BY <2>1, <4>2 DEF Alike
      <4> QED
        BY <4>1, <4>2
    <3> HIDE DEF base, on
    <3>5. view'[v] = IF v = u THEN r ELSE base[v]
      BY <3>3, <3>4 DEF Fine
    <3>6. u = v
      BY <3>4, <3>5 DEF Alike, Expanded
    <3>7. view'[v] = SetState(v, base[v], kind, on)
      BY <3>5, <3>6
    <3>8. Whole(v, base[v]) /\ Alike(view[v], base[v])
      BY <3>4 DEF Fine
    <3> HIDE DEF r
    <3> QED
      BY <2>1, <3>1, <3>7, <3>8, StateComesHome
  <2>4. CASE \/ \E u \in Views :
                  \/ MapRequest(u) \/ Associate(u) \/ Map(u) \/ Unmap(u) \/ Dissociate(u)
                  \/ Destroy(u) \/ Commit(u) \/ RequestConfigure(u)
             \/ \E u \in Views, b \in Buttons : AltPress(u, b)
             \/ \E u \in Views :
                  RequestInteractive(u, "move", {}) \/ XwaylandRequestInteractive(u, "move", {})
             \/ \E u \in Views, edges \in Edges :
                  \/ RequestInteractive(u, "resize", edges)
                  \/ XwaylandRequestInteractive(u, "resize", edges)
             \/ \E b \in Buttons : Press(b) \/ Release(b)
             \/ \E c \in Cursors : Motion(c)
             \/ Interrupt
             \/ UNCHANGED vars
    BY <2>4, OthersKeepStates
  <2> QED
    BY <2>2, <2>3, <2>4 DEF Next
<1> QED
  BY Invariance, <1>1, PTL DEF Spec, RestoredHome

\* A window that the compositor places and that fits lies in the usable part of
\* the output, at every cascade offset.
THEOREM PlacedWithinView == Spec => PlacedInView
<1> DEFINE Within ==
      \A v \in Views :
        LET r == view'[v] IN
        cascade' # cascade /\ ~view[v].mapped /\ r.mapped /\ Frame(r.h) <= Height - Top
        => r.y >= Top /\ r.y + Frame(r.h) <= Height
<1>1. IInv /\ [Next]_vars => [Within]_vars
  <2> SUFFICES ASSUME IInv, [Next]_vars, NEW v \in Views, cascade' # cascade,
                      ~view[v].mapped, view'[v].mapped, Frame(view'[v].h) <= Height - Top
               PROVE  view'[v].y >= Top /\ view'[v].y + Frame(view'[v].h) <= Height
    OBVIOUS
  <2>1. Typed /\ \A u \in Views : Whole(u, view[u])
    BY DEF IInv, Typed
  <2>2. PICK u \in Views : Map(u)
    BY ZenonT(60) DEF Next, MapRequest, Associate, Unmap, Dissociate, Destroy, Gone, Commit,
           RequestConfigure, Toggle, RequestState, AltPress, RequestInteractive,
           XwaylandRequestInteractive, BeginInteractive, Press, Release, Motion, Interrupt, vars
  <2>3. PICK r \in Arrivals(u) :
          /\ view' = [view EXCEPT ![u] = PlaceView(u, r)]
          /\ cascade' = IF r.placed THEN cascade ELSE NextCascade
    BY <2>2 DEF Map, Becomes
  <2>4. u = v /\ ~r.placed /\ view'[v] = PlaceView(v, r)
    BY <2>1, <2>3 DEF Typed
  <2>5. r \in View /\ Sound(u, [r EXCEPT !.placed = TRUE])
    BY <2>1, <2>2, ArrivalsAre DEF Map
  <2>6. cascade \in 0..(Wrap - 1)
    BY <2>1 DEF Typed
  <2>7. view'[v].h \in Nat /\ view'[v].y = PlaceAt(Frame(view'[v].h))
    BY <2>4, <2>5, <2>6, PlaceViewIs
  <2>8. Frame(view'[v].h) \in Nat
    BY <2>7, Numbers DEF Frame
  <2> QED
    BY <2>6, <2>7, <2>8, PlaceAtInView
<1> QED
  BY Invariance, <1>1, PTL DEF Spec, PlacedInView
=============================================================================
