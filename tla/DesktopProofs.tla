---------------------------- MODULE DesktopProofs ----------------------------
(***************************************************************************)
(* Proofs about module Desktop, for any views, lock surfaces, workspaces   *)
(* and disturbances: that nothing gets behind the lock; that the records   *)
(* agree after every handler; and that without disturbances focus, grab    *)
(* and keyboard are where they should be.                                  *)
(***************************************************************************)
EXTENDS Desktop, WellFoundedInduction, TLAPS

(***************************************************************************)
(* What a helper may make of the state s while the session is locked: it   *)
(* takes the keyboard, the input method or the focus from whoever has it,  *)
(* and gives them to nobody, and the lock is no business of it.  Helpers    *)
(* call each other, so this is stated of each, and it is transitive.       *)
(***************************************************************************)
Behind(s, t) ==
    /\ t \in Servers
    /\ t.locked = s.locked /\ t.lock = s.lock /\ t.lsurfs = s.lsurfs
    /\ s.locked => /\ t.kbd \in {s.kbd, None}
                   /\ t.ime \in {s.ime, None}
                   /\ t.focused \in {s.focused, None}

-----------------------------------------------------------------------------
\* What wl_list_remove leaves is a list of views.
LEMMA WithoutTyped ==
    ASSUME NEW S, NEW seq \in Seq(S), NEW x
    PROVE  Without(seq, x) \in Seq(S)
<1> DEFINE k == CHOOSE i \in DOMAIN seq : seq[i] = x
<1>1. CASE Len(seq) = 0
  BY <1>1 DEF Without
<1>2. CASE Len(seq) # 0
  <2>1. \A i \in 1 .. Len(seq) - 1 : (IF i < k THEN seq[i] ELSE seq[i + 1]) \in S
    BY <1>2
  <2>2. Len(seq) - 1 \in Nat
    BY <1>2
  <2> HIDE DEF k
  <2>3. [i \in 1 .. Len(seq) - 1 |-> IF i < k THEN seq[i] ELSE seq[i + 1]] \in Seq(S)
    BY <2>1, <2>2
  <2> QED
    BY <2>3 DEF Without, k
<1> QED
  BY <1>1, <1>2

LEMMA BehindTransitive ==
    ASSUME NEW s \in Servers, NEW t, NEW u, Behind(s, t), Behind(t, u)
    PROVE  Behind(s, u)
BY DEF Behind

LEMMA RaiseTyped ==
    ASSUME NEW s \in Servers, NEW v \in Views
    PROVE  Raise(s, v) \in Servers /\ Behind(s, Raise(s, v))
<1>1. Append(Without(s.views, v), v) \in Seq(Views)
  BY WithoutTyped DEF Servers
<1> QED
  BY <1>1 DEF Raise, Servers, Behind

LEMMA UpdateNodeBehind ==
    ASSUME NEW s \in Servers, NEW v \in Views
    PROVE  Behind(s, UpdateNode(s, v))
BY ZenonT(60) DEF UpdateNode, Servers, Behind

LEMMA ClearKeyboardBehind ==
    ASSUME NEW s \in Servers
    PROVE  Behind(s, ClearKeyboard(s))
BY DEF ClearKeyboard, Servers, Behind

LEMMA RestoreBehind ==
    ASSUME NEW s \in Servers, NEW v \in Views
    PROVE  Behind(s, Restore(s, v))
<1> DEFINE r == [s EXCEPT !.minimized = @ \ {v}]
<1>1. r \in Servers /\ Behind(s, r)
  BY ZenonT(60) DEF Servers, Behind
<1>2. Behind(r, UpdateNode(r, v))
  BY <1>1, UpdateNodeBehind
<1>3. Behind(s, UpdateNode(r, v))
  BY <1>1, <1>2, BehindTransitive
<1>4. Behind(s, s)
  BY DEF Behind
<1> QED
  BY <1>3, <1>4 DEF Restore

LEMMA GiveFocusTyped ==
    ASSUME NEW s \in Servers, NEW v \in Views, NEW steals \in BOOLEAN
    PROVE  LET t == GiveFocus(s, v, steals)
           IN  /\ t \in Servers
               /\ t.locked = s.locked /\ t.lock = s.lock /\ t.lsurfs = s.lsurfs
<1> DEFINE r == Raise(Restore(s, v), v)
           enters == s.keyboard /\ v \in s.scened \ Modules
           f == IF steals THEN v ELSE r.focused
           k == IF enters THEN v ELSE r.kbd
           i == IF enters THEN v ELSE r.ime
<1>1. Restore(s, v) \in Servers /\ Behind(s, Restore(s, v))
  BY RestoreBehind DEF Behind
<1>2. r \in Servers /\ Behind(s, r)
  BY <1>1, RaiseTyped, BehindTransitive DEF Behind
<1>3. f \in Views \cup {None} /\ k \in Views \cup LockSurfaces \cup {None} /\ i \in Views \cup {None}
  BY <1>2 DEF Servers
<1>4. GiveFocus(s, v, steals) = [r EXCEPT !.focused = f, !.kbd = k, !.ime = i]
  BY DEF GiveFocus
<1> HIDE DEF r, f, k, i
<1>5. r \in Servers /\ r.locked = s.locked /\ r.lock = s.lock /\ r.lsurfs = s.lsurfs
  BY <1>2 DEF Behind
<1>6. [r EXCEPT !.focused = f, !.kbd = k, !.ime = i] \in Servers
  BY <1>3, <1>5 DEF Servers
<1> DEFINE t == [r EXCEPT !.focused = f, !.kbd = k, !.ime = i]
<1>7. t.locked = s.locked /\ t.lock = s.lock /\ t.lsurfs = s.lsurfs
  BY <1>5 DEF Servers
<1> HIDE DEF t
<1> QED
  BY <1>4, <1>6, <1>7 DEF t

\* focus_view returns at once while the session is locked.
LEMMA FocusViewBehind ==
    ASSUME NEW s \in Servers, NEW v \in Views
    PROVE  Behind(s, FocusView(s, v))
<1>1. (v \notin Popups \cup Modules) \in BOOLEAN
  OBVIOUS
<1> HIDE DEF Servers
<1>2. CASE s.locked
  BY <1>2 DEF FocusView, Behind
<1>3. CASE ~s.locked
  BY <1>1, <1>3, GiveFocusTyped DEF FocusView, Behind
<1> QED
  BY <1>2, <1>3

LEMMA FocusTopmostBehind ==
    ASSUME NEW s \in Servers
    PROVE  Behind(s, FocusTopmost(s))
<1>1. CASE \E i \in DOMAIN s.views : IsTopmost(s, i)
  <2> DEFINE i == CHOOSE i \in DOMAIN s.views : IsTopmost(s, i)
  <2>1. i \in DOMAIN s.views
    BY <1>1
  <2>2. s.views[i] \in Views
    BY <2>1 DEF Servers
  <2>3. Behind(s, FocusView(s, s.views[i]))
    BY <2>2, FocusViewBehind
  <2> QED
    BY <1>1, <2>3 DEF FocusTopmost
<1>2. CASE ~ \E i \in DOMAIN s.views : IsTopmost(s, i)
  BY <1>2 DEF FocusTopmost, Behind
<1> QED
  BY <1>1, <1>2

LEMMA EndGrabOfBehind ==
    ASSUME NEW s \in Servers, NEW v
    PROVE  Behind(s, EndGrabOf(s, v))
<1>1. [s EXCEPT !.grabbed = None] \in Servers
  BY DEF Servers
<1>2. Behind(s, [s EXCEPT !.grabbed = None])
  BY <1>1 DEF Servers, Behind
<1> QED
  BY <1>2 DEF EndGrabOf, Behind

LEMMA DefocusBehind ==
    ASSUME NEW s \in Servers, NEW v
    PROVE  Behind(s, Defocus(s, v))
<1> DEFINE f == [s EXCEPT !.focused = None]
<1>1. f \in Servers /\ Behind(s, f)
  BY DEF Servers, Behind
<1>2. Behind(f, ClearKeyboard(f))
  BY <1>1, ClearKeyboardBehind
<1>3. Behind(ClearKeyboard(f), FocusTopmost(ClearKeyboard(f)))
  BY <1>2, FocusTopmostBehind DEF Behind
<1> HIDE DEF f
<1>4. Behind(s, FocusTopmost(ClearKeyboard(f)))
  BY <1>1, <1>2, <1>3, BehindTransitive DEF Behind
<1> QED
  BY <1>4 DEF Defocus, f, Behind

LEMMA MinimizeBehind ==
    ASSUME NEW s \in Servers, NEW v \in Views
    PROVE  Behind(s, Minimize(s, v))
<1> DEFINE m == [s EXCEPT !.minimized = @ \cup {v}]
           u == UpdateNode(m, v)
           e == EndGrabOf(u, v)
<1>1. m \in Servers /\ Behind(s, m)
  BY ZenonT(60) DEF Servers, Behind
<1>2. u \in Servers /\ Behind(m, u)
  BY <1>1, UpdateNodeBehind DEF Behind
<1>3. e \in Servers /\ Behind(u, e)
  BY <1>2, EndGrabOfBehind DEF Behind
<1>4. Behind(e, Defocus(e, v))
  BY <1>3, DefocusBehind
<1> HIDE DEF m, u, e
<1>5. Behind(s, Defocus(e, v))
  BY <1>1, <1>2, <1>3, <1>4, BehindTransitive
<1> QED
  BY <1>5 DEF Minimize, Behind, m, u, e

LEMMA NormalizeTyped ==
    ASSUME NEW w \in Nat
    PROVE  NormalizeWorkspace(w) \in Workspaces
BY DesktopAssumption DEF NormalizeWorkspace, Workspaces

LEMMA EnterWorkspaceBehind ==
    ASSUME NEW s \in Servers, NEW w \in Nat
    PROVE  Behind(s, EnterWorkspace(s, w))
<1> DEFINE n == NormalizeWorkspace(w)
           moved   == [s EXCEPT !.cur = n]
           ungrab  == IF Elsewhere(moved, s.grabbed)
                      THEN [moved EXCEPT !.grabbed = None] ELSE moved
           unfocus == IF Elsewhere(ungrab, s.focused)
                      THEN ClearKeyboard([ungrab EXCEPT !.focused = None])
                      ELSE ungrab
           redrawn == [unfocus EXCEPT !.shown = {v \in s.scened : Enabled(unfocus, v)}]
<1>1. n \in Workspaces
  BY NormalizeTyped
<1> HIDE DEF n
<1>2. moved \in Servers /\ Behind(s, moved)
  BY <1>1 DEF Servers, Behind
<1> HIDE DEF moved
<1>3. ungrab \in Servers /\ Behind(moved, ungrab)
  <2>1. [moved EXCEPT !.grabbed = None] \in Servers /\ Behind(moved, [moved EXCEPT !.grabbed = None])
    BY <1>2, ZenonT(60) DEF Servers, Behind
  <2> QED
    BY <1>2, <2>1 DEF Behind
<1> HIDE DEF ungrab
<1>4. unfocus \in Servers /\ Behind(ungrab, unfocus)
  <2> DEFINE f == [ungrab EXCEPT !.focused = None]
  <2>1. f \in Servers /\ Behind(ungrab, f)
    BY <1>3, ZenonT(60) DEF Servers, Behind
  <2>2. Behind(f, ClearKeyboard(f))
    BY <2>1, ClearKeyboardBehind
  <2> HIDE DEF f
  <2>3. Behind(ungrab, ClearKeyboard(f))
    BY <1>3, <2>1, <2>2, BehindTransitive
  <2> QED
    BY <1>3, <2>3 DEF Behind, f
<1> HIDE DEF unfocus
<1>5. redrawn \in Servers /\ Behind(unfocus, redrawn)
  <2>1. {v \in s.scened : Enabled(unfocus, v)} \in SUBSET Views
    BY DEF Servers
  <2> QED
    BY <1>4, <2>1, ZenonT(60) DEF Servers, Behind
<1> HIDE DEF redrawn
<1>6. Behind(redrawn, FocusTopmost(redrawn))
  BY <1>5, FocusTopmostBehind
<1>7. Behind(s, FocusTopmost(redrawn))
  BY <1>2, <1>3, <1>4, <1>5, <1>6, BehindTransitive
<1> QED
  BY <1>7 DEF EnterWorkspace, Behind, redrawn, unfocus, ungrab, moved, n

LEMMA BeginInteractiveBehind ==
    ASSUME NEW s \in Servers, NEW v \in Views
    PROVE  Behind(s, BeginInteractive(s, v))
<1>1. FocusView(s, v) \in Servers /\ Behind(s, FocusView(s, v))
  BY FocusViewBehind DEF Behind
<1> DEFINE f == FocusView(s, v)
<1> HIDE DEF f
<1>2. f \in Servers /\ Behind(s, f)
  BY <1>1 DEF f
<1>3. Behind(f, [f EXCEPT !.grabbed = v])
  BY <1>2 DEF Servers, Behind
<1> QED
  BY <1>2, <1>3, BehindTransitive DEF BeginInteractive, f

LEMMA MapBehind ==
    ASSUME NEW s \in Servers, NEW v \in Views
    PROVE  Behind(s, Map(s, v))
<1> DEFINE p == [s EXCEPT !.mapped = @ \cup {v}, !.docks = @ \cup ({v} \cap Dockapps)]
           m == UpdateNode(p, v)
<1>1. p \in Servers /\ Behind(s, p)
  <2>1. s.mapped \cup {v} \in SUBSET Views /\ s.docks \cup ({v} \cap Dockapps) \in SUBSET Views
    BY DEF Servers
  <2> QED
    BY <2>1, ZenonT(60) DEF Servers, Behind
<1>2. m \in Servers /\ Behind(p, m)
  BY <1>1, UpdateNodeBehind DEF Behind
<1> HIDE DEF m, p
<1>3. Behind(m, FocusView(m, v)) /\ Behind(m, Raise(m, v)) /\ Behind(m, m)
  BY <1>2, FocusViewBehind, RaiseTyped DEF Behind
<1>4. Behind(m, Map(s, v))
  BY <1>3 DEF Map, m, p
<1> QED
  BY <1>1, <1>2, <1>4, BehindTransitive

LEMMA UnmapBehind ==
    ASSUME NEW s \in Servers, NEW v \in Views
    PROVE  Behind(s, Unmap(s, v))
<1> DEFINE h == [s EXCEPT !.mapped = @ \ {v}, !.shown = @ \ {v}]
           e == EndGrabOf(h, v)
           r == Defocus(e, v)
<1>1. h \in Servers /\ Behind(s, h)
  BY ZenonT(60) DEF Servers, Behind
<1>2. e \in Servers /\ Behind(h, e)
  BY <1>1, EndGrabOfBehind DEF Behind
<1>3. r \in Servers /\ Behind(e, r)
  BY <1>2, DefocusBehind DEF Behind
<1> HIDE DEF h, e, r
<1>4. Behind(r, r) /\ Behind(r, ClearKeyboard(r))
  BY <1>3, ClearKeyboardBehind DEF Behind
<1>5. r.focused # None => Behind(r, FocusView(r, r.focused))
  BY <1>3, FocusViewBehind DEF Servers
<1>6. Behind(r, Unmap(s, v))
  BY <1>4, <1>5 DEF Unmap, h, e, r
<1> QED
  BY <1>1, <1>2, <1>3, <1>6, BehindTransitive

LEMMA ForgetSurfaceBehind ==
    ASSUME NEW s \in Servers, NEW v
    PROVE  Behind(s, ForgetSurface(s, v))
BY ZenonT(60) DEF ForgetSurface, Servers, Behind

-----------------------------------------------------------------------------
\* Handlers of windows, clients and the seat leave the lock alone.
LEMMA WindowStep ==
    ASSUME TypeOK, NEW v \in Views,
           \/ NewXdgToplevel(v) \/ NewXwaylandSurface(v) \/ MapView(v) \/ Associate(v)
           \/ UnmapView(v) \/ Dissociate(v) \/ DestroyView(v)
    PROVE  Behind(server, server')
<1> USE DEF TypeOK
<1>1. CASE NewXdgToplevel(v)
  <2>1. /\ Append(server.views, v) \in Seq(Views)
        /\ server.scened \cup {v} \in SUBSET Views
        /\ [server.ws EXCEPT ![v] = server.cur] \in [Views -> Workspaces]
    BY DEF Servers
  <2> QED
    BY <1>1, <2>1, ZenonT(60) DEF NewXdgToplevel, Servers, Behind
<1>2. CASE NewXwaylandSurface(v)
  <2>1. /\ Append(server.views, v) \in Seq(Views)
        /\ [server.ws EXCEPT ![v] = server.cur] \in [Views -> Workspaces]
    BY DEF Servers
  <2> QED
    BY <1>2, <2>1, ZenonT(60) DEF NewXwaylandSurface, Servers, Behind
<1>3. CASE MapView(v)
  BY <1>3, MapBehind DEF MapView
<1>4. CASE Associate(v)
  <2> DEFINE attached == [server EXCEPT !.scened = @ \cup {v}]
  <2>1. attached \in Servers /\ Behind(server, attached)
    BY ZenonT(60) DEF Servers, Behind
  <2>2. Behind(attached, Map(attached, v))
    BY <2>1, MapBehind
  <2>3. server' \in {attached, Map(attached, v)}
    BY <1>4 DEF Associate
  <2> HIDE DEF attached
  <2> QED
    BY <2>1, <2>2, <2>3, BehindTransitive
<1>5. CASE UnmapView(v)
  BY <1>5, UnmapBehind DEF UnmapView
<1>6. CASE Dissociate(v)
  <2> DEFINE e == EndGrabOf(server, v)
             d == Defocus(e, v)
             u == [d EXCEPT !.scened = @ \ {v}]
  <2>1. e \in Servers /\ Behind(server, e)
    BY EndGrabOfBehind DEF Behind
  <2>2. d \in Servers /\ Behind(e, d)
    BY <2>1, DefocusBehind DEF Behind
  <2> HIDE DEF e, d
  <2>3. u \in Servers /\ Behind(d, u)
    BY <2>2, ZenonT(60) DEF Servers, Behind
  <2>4. Behind(u, ForgetSurface(u, v))
    BY <2>3, ForgetSurfaceBehind
  <2>5. server' = ForgetSurface(u, v)
    BY <1>6 DEF Dissociate, u, d, e
  <2> HIDE DEF u
  <2> QED
    BY <2>1, <2>2, <2>3, <2>4, <2>5, BehindTransitive
<1>7. CASE DestroyView(v)
  <2> DEFINE l == [server EXCEPT !.views = Without(@, v)]
             e == EndGrabOf(l, v)
             d == Defocus(e, v)
             u == [d EXCEPT !.scened = @ \ {v}, !.minimized = @ \ {v},
                            !.docks = @ \ {v}, !.ws[v] = 1]
  <2>1. l \in Servers /\ Behind(server, l)
    BY WithoutTyped, ZenonT(60) DEF Servers, Behind
  <2> HIDE DEF l
  <2>2. e \in Servers /\ Behind(l, e)
    BY <2>1, EndGrabOfBehind DEF Behind
  <2>3. d \in Servers /\ Behind(e, d)
    BY <2>2, DefocusBehind DEF Behind
  <2> HIDE DEF e, d
  <2>4. u \in Servers /\ Behind(d, u)
    <3>1. [d.ws EXCEPT ![v] = 1] \in [Views -> Workspaces]
      BY <2>3, DesktopAssumption DEF Servers, Workspaces
    <3> QED
      BY <2>3, <3>1, ZenonT(60) DEF Servers, Behind
  <2>5. Behind(u, ForgetSurface(u, v))
    BY <2>4, ForgetSurfaceBehind
  <2>6. server' = ForgetSurface(u, v)
    BY <1>7 DEF DestroyView, u, d, e, l
  <2> HIDE DEF u
  <2> QED
    BY <2>1, <2>2, <2>3, <2>4, <2>5, <2>6, BehindTransitive
<1> QED
  BY <1>1, <1>2, <1>3, <1>4, <1>5, <1>6, <1>7

LEMMA RequestStep ==
    ASSUME TypeOK, NEW v \in Views,
           \/ RequestMinimize(v) \/ RequestRestore(v) \/ RequestInteractive(v)
           \/ XwaylandRequestInteractive(v) \/ ForeignActivate(v)
           \/ ActivationRequest(v) \/ FocusWindow(v)
           \/ \E w \in Workspaces : MoveWindowToWorkspace(v, w)
           \/ \E alt \in BOOLEAN : PressButton(v, alt)
    PROVE  Behind(server, server')
<1> USE DEF TypeOK
<1>1. CASE RequestMinimize(v)
  BY <1>1, MinimizeBehind DEF RequestMinimize
<1>2. CASE RequestRestore(v)
  BY <1>2, RestoreBehind DEF RequestRestore
<1>3. CASE RequestInteractive(v) \/ XwaylandRequestInteractive(v)
  BY <1>3, BeginInteractiveBehind DEF RequestInteractive, XwaylandRequestInteractive
<1>4. CASE ForeignActivate(v)
  BY <1>4, FocusViewBehind DEF ForeignActivate
<1>5. CASE ActivationRequest(v) \/ FocusWindow(v)
  <2> DEFINE there == EnterWorkspace(server, server.ws[v])
  <2>1. server.ws[v] \in Nat
    BY DEF Servers, Workspaces
  <2>2. there \in Servers /\ Behind(server, there)
    BY <2>1, EnterWorkspaceBehind DEF Behind
  <2> HIDE DEF there
  <2>3. Behind(server, FocusView(there, v))
    BY <2>2, FocusViewBehind, BehindTransitive
  <2>4. Behind(server, FocusView(server, v))
    BY FocusViewBehind
  <2> QED
    BY <1>5, <2>3, <2>4 DEF ActivationRequest, FocusWindow, there
<1>6. ASSUME NEW w \in Workspaces, MoveWindowToWorkspace(v, w)
      PROVE  Behind(server, server')
  <2> DEFINE n == NormalizeWorkspace(w)
             p == [server EXCEPT !.ws[v] = n]
             moved == UpdateNode(p, v)
             e == EndGrabOf(moved, v)
  <2>1. n \in Workspaces
    BY NormalizeTyped DEF Workspaces
  <2> HIDE DEF n
  <2>2. p \in Servers /\ Behind(server, p)
    <3>1. [server.ws EXCEPT ![v] = n] \in [Views -> Workspaces]
      BY <2>1 DEF Servers
    <3> QED
      BY <3>1, ZenonT(60) DEF Servers, Behind
  <2> HIDE DEF p
  <2>3. moved \in Servers /\ Behind(p, moved)
    BY <2>2, UpdateNodeBehind DEF Behind
  <2> HIDE DEF moved
  <2>4. e \in Servers /\ Behind(moved, e)
    BY <2>3, EndGrabOfBehind DEF Behind
  <2> HIDE DEF e
  <2>5. Behind(e, Defocus(e, v))
    BY <2>4, DefocusBehind
  <2>6. server' = moved \/ server' = Defocus(e, v)
    BY <1>6 DEF MoveWindowToWorkspace, e, moved, p, n
  <2> QED
    BY <2>2, <2>3, <2>4, <2>5, <2>6, BehindTransitive
<1>7. ASSUME NEW alt \in BOOLEAN, PressButton(v, alt)
      PROVE  Behind(server, server')
  <2> DEFINE p == [server EXCEPT !.pressed = IF @ = None THEN v ELSE None]
  <2>1. p \in Servers /\ Behind(server, p)
    <3>1. (IF server.pressed = None THEN v ELSE None) \in Views \cup {None}
      OBVIOUS
    <3> QED
      BY <3>1, ZenonT(60) DEF Servers, Behind
  <2> HIDE DEF p
  <2>2. Behind(p, BeginInteractive(p, v)) /\ Behind(p, FocusView(p, v))
    BY <2>1, BeginInteractiveBehind, FocusViewBehind
  <2>3. server' \in {p, BeginInteractive(p, v), FocusView(p, v)}
    BY <1>7 DEF PressButton, p
  <2> QED
    BY <2>1, <2>2, <2>3, BehindTransitive
<1> QED
  BY <1>1, <1>2, <1>3, <1>4, <1>5, <1>6, <1>7

LEMMA SeatStep ==
    ASSUME TypeOK,
           \/ \E w \in 0 .. NWorkspaces + 1 : SetWorkspace(w)
           \/ FocusNext \/ FocusPrev \/ WorkspaceNext \/ WorkspacePrev \/ ToggleFullscreen
           \/ \E ends \in BOOLEAN : ReleaseButton(ends)
           \/ KeyboardArrives \/ KeyboardUnplugged
    PROVE  Behind(server, server')
<1> USE DEF TypeOK
<1>1. ASSUME NEW w \in 0 .. NWorkspaces + 1, SetWorkspace(w)
      PROVE  Behind(server, server')
  BY <1>1, EnterWorkspaceBehind DEF SetWorkspace
<1>2. CASE FocusNext \/ FocusPrev
  <2>1. PICK i \in DOMAIN server.views : server' = FocusView(server, server.views[i])
    BY <1>2 DEF FocusNext, FocusPrev, Others
  <2>2. server.views[i] \in Views
    BY DEF Servers
  <2> QED
    BY <2>1, <2>2, FocusViewBehind
<1>3. CASE WorkspaceNext \/ WorkspacePrev
  <2>1. server.cur \in Nat /\ server.cur >= 1 /\ NWorkspaces \in Nat
    BY DesktopAssumption DEF Servers, Workspaces
  <2>2. PICK w \in Nat : server' = EnterWorkspace(server, w)
    BY <1>3, <2>1 DEF WorkspaceNext, WorkspacePrev
  <2> QED
    BY <2>2, EnterWorkspaceBehind
<1>4. CASE ToggleFullscreen
  BY <1>4 DEF ToggleFullscreen, Servers, Behind
<1>5. ASSUME NEW ends \in BOOLEAN, ReleaseButton(ends)
      PROVE  Behind(server, server')
  <2>1. (IF ends THEN None ELSE server.grabbed) \in Views \cup {None}
    BY DEF Servers
  <2> QED
    BY <1>5, <2>1 DEF ReleaseButton, Servers, Behind
<1>6. CASE KeyboardArrives \/ KeyboardUnplugged
  BY <1>6, ZenonT(60) DEF KeyboardArrives, KeyboardUnplugged, Servers, Behind
<1> QED
  BY <1>1, <1>2, <1>3, <1>4, <1>5, <1>6

\* The handlers of the lock may give the keyboard, but to lock surfaces.
LEMMA LockStep ==
    ASSUME TypeOK, LockKeepsKeyboard,
           \/ NewSessionLock \/ Unlock \/ LockDestroyed \/ LockClientGone
           \/ \E k \in LockSurfaces : \/ LockSurfaceNew(k) \/ LockSurfaceMap(k)
                                      \/ LockSurfaceUnmap(k) \/ LockSurfaceDestroy(k)
    PROVE  /\ TypeOK' /\ LockKeepsKeyboard'
           /\ server.locked /\ server'.locked => server'.focused \in {server.focused, None}
<1> USE DesktopAssumption DEF TypeOK
<1>0. <<>> \in Seq(LockSurfaces)
  OBVIOUS
<1>1. CASE NewSessionLock
  BY <1>1 DEF NewSessionLock, ClearKeyboard, Servers, LockKeepsKeyboard
<1>2. CASE Unlock
  <2> DEFINE u == [server EXCEPT !.lock = FALSE, !.locked = FALSE, !.lsurfs = <<>>]
  <2>1. u \in Servers /\ ~u.locked
    BY <1>0 DEF Servers
  <2>2. server' = FocusTopmost(u)
    BY <1>2 DEF Unlock
  <2> HIDE DEF u
  <2>3. Behind(u, server')
    BY <2>1, <2>2, FocusTopmostBehind
  <2> QED
    BY <2>1, <2>3 DEF Behind, LockKeepsKeyboard
<1>3. CASE LockDestroyed
  BY <1>0, <1>3 DEF LockDestroyed, Servers, LockKeepsKeyboard
<1>4. CASE LockClientGone
  BY <1>4 DEF LockClientGone, Servers, LockKeepsKeyboard
<1>5. ASSUME NEW k \in LockSurfaces, LockSurfaceNew(k)
      PROVE  /\ TypeOK' /\ LockKeepsKeyboard' /\ server'.focused = server.focused
  <2>1. <<k>> \o server.lsurfs \in Seq(LockSurfaces)
    BY DEF Servers
  <2> QED
    BY <1>5, <2>1 DEF LockSurfaceNew, Servers, LockKeepsKeyboard
<1>6. ASSUME NEW k \in LockSurfaces, LockSurfaceMap(k)
      PROVE  /\ TypeOK' /\ LockKeepsKeyboard' /\ server'.focused = server.focused
  BY <1>6 DEF LockSurfaceMap, Servers, LockKeepsKeyboard
<1>7. ASSUME NEW k \in LockSurfaces, LockSurfaceUnmap(k)
      PROVE  /\ TypeOK' /\ LockKeepsKeyboard' /\ server'.focused = server.focused
  <2> DEFINE s == [server EXCEPT !.lmapped = @ \ {k}]
             first == s.lsurfs[CHOOSE i \in DOMAIN s.lsurfs : IsFirstMapped(s, i)]
  <2>1. s \in Servers /\ s.focused = server.focused
    BY DEF Servers
  <2> HIDE DEF s
  <2>2. (\E i \in DOMAIN s.lsurfs : IsFirstMapped(s, i)) => first \in LockSurfaces
    BY <2>1 DEF Servers
  <2> HIDE DEF first
  <2>3. \/ server' = ClearKeyboard(s)
        \/ first \in LockSurfaces /\ server' = [s EXCEPT !.kbd = first, !.ime = None]
    BY <1>7, <2>2 DEF LockSurfaceUnmap, FocusAnyLockSurface, s, first
  <2>4. CASE server' = ClearKeyboard(s)
    BY <2>1, <2>4, ZenonT(60) DEF ClearKeyboard, Servers, LockKeepsKeyboard
  <2>5. CASE first \in LockSurfaces /\ server' = [s EXCEPT !.kbd = first, !.ime = None]
    <3>1. server'.kbd = first /\ server'.ime = None /\ server'.focused = s.focused
      BY <2>1, <2>5 DEF Servers
    <3>2. server' \in Servers
      BY <2>1, <2>5 DEF Servers
    <3> QED
      BY <2>1, <2>5, <3>1, <3>2 DEF LockKeepsKeyboard
  <2> QED
    BY <2>3, <2>4, <2>5
<1>8. ASSUME NEW k \in LockSurfaces, LockSurfaceDestroy(k)
      PROVE  /\ TypeOK' /\ LockKeepsKeyboard' /\ server'.focused = server.focused
  BY <1>8, WithoutTyped DEF LockSurfaceDestroy, Servers, LockKeepsKeyboard
<1> QED
  BY <1>1, <1>2, <1>3, <1>4, <1>5, <1>6, <1>7, <1>8

LEMMA InitLocked == Init => TypeOK /\ LockKeepsKeyboard
<1> SUFFICES ASSUME Init PROVE TypeOK /\ LockKeepsKeyboard
  OBVIOUS
<1>1. PICK w \in Workspaces :
        server = [views |-> <<>>, scened |-> {}, mapped |-> {},
                  minimized |-> {}, docks |-> {}, shown |-> {},
                  ws |-> [v \in Views |-> 1], cur |-> w,
                  focused |-> None, grabbed |-> None, pressed |-> None,
                  keyboard |-> "unplug" \notin Disturbances,
                  kbd |-> None, ime |-> None,
                  locked |-> FALSE, lock |-> FALSE,
                  lsurfs |-> <<>>, lmapped |-> {}]
  BY DEF Init
<1>2. /\ [v \in Views |-> 1] \in [Views -> Workspaces]
      /\ ("unplug" \notin Disturbances) \in BOOLEAN
  BY DesktopAssumption DEF Workspaces
<1> QED
  BY <1>1, <1>2 DEF TypeOK, Servers, LockKeepsKeyboard

\* Every step keeps keyboard and focus as the lock wants them.
LEMMA NextLocked ==
    ASSUME TypeOK, LockKeepsKeyboard, [Next]_server
    PROVE  /\ TypeOK' /\ LockKeepsKeyboard'
           /\ server.locked /\ server'.locked => server'.focused \in {server.focused, None}
<1>1. ASSUME Behind(server, server')
      PROVE  /\ TypeOK' /\ LockKeepsKeyboard'
             /\ server.locked => server'.focused \in {server.focused, None}
  BY <1>1, DesktopAssumption DEF Behind, TypeOK, LockKeepsKeyboard
<1>2. CASE UNCHANGED server
  BY <1>2 DEF TypeOK, LockKeepsKeyboard
<1>3. CASE Next
  BY <1>1, <1>3, WindowStep, RequestStep, SeatStep, LockStep DEF Next
<1> QED
  BY <1>2, <1>3

LEMMA Locked == Spec => [](TypeOK /\ LockKeepsKeyboard)
<1>1. TypeOK /\ LockKeepsKeyboard /\ [Next]_server => (TypeOK /\ LockKeepsKeyboard)'
  BY NextLocked
<1> QED
  BY <1>1, InitLocked, PTL DEF Spec

\* Whatever windows, clients and input devices do, while the session is locked
\* no window has the keyboard or the input method.
THEOREM LockedKeyboard == Spec => []LockKeepsKeyboard
BY Locked, PTL

\* As long as the lock lasts no window becomes the active one.
THEOREM LockedFocus == Spec => LockFreezesFocus
<1>1. TypeOK /\ LockKeepsKeyboard /\ [Next]_server =>
        [server.locked /\ server'.locked => server'.focused \in {server.focused, None}]_server
  BY NextLocked
<1> QED
  BY <1>1, Locked, PTL DEF Spec, LockFreezesFocus

-----------------------------------------------------------------------------
(***************************************************************************)
(* That list, scene and pointers agree.  A handler breaks it for the view  *)
(* x that it unmaps, iconifies or frees, takes grab and focus from x, and  *)
(* so restores it; in between the helpers work on states that are in order *)
(* but for x.  With x = None nothing is excepted.                          *)
(***************************************************************************)
Distinct(seq) == \A i, j \in DOMAIN seq : seq[i] = seq[j] => i = j

Drawn(s) == s.shown = {v \in s.scened : Enabled(s, v)}

SceneBut(s, x) ==
    /\ s \in Servers
    /\ Distinct(s.views)
    /\ s.mapped \subseteq s.scened
    /\ (s.scened \cup s.minimized \cup s.docks) \ {x} \subseteq Listed(s)
    /\ Drawn(s)
    /\ s.grabbed \in s.scened \cup {None}

FocusBut(s, x) ==
    /\ s.focused \notin Popups \cup Modules
    /\ s.focused # x => /\ s.focused \in Listed(s) \cup {None}
                        /\ s.focused \in s.minimized => s.focused \in s.docks
                        /\ Disturbances = {} => s.focused \in s.mapped \cup {None}
    /\ s.locked => s.ime = None
    /\ Disturbances = {} => /\ s.keyboard
                            /\ s.ime \in {None, x, s.focused} \cup (Popups \cap s.mapped)

InOrderBut(s, x) == SceneBut(s, x) /\ FocusBut(s, x)

\* What the refocusing helpers leave as it is.
Keeps(s, t) ==
    /\ t.mapped = s.mapped /\ t.scened = s.scened /\ t.docks = s.docks
    /\ t.ws = s.ws /\ t.cur = s.cur /\ t.grabbed = s.grabbed
    /\ Listed(t) = Listed(s)
    /\ t.locked = s.locked

\* focus_topmost_view does not choose x.
Away(s, x) == x \notin Listed(s) \/ ~Visible(s, x)

\* Of a list that has x once, wl_list_remove leaves the others, each once.
LEMMA WithoutRange ==
    ASSUME NEW S, NEW seq \in Seq(S), Distinct(seq), NEW x \in Range(seq)
    PROVE  /\ Range(Without(seq, x)) = Range(seq) \ {x}
           /\ Distinct(Without(seq, x))
<1> DEFINE k == CHOOSE i \in DOMAIN seq : seq[i] = x
           w == Without(seq, x)
<1>1. k \in DOMAIN seq /\ seq[k] = x
  BY DEF Range
<1>2. w = [i \in 1 .. Len(seq) - 1 |-> IF i < k THEN seq[i] ELSE seq[i + 1]]
  BY DEF Without
<1> HIDE DEF k, w
<1>3. DOMAIN seq = 1 .. Len(seq) /\ Len(seq) \in Nat /\ k \in 1 .. Len(seq)
  BY <1>1
<1>4. DOMAIN w = 1 .. Len(seq) - 1 /\ \A i \in DOMAIN w : w[i] = IF i < k THEN seq[i] ELSE seq[i + 1]
  BY <1>2
<1>5. Distinct(w)
  BY <1>3, <1>4 DEF Distinct
<1>6. ASSUME NEW i \in DOMAIN w PROVE w[i] \in Range(seq) \ {x}
  BY <1>1, <1>3, <1>4 DEF Distinct, Range
<1>7. ASSUME NEW y \in Range(seq), y # x PROVE y \in Range(w)
  <2>1. PICK j \in 1 .. Len(seq) : seq[j] = y
    BY <1>3 DEF Range
  <2>2. j # k
    BY <1>1, <1>7, <2>1
  <2>3. CASE j < k
    <3>1. j \in DOMAIN w /\ w[j] = y
      BY <1>3, <1>4, <2>1, <2>3
    <3> QED
      BY <3>1 DEF Range
  <2>4. CASE j > k
    <3>1. j - 1 \in DOMAIN w /\ w[j - 1] = y
      BY <1>3, <1>4, <2>1, <2>4
    <3> QED
      BY <3>1 DEF Range
  <2> QED
    BY <1>3, <2>1, <2>2, <2>3, <2>4
<1>8. Range(w) = Range(seq) \ {x}
  BY <1>6, <1>7 DEF Range
<1> QED
  BY <1>5, <1>8 DEF w

LEMMA AppendRange ==
    ASSUME NEW S, NEW seq \in Seq(S), Distinct(seq), NEW x \in S, x \notin Range(seq)
    PROVE  /\ Append(seq, x) \in Seq(S)
           /\ Range(Append(seq, x)) = Range(seq) \cup {x}
           /\ Distinct(Append(seq, x))
<1> DEFINE a == Append(seq, x)
           n == Len(seq)
<1>1. /\ a \in Seq(S) /\ n \in Nat /\ DOMAIN seq = 1 .. n /\ DOMAIN a = 1 .. n + 1
      /\ \A i \in 1 .. n : a[i] = seq[i]
      /\ a[n + 1] = x
  OBVIOUS
<1> HIDE DEF a, n
<1>2. Range(a) = Range(seq) \cup {x}
  <2>1. \A i \in DOMAIN a : a[i] \in Range(seq) \cup {x}
    BY <1>1 DEF Range
  <2>2. \A i \in DOMAIN seq : seq[i] \in Range(a)
    BY <1>1 DEF Range
  <2>3. x \in Range(a)
    BY <1>1 DEF Range
  <2> QED
    BY <2>1, <2>2, <2>3 DEF Range
<1>3. Distinct(a)
  BY <1>1 DEF Distinct, Range
<1> QED
  BY <1>1, <1>2, <1>3 DEF a

\* Raising a view reorders the list.
LEMMA RaiseKeeps ==
    ASSUME NEW s \in Servers, Distinct(s.views), NEW v \in Listed(s)
    PROVE  /\ Raise(s, v) \in Servers
           /\ Raise(s, v) = [s EXCEPT !.views = Raise(s, v).views]
           /\ Distinct(Raise(s, v).views)
           /\ Listed(Raise(s, v)) = Listed(s)
<1> DEFINE q == Append(Without(s.views, v), v)
<1>1. v \in Views
  BY DEF Servers, Listed, Range
<1>2. s.views \in Seq(Views)
  BY DEF Servers
<1>3. Without(s.views, v) \in Seq(Views) /\ v \notin Range(Without(s.views, v))
      /\ Distinct(Without(s.views, v)) /\ Range(Without(s.views, v)) = Listed(s) \ {v}
  BY <1>2, WithoutTyped, WithoutRange DEF Listed
<1>4. q \in Seq(Views) /\ Distinct(q) /\ Range(q) = Listed(s)
  BY <1>1, <1>3, AppendRange
<1> HIDE DEF q
<1>5. [s EXCEPT !.views = q] \in Servers /\ [s EXCEPT !.views = q].views = q
  BY <1>4 DEF Servers
<1>6. Raise(s, v) = [s EXCEPT !.views = q]
  BY DEF Raise, q
<1> QED
  BY <1>4, <1>5, <1>6 DEF Listed

\* wlr_scene_node_set_enabled makes the node of v right again.
LEMMA UpdateNodeExact ==
    ASSUME NEW s \in Servers, NEW v \in Views,
           s.shown \ {v} = {w \in s.scened : Enabled(s, w)} \ {v}
    PROVE  LET u == UpdateNode(s, v)
           IN  /\ u \in Servers
               /\ u = [s EXCEPT !.shown = u.shown]
               /\ u.shown = {w \in u.scened : Enabled(u, w)}
<1> DEFINE n == IF v \in s.scened /\ Enabled(s, v) THEN s.shown \cup {v} ELSE s.shown \ {v}
           u == [s EXCEPT !.shown = n]
<1>1. n \in SUBSET Views
  BY DEF Servers
<1>2. n = {w \in s.scened : Enabled(s, w)}
  OBVIOUS
<1>3. UpdateNode(s, v) = u
  BY DEF UpdateNode
<1> HIDE DEF n
<1>4. u \in Servers /\ u.shown = n /\ u.scened = s.scened
  BY <1>1 DEF Servers
<1>5. \A w : Enabled(u, w) <=> Enabled(s, w)
  BY DEF Enabled, Servers
<1> HIDE DEF u
<1> QED
  BY <1>2, <1>3, <1>4, <1>5 DEF u

\* What is drawn depends on these fields only.
LEMMA EnabledSame ==
    ASSUME NEW s, NEW t, t.mapped = s.mapped, t.minimized = s.minimized,
           t.docks = s.docks, t.ws = s.ws, t.cur = s.cur, NEW v
    PROVE  Enabled(t, v) <=> Enabled(s, v)
BY DEF Enabled

LEMMA RestoreInOrder ==
    ASSUME NEW s, NEW x \in Views \cup {None}, NEW v \in Views, InOrderBut(s, x)
    PROVE  LET t == Restore(s, v)
           IN  /\ InOrderBut(t, x) /\ Keeps(s, t)
               /\ t.views = s.views /\ t.focused = s.focused /\ t.ime = s.ime
               /\ t.keyboard = s.keyboard
               /\ v \in t.minimized => v \in t.docks
               /\ t.minimized \subseteq s.minimized
<1> DEFINE r == [s EXCEPT !.minimized = @ \ {v}]
           u == UpdateNode(r, v)
<1>1. s \in Servers
  BY DEF InOrderBut, SceneBut, Drawn
<1>2. CASE v \in s.minimized \ s.docks
  <2>1. r \in Servers
    BY <1>1 DEF Servers
  <2>2. r.shown \ {v} = {w \in r.scened : Enabled(r, w)} \ {v}
    <3>1. \A w \in Views \ {v} : Enabled(r, w) <=> Enabled(s, w)
      BY <1>1 DEF Servers, Enabled
    <3>2. s.shown = {w \in s.scened : Enabled(s, w)} /\ s.scened \subseteq Views
      BY <1>1 DEF InOrderBut, SceneBut, Drawn, Servers
    <3>3. r.shown = s.shown /\ r.scened = s.scened
      BY <1>1 DEF Servers
    <3> HIDE DEF r
    <3> QED
      BY <3>1, <3>2, <3>3
  <2>3. u \in Servers /\ u = [r EXCEPT !.shown = u.shown]
        /\ u.shown = {w \in u.scened : Enabled(u, w)}
    BY <2>1, <2>2, UpdateNodeExact
  <2>4. /\ u.views = s.views /\ u.mapped = s.mapped /\ u.scened = s.scened
        /\ u.docks = s.docks /\ u.ws = s.ws /\ u.cur = s.cur /\ u.grabbed = s.grabbed
        /\ u.locked = s.locked /\ u.focused = s.focused /\ u.ime = s.ime
        /\ u.keyboard = s.keyboard /\ u.minimized = s.minimized \ {v}
    <3>1. /\ r.views = s.views /\ r.mapped = s.mapped /\ r.scened = s.scened
          /\ r.docks = s.docks /\ r.ws = s.ws /\ r.cur = s.cur /\ r.grabbed = s.grabbed
          /\ r.locked = s.locked /\ r.focused = s.focused /\ r.ime = s.ime
          /\ r.keyboard = s.keyboard /\ r.minimized = s.minimized \ {v}
      BY <1>1 DEF Servers
    <3> HIDE DEF r, u
    <3> QED
      BY <2>1, <2>3, <3>1 DEF Servers
  <2>5. Restore(s, v) = u
    BY <1>2 DEF Restore
  <2> HIDE DEF u
  <2> QED
    BY <2>3, <2>4, <2>5 DEF InOrderBut, SceneBut, Drawn, FocusBut, Keeps, Listed
<1>3. CASE ~(v \in s.minimized \ s.docks)
  BY <1>3 DEF Restore, Keeps
<1> QED
  BY <1>2, <1>3

\* focus_view gives focus and keyboard to a view that may have them.
LEMMA GiveFocusInOrder ==
    ASSUME NEW s, NEW x \in Views \cup {None}, NEW v, InOrderBut(s, x), v # x,
           v \in Listed(s), Disturbances = {} => v \in s.mapped, ~s.locked
    PROVE  LET t == GiveFocus(s, v, v \notin Popups \cup Modules)
           IN  /\ InOrderBut(t, x) /\ Keeps(s, t)
               /\ t.focused \in {s.focused, v} /\ t.ime \in {s.ime, v}
<1> DEFINE r == Restore(s, v)
           a == Raise(r, v)
           steals == v \notin Popups \cup Modules
           enters == s.keyboard /\ v \in s.scened \ Modules
           f == IF steals THEN v ELSE a.focused
           k == IF enters THEN v ELSE a.kbd
           i == IF enters THEN v ELSE a.ime
           t == [a EXCEPT !.focused = f, !.kbd = k, !.ime = i]
<1>1. v \in Views
  BY DEF InOrderBut, SceneBut, Drawn, Servers, Listed, Range
<1>2. /\ InOrderBut(r, x) /\ Keeps(s, r)
      /\ r.views = s.views /\ r.focused = s.focused /\ r.ime = s.ime
      /\ r.keyboard = s.keyboard
      /\ v \in r.minimized => v \in r.docks
  BY <1>1, RestoreInOrder
<1> HIDE DEF r
<1>3. r \in Servers /\ Distinct(r.views) /\ v \in Listed(r)
  BY <1>2 DEF InOrderBut, SceneBut, Drawn, Keeps
<1>4. /\ a \in Servers /\ a = [r EXCEPT !.views = a.views]
      /\ Distinct(a.views) /\ Listed(a) = Listed(r)
  BY <1>3, RaiseKeeps
<1> HIDE DEF a
<1>5. /\ a.mapped = r.mapped /\ a.scened = r.scened /\ a.minimized = r.minimized
      /\ a.docks = r.docks /\ a.ws = r.ws /\ a.cur = r.cur /\ a.grabbed = r.grabbed
      /\ a.shown = r.shown /\ a.locked = r.locked /\ a.focused = r.focused /\ a.ime = r.ime
      /\ a.keyboard = r.keyboard
  BY <1>3, <1>4 DEF Servers
<1>6. /\ f \in Views \cup {None} /\ k \in Views \cup LockSurfaces \cup {None}
      /\ i \in Views \cup {None}
  BY <1>1, <1>4 DEF Servers
<1>7. GiveFocus(s, v, steals) = t
  BY DEF GiveFocus, a, r
<1> HIDE DEF f, k, i
<1>8. /\ t \in Servers /\ t.focused = f /\ t.ime = i
      /\ t.mapped = a.mapped /\ t.scened = a.scened /\ t.minimized = a.minimized
      /\ t.docks = a.docks /\ t.ws = a.ws /\ t.cur = a.cur /\ t.grabbed = a.grabbed
      /\ t.shown = a.shown /\ t.locked = a.locked /\ t.keyboard = a.keyboard
      /\ t.views = a.views
  BY <1>4, <1>6 DEF Servers
<1> HIDE DEF t
<1>9. Listed(t) = Listed(s)
  BY <1>2, <1>4, <1>8 DEF Listed
<1>10. Keeps(s, t)
  BY <1>2, <1>5, <1>8, <1>9 DEF Keeps
<1>11. SceneBut(t, x)
  <2>1. \A w : Enabled(t, w) <=> Enabled(r, w)
    BY <1>5, <1>8 DEF Enabled
  <2>2. t.shown = {w \in t.scened : Enabled(t, w)}
    BY <1>2, <1>5, <1>8, <2>1 DEF InOrderBut, SceneBut, Drawn
  <2> QED
    BY <1>2, <1>4, <1>5, <1>8, <2>2 DEF InOrderBut, SceneBut, Drawn, Listed
<1>12. f \in {s.focused, v} /\ i \in {s.ime, v}
  BY <1>2, <1>5 DEF f, i
<1>13. FocusBut(t, x)
  <2>1. ~t.locked
    BY <1>10 DEF Keeps
  <2>2. t.focused \notin Popups \cup Modules
    BY <1>2, <1>5, <1>8 DEF f, InOrderBut, FocusBut
  <2>3. t.focused # x => /\ t.focused \in Listed(t) \cup {None}
                         /\ t.focused \in t.minimized => t.focused \in t.docks
                         /\ Disturbances = {} => t.focused \in t.mapped \cup {None}
    <3>1. CASE steals
      BY <1>2, <1>5, <1>8, <1>9, <1>10, <3>1 DEF f, Keeps
    <3>2. CASE ~steals
      BY <1>2, <1>4, <1>5, <1>8, <3>2 DEF f, InOrderBut, FocusBut, Listed
    <3> QED
      BY <3>1, <3>2
  <2>4. ASSUME Disturbances = {}
        PROVE  t.keyboard /\ t.ime \in {None, x, t.focused} \cup (Popups \cap t.mapped)
    <3>1. s.keyboard /\ v \in s.mapped /\ v \in s.scened /\ t.keyboard
          /\ s.ime \in {None, x, s.focused} \cup (Popups \cap s.mapped)
      BY <1>2, <1>5, <1>8, <2>4 DEF InOrderBut, SceneBut, Drawn, FocusBut
    <3>2. CASE v \in Modules
      <4>1. t.ime = s.ime /\ t.focused = s.focused
        BY <1>2, <1>5, <1>8, <3>2 DEF f, i
      <4> QED
        BY <1>10, <3>1, <4>1 DEF Keeps
    <3>3. CASE v \notin Modules
      <4>1. t.ime = v
        BY <1>8, <3>1, <3>3 DEF i
      <4>2. CASE v \in Popups
        BY <1>10, <3>1, <4>1, <4>2 DEF Keeps
      <4>3. CASE v \notin Popups
        <5>1. t.focused = v
          BY <1>8, <3>3, <4>3 DEF f
        <5> QED
          BY <3>1, <4>1, <5>1
      <4> QED
        BY <4>2, <4>3
    <3> QED
      BY <3>2, <3>3
  <2> QED
    BY <2>1, <2>2, <2>3, <2>4 DEF FocusBut
<1> QED
  BY <1>7, <1>8, <1>10, <1>11, <1>12, <1>13 DEF InOrderBut

LEMMA KeepsTransitive ==
    ASSUME NEW s, NEW t, NEW u, Keeps(s, t), Keeps(t, u)
    PROVE  Keeps(s, u)
BY DEF Keeps

LEMMA FocusViewInOrder ==
    ASSUME NEW s, NEW x \in Views \cup {None}, NEW v, InOrderBut(s, x), v # x,
           v \in Listed(s), Disturbances = {} => v \in s.mapped
    PROVE  LET t == FocusView(s, v)
           IN  /\ InOrderBut(t, x) /\ Keeps(s, t)
               /\ t.focused \in {s.focused, v} /\ t.ime \in {s.ime, v}
<1>1. CASE s.locked
  <2>1. FocusView(s, v) = s
    BY <1>1 DEF FocusView
  <2> QED
    BY <2>1 DEF Keeps
<1>2. CASE ~s.locked
  <2>1. FocusView(s, v) = GiveFocus(s, v, v \notin Popups \cup Modules)
    BY <1>2 DEF FocusView
  <2> QED
    BY <1>2, <2>1, GiveFocusInOrder
<1> QED
  BY <1>1, <1>2

LEMMA FocusTopmostInOrder ==
    ASSUME NEW s, NEW x \in Views \cup {None}, InOrderBut(s, x), Away(s, x)
    PROVE  LET t == FocusTopmost(s)
           IN  /\ InOrderBut(t, x) /\ Keeps(s, t)
               /\ t.focused = x => s.focused = x
               /\ t.ime = x => s.ime = x
<1>1. CASE \E i \in DOMAIN s.views : IsTopmost(s, i)
  <2> DEFINE i == CHOOSE i \in DOMAIN s.views : IsTopmost(s, i)
             v == s.views[i]
  <2>1. i \in DOMAIN s.views /\ IsTopmost(s, i)
    BY <1>1
  <2> HIDE DEF i
  <2>2. v \in Listed(s) /\ Visible(s, v)
    BY <2>1 DEF Listed, Range, IsTopmost
  <2>3. v # x
    BY <2>2 DEF Away
  <2>4. v \in s.mapped
    BY <2>2 DEF Visible
  <2>5. FocusTopmost(s) = FocusView(s, v)
    BY <1>1 DEF FocusTopmost, i
  <2> HIDE DEF v
  <2> QED
    BY <2>2, <2>3, <2>4, <2>5, FocusViewInOrder
<1>2. CASE ~\E i \in DOMAIN s.views : IsTopmost(s, i)
  <2>1. FocusTopmost(s) = s
    BY <1>2 DEF FocusTopmost
  <2> QED
    BY <2>1 DEF Keeps
<1> QED
  BY <1>1, <1>2

\* Taking the focus, the keyboard or a grab away from a view breaks nothing.
LEMMA TakingInOrder ==
    ASSUME NEW s, NEW x \in Views \cup {None}, InOrderBut(s, x), NEW t \in Servers,
           t.views = s.views, t.scened = s.scened, t.mapped = s.mapped,
           t.minimized = s.minimized, t.docks = s.docks, t.shown = s.shown,
           t.ws = s.ws, t.cur = s.cur,
           t.grabbed \in {s.grabbed, None} \cup s.scened,
           t.ime \in {s.ime, None}, t.locked => t.ime = None,
           Disturbances = {} => t.keyboard,
           \/ t.focused = s.focused
           \/ t.focused = None /\ t.ime = None
    PROVE  InOrderBut(t, x)
<1>1. Listed(t) = Listed(s)
  BY DEF Listed
<1>2. \A v : Enabled(t, v) <=> Enabled(s, v)
  BY DEF Enabled
<1>3. SceneBut(t, x)
  <2>1. t.shown = {v \in t.scened : Enabled(t, v)}
    BY <1>2 DEF InOrderBut, SceneBut, Drawn
  <2> QED
    BY <1>1, <2>1 DEF InOrderBut, SceneBut, Drawn
<1>4. None \notin s.minimized /\ None \notin Popups \cup Modules
  BY DesktopAssumption DEF InOrderBut, SceneBut, Drawn, Servers
<1>5. FocusBut(t, x)
  BY <1>1, <1>4 DEF InOrderBut, FocusBut
<1> QED
  BY <1>3, <1>5 DEF InOrderBut

\* The handlers about v begin with everything in order, ...
LEMMA Beginning ==
    ASSUME NEW s, NEW v \in Views, InOrderBut(s, None)
    PROVE  InOrderBut(s, v)
<1>1. None \notin s.scened \cup s.minimized \cup s.docks
  BY DesktopAssumption DEF InOrderBut, SceneBut, Drawn, Servers
<1>2. SceneBut(s, v)
  BY <1>1 DEF InOrderBut, SceneBut, Drawn
<1>3. FocusBut(s, v)
  BY <1>1 DEF InOrderBut, FocusBut
<1> QED
  BY <1>2, <1>3 DEF InOrderBut

\* ... and end so when v is neither the active view nor a node off the list, and
\* has the input method only if it may.
LEMMA Ending ==
    ASSUME NEW s, NEW v \in Views, InOrderBut(s, v), s.focused # v,
           v \in s.scened \cup s.minimized \cup s.docks => v \in Listed(s),
           Disturbances = {} /\ s.ime = v => v \in Popups \cap s.mapped
    PROVE  InOrderBut(s, None)
<1>1. SceneBut(s, None)
  BY DEF InOrderBut, SceneBut, Drawn
<1>2. FocusBut(s, None)
  BY DEF InOrderBut, FocusBut
<1> QED
  BY <1>1, <1>2 DEF InOrderBut

\* The common end of the handlers that take the focus from v.
LEMMA DefocusInOrder ==
    ASSUME NEW s, NEW v \in Views, InOrderBut(s, v), Away(s, v)
    PROVE  LET t == Defocus(s, v)
           IN  /\ InOrderBut(t, v) /\ Keeps(s, t)
               /\ t.focused # v
               /\ t.ime = v => s.ime = v /\ s.focused # v
<1> DEFINE c == ClearKeyboard([s EXCEPT !.focused = None])
<1>1. s \in Servers
  BY DEF InOrderBut, SceneBut, Drawn
<1>2. CASE s.focused = v
  <2>1. /\ c \in Servers /\ c.focused = None /\ c.ime = None
        /\ c.views = s.views /\ c.scened = s.scened /\ c.mapped = s.mapped
        /\ c.minimized = s.minimized /\ c.docks = s.docks /\ c.shown = s.shown
        /\ c.ws = s.ws /\ c.cur = s.cur /\ c.grabbed = s.grabbed
        /\ c.keyboard = s.keyboard /\ c.locked = s.locked
    BY <1>1 DEF Servers, ClearKeyboard
  <2>2. Defocus(s, v) = FocusTopmost(c)
    BY <1>2 DEF Defocus
  <2> HIDE DEF c
  <2>3. Disturbances = {} => c.keyboard
    BY <2>1 DEF InOrderBut, FocusBut
  <2>4. InOrderBut(c, v)
    BY <2>1, <2>3, TakingInOrder
  <2>5. Keeps(s, c) /\ Away(c, v)
    BY <2>1 DEF Keeps, Away, Listed, Visible
  <2>6. LET t == FocusTopmost(c) IN /\ InOrderBut(t, v) /\ Keeps(c, t)
                                    /\ t.focused = v => c.focused = v
                                    /\ t.ime = v => c.ime = v
    BY <2>4, <2>5, FocusTopmostInOrder
  <2> QED
    BY <2>1, <2>2, <2>5, <2>6, KeepsTransitive, DesktopAssumption
<1>3. CASE s.focused # v
  BY <1>3 DEF Defocus, Keeps
<1> QED
  BY <1>2, <1>3

LEMMA EndGrabOfInOrder ==
    ASSUME NEW s, NEW x \in Views \cup {None}, NEW v \in Views, InOrderBut(s, x)
    PROVE  LET t == EndGrabOf(s, v)
           IN  /\ InOrderBut(t, x) /\ t.grabbed # v
               /\ t = [s EXCEPT !.grabbed = t.grabbed]
<1> DEFINE t == [s EXCEPT !.grabbed = None]
<1>1. s \in Servers
  BY DEF InOrderBut, SceneBut, Drawn
<1>2. CASE s.grabbed = v
  <2>1. /\ t \in Servers /\ t.grabbed = None
        /\ t.views = s.views /\ t.scened = s.scened /\ t.mapped = s.mapped
        /\ t.minimized = s.minimized /\ t.docks = s.docks /\ t.shown = s.shown
        /\ t.ws = s.ws /\ t.cur = s.cur /\ t.focused = s.focused /\ t.ime = s.ime
        /\ t.keyboard = s.keyboard /\ t.locked = s.locked
        /\ t = [s EXCEPT !.grabbed = t.grabbed]
    BY <1>1 DEF Servers
  <2>2. EndGrabOf(s, v) = t
    BY <1>2 DEF EndGrabOf
  <2> HIDE DEF t
  <2>3. (Disturbances = {} => t.keyboard) /\ (t.locked => t.ime = None)
    BY <2>1 DEF InOrderBut, FocusBut
  <2>4. InOrderBut(t, x)
    BY <2>1, <2>3, TakingInOrder
  <2> QED
    BY <2>1, <2>2, <2>4, DesktopAssumption
<1>3. CASE s.grabbed # v
  BY <1>1, <1>3 DEF EndGrabOf, Servers
<1> QED
  BY <1>2, <1>3

LEMMA RaiseInOrder ==
    ASSUME NEW s, NEW x \in Views \cup {None}, NEW v \in Listed(s), InOrderBut(s, x)
    PROVE  InOrderBut(Raise(s, v), x) /\ Keeps(s, Raise(s, v))
<1> DEFINE t == Raise(s, v)
<1>1. s \in Servers /\ Distinct(s.views)
  BY DEF InOrderBut, SceneBut, Drawn
<1>2. t \in Servers /\ t = [s EXCEPT !.views = t.views] /\ Distinct(t.views)
      /\ Listed(t) = Listed(s)
  BY <1>1, RaiseKeeps
<1> HIDE DEF t
<1>3. /\ t.scened = s.scened /\ t.mapped = s.mapped /\ t.minimized = s.minimized
      /\ t.docks = s.docks /\ t.shown = s.shown /\ t.ws = s.ws /\ t.cur = s.cur
      /\ t.grabbed = s.grabbed /\ t.focused = s.focused /\ t.ime = s.ime
      /\ t.keyboard = s.keyboard /\ t.locked = s.locked
  BY <1>1, <1>2 DEF Servers
<1>4. \A w : Enabled(t, w) <=> Enabled(s, w)
  BY <1>3 DEF Enabled
<1>5. t.shown = {w \in t.scened : Enabled(t, w)}
  BY <1>3, <1>4 DEF InOrderBut, SceneBut, Drawn
<1>6. SceneBut(t, x)
  BY <1>2, <1>3, <1>5 DEF InOrderBut, SceneBut, Drawn
<1>7. FocusBut(t, x)
  BY <1>2, <1>3 DEF InOrderBut, FocusBut
<1> QED
  BY <1>2, <1>3, <1>6, <1>7 DEF InOrderBut, Keeps, t

\* view_set_minimized(view, true): v is away once it is iconified.
LEMMA MinimizeInOrder ==
    ASSUME NEW s, NEW v \in Listed(s), InOrderBut(s, None)
    PROVE  InOrderBut(Minimize(s, v), None)
<1> DEFINE m == [s EXCEPT !.minimized = @ \cup {v}]
           u == UpdateNode(m, v)
           e == EndGrabOf(u, v)
           d == Defocus(e, v)
<1>1. s \in Servers /\ v \in Views
  BY DEF InOrderBut, SceneBut, Drawn, Servers, Listed, Range
<1>2. CASE v \in s.minimized \cup s.docks
  BY <1>2 DEF Minimize
<1>3. CASE v \notin s.minimized \cup s.docks
  <2>1. /\ m \in Servers /\ m.minimized = s.minimized \cup {v}
        /\ m.views = s.views /\ m.scened = s.scened /\ m.mapped = s.mapped
        /\ m.docks = s.docks /\ m.shown = s.shown /\ m.ws = s.ws /\ m.cur = s.cur
        /\ m.grabbed = s.grabbed /\ m.focused = s.focused /\ m.ime = s.ime
        /\ m.keyboard = s.keyboard /\ m.locked = s.locked
    BY <1>1 DEF Servers
  <2> HIDE DEF m
  <2>2. m.shown \ {v} = {w \in m.scened : Enabled(m, w)} \ {v}
    <3>1. \A w \in Views \ {v} : Enabled(m, w) <=> Enabled(s, w)
      BY <2>1 DEF Enabled
    <3>2. s.shown = {w \in s.scened : Enabled(s, w)} /\ s.scened \subseteq Views
      BY DEF InOrderBut, SceneBut, Drawn, Servers
    <3> QED
      BY <2>1, <3>1, <3>2
  <2>3. /\ u \in Servers /\ u = [m EXCEPT !.shown = u.shown]
        /\ u.shown = {w \in u.scened : Enabled(u, w)}
    BY <1>1, <2>1, <2>2, UpdateNodeExact
  <2> HIDE DEF u
  <2>4. /\ u.minimized = m.minimized /\ u.views = m.views /\ u.scened = m.scened
        /\ u.mapped = m.mapped /\ u.docks = m.docks /\ u.ws = m.ws /\ u.cur = m.cur
        /\ u.grabbed = m.grabbed /\ u.focused = m.focused /\ u.ime = m.ime
        /\ u.keyboard = m.keyboard /\ u.locked = m.locked
    BY <2>1, <2>3 DEF Servers
  <2>5. InOrderBut(s, v)
    BY <1>1, Beginning
  <2>6. Listed(u) = Listed(s)
    BY <2>1, <2>4 DEF Listed
  <2>7. SceneBut(u, v)
    BY <2>1, <2>3, <2>4, <2>5, <2>6 DEF InOrderBut, SceneBut, Drawn
  <2>8. FocusBut(u, v)
    BY <2>1, <2>4, <2>5, <2>6 DEF InOrderBut, FocusBut
  <2>9. InOrderBut(u, v)
    BY <2>7, <2>8 DEF InOrderBut
  <2>10. /\ InOrderBut(e, v) /\ e.grabbed # v /\ e = [u EXCEPT !.grabbed = e.grabbed]
    BY <1>1, <2>9, EndGrabOfInOrder
  <2> HIDE DEF e
  <2>11. /\ e.minimized = u.minimized /\ e.views = u.views /\ e.scened = u.scened
         /\ e.mapped = u.mapped /\ e.docks = u.docks /\ e.ime = u.ime /\ e.focused = u.focused
    BY <2>3, <2>10 DEF Servers
  <2>12. Away(e, v)
    BY <2>1, <2>4, <2>11 DEF Away, Visible
  <2>13. /\ InOrderBut(d, v) /\ Keeps(e, d) /\ d.focused # v
         /\ d.ime = v => e.ime = v /\ e.focused # v
    BY <1>1, <2>10, <2>12, DefocusInOrder
  <2> HIDE DEF d
  <2>14. v \in Listed(d)
    BY <2>6, <2>11, <2>13 DEF Keeps, Listed
  <2>15. ASSUME Disturbances = {}, d.ime = v PROVE v \in Popups \cap d.mapped
    <3>1. s.ime = v /\ s.focused # v /\ v # None
      BY <1>1, <2>1, <2>4, <2>11, <2>13, <2>15, DesktopAssumption
    <3>2. v \in Popups \cap s.mapped
      BY <2>15, <3>1 DEF InOrderBut, FocusBut
    <3> QED
      BY <2>1, <2>4, <2>11, <2>13, <3>2 DEF Keeps
  <2>16. InOrderBut(d, None)
    BY <1>1, <2>13, <2>14, <2>15, Ending
  <2> QED
    BY <1>3, <2>16 DEF Minimize, d, e, u, m
<1> QED
  BY <1>2, <1>3

\* A change that can only matter for the node of v, and its recomputation.
LEMMA Recomputed ==
    ASSUME NEW s \in Servers, Drawn(s),
           NEW m \in Servers, NEW v \in Views, m.scened = s.scened, m.shown = s.shown,
           \A w \in Views \ {v} : Enabled(m, w) <=> Enabled(s, w)
    PROVE  LET u == UpdateNode(m, v)
           IN  /\ u \in Servers /\ Drawn(u)
               /\ u.views = m.views /\ u.scened = m.scened /\ u.mapped = m.mapped
               /\ u.minimized = m.minimized /\ u.docks = m.docks
               /\ u.ws = m.ws /\ u.cur = m.cur /\ u.grabbed = m.grabbed
               /\ u.focused = m.focused /\ u.ime = m.ime
               /\ u.keyboard = m.keyboard /\ u.locked = m.locked
<1> DEFINE u == UpdateNode(m, v)
<1>1. s.scened \subseteq Views
  BY DEF Servers
<1>2. m.shown \ {v} = {w \in m.scened : Enabled(m, w)} \ {v}
  BY <1>1 DEF Drawn
<1>3. /\ u \in Servers /\ u = [m EXCEPT !.shown = u.shown]
      /\ u.shown = {w \in u.scened : Enabled(u, w)}
  BY <1>2, UpdateNodeExact
<1> HIDE DEF u
<1>4. /\ u.views = m.views /\ u.scened = m.scened /\ u.mapped = m.mapped
      /\ u.minimized = m.minimized /\ u.docks = m.docks
      /\ u.ws = m.ws /\ u.cur = m.cur /\ u.grabbed = m.grabbed
      /\ u.focused = m.focused /\ u.ime = m.ime
      /\ u.keyboard = m.keyboard /\ u.locked = m.locked
  BY <1>3 DEF Servers
<1> QED
  BY <1>3, <1>4 DEF u, Drawn

\* set_workspace.
LEMMA EnterWorkspaceInOrder ==
    ASSUME NEW s, NEW w \in Nat, InOrderBut(s, None)
    PROVE  LET t == EnterWorkspace(s, w)
           IN  InOrderBut(t, None) /\ Listed(t) = Listed(s) /\ t.mapped = s.mapped
<1> DEFINE n == NormalizeWorkspace(w)
           moved == [s EXCEPT !.cur = n]
           ungrab == IF Elsewhere(moved, s.grabbed)
                     THEN [moved EXCEPT !.grabbed = None] ELSE moved
           unfocus == IF Elsewhere(ungrab, s.focused)
                      THEN ClearKeyboard([ungrab EXCEPT !.focused = None])
                      ELSE ungrab
           redrawn == [unfocus EXCEPT !.shown = {v \in s.scened : Enabled(unfocus, v)}]
<1>1. s \in Servers /\ n \in Workspaces
  BY NormalizeTyped DEF InOrderBut, SceneBut, Drawn
<1>2. CASE n = s.cur
  BY <1>2 DEF EnterWorkspace
<1>3. CASE n # s.cur
  <2> HIDE DEF n
  <2>1. /\ moved \in Servers
        /\ moved.views = s.views /\ moved.scened = s.scened /\ moved.mapped = s.mapped
        /\ moved.minimized = s.minimized /\ moved.docks = s.docks
        /\ moved.ws = s.ws /\ moved.grabbed = s.grabbed
        /\ moved.focused = s.focused /\ moved.ime = s.ime
        /\ moved.keyboard = s.keyboard /\ moved.locked = s.locked
    BY <1>1 DEF Servers
  <2> HIDE DEF moved
  <2>2. /\ ungrab \in Servers
        /\ ungrab.views = s.views /\ ungrab.scened = s.scened /\ ungrab.mapped = s.mapped
        /\ ungrab.minimized = s.minimized /\ ungrab.docks = s.docks
        /\ ungrab.ws = s.ws /\ ungrab.grabbed \in {s.grabbed, None}
        /\ ungrab.focused = s.focused /\ ungrab.ime = s.ime
        /\ ungrab.keyboard = s.keyboard /\ ungrab.locked = s.locked
    BY <2>1 DEF Servers
  <2> HIDE DEF ungrab
  <2>3. /\ unfocus \in Servers
        /\ unfocus.views = s.views /\ unfocus.scened = s.scened /\ unfocus.mapped = s.mapped
        /\ unfocus.minimized = s.minimized /\ unfocus.docks = s.docks
        /\ unfocus.ws = s.ws /\ unfocus.grabbed \in {s.grabbed, None}
        /\ unfocus.keyboard = s.keyboard /\ unfocus.locked = s.locked
        /\ \/ unfocus.focused = s.focused /\ unfocus.ime = s.ime
           \/ unfocus.focused = None /\ unfocus.ime = None
    <3>1. CASE Elsewhere(ungrab, s.focused)
      BY <2>2, <3>1 DEF unfocus, ClearKeyboard, Servers
    <3>2. CASE ~Elsewhere(ungrab, s.focused)
      BY <2>2, <3>2 DEF unfocus
    <3> QED
      BY <3>1, <3>2
  <2> HIDE DEF unfocus
  <2>4. /\ redrawn \in Servers
        /\ redrawn.views = s.views /\ redrawn.scened = s.scened /\ redrawn.mapped = s.mapped
        /\ redrawn.minimized = s.minimized /\ redrawn.docks = s.docks
        /\ redrawn.ws = s.ws /\ redrawn.cur = unfocus.cur
        /\ redrawn.grabbed \in {s.grabbed, None}
        /\ redrawn.keyboard = s.keyboard /\ redrawn.locked = s.locked
        /\ redrawn.shown = {v \in s.scened : Enabled(unfocus, v)}
        /\ \/ redrawn.focused = s.focused /\ redrawn.ime = s.ime
           \/ redrawn.focused = None /\ redrawn.ime = None
    <3>1. {v \in s.scened : Enabled(unfocus, v)} \in SUBSET Views
      BY <1>1 DEF Servers
    <3> QED
      BY <2>3, <3>1 DEF redrawn, Servers
  <2> HIDE DEF redrawn
  <2>5. \A v : Enabled(redrawn, v) <=> Enabled(unfocus, v)
    BY <2>3, <2>4 DEF Enabled
  <2>6. Listed(redrawn) = Listed(s)
    BY <2>4 DEF Listed
  <2>7. redrawn.shown = {v \in redrawn.scened : Enabled(redrawn, v)}
    BY <2>4, <2>5
  <2>8. SceneBut(redrawn, None)
    BY <2>4, <2>6, <2>7 DEF InOrderBut, SceneBut, Drawn
  <2>9. FocusBut(redrawn, None)
    BY <2>4, <2>6, DesktopAssumption DEF InOrderBut, FocusBut
  <2>10. None \notin Listed(redrawn)
    BY <2>4, DesktopAssumption DEF Listed, Range, Servers
  <2>11. LET t == FocusTopmost(redrawn) IN InOrderBut(t, None) /\ Keeps(redrawn, t)
    BY <2>8, <2>9, <2>10, FocusTopmostInOrder DEF InOrderBut, Away
  <2>12. EnterWorkspace(s, w) = FocusTopmost(redrawn)
    BY <1>3 DEF EnterWorkspace, redrawn, unfocus, ungrab, moved, n
  <2> QED
    BY <2>4, <2>6, <2>11, <2>12 DEF Keeps
<1> QED
  BY <1>2, <1>3

LEMMA BeginInteractiveInOrder ==
    ASSUME NEW s, NEW v, InOrderBut(s, None), v \in s.scened,
           Disturbances = {} => v \in s.mapped
    PROVE  InOrderBut(BeginInteractive(s, v), None)
<1> DEFINE f == FocusView(s, v)
           t == [f EXCEPT !.grabbed = v]
<1>1. /\ v \in Views /\ v \in s.scened /\ v \in Listed(s) /\ v # None
  BY DesktopAssumption DEF InOrderBut, SceneBut, Drawn, Servers
<1>2. InOrderBut(f, None) /\ Keeps(s, f)
  BY <1>1, FocusViewInOrder
<1> HIDE DEF f
<1>3. f \in Servers
  BY <1>2 DEF InOrderBut, SceneBut, Drawn
<1>4. /\ t \in Servers /\ t.grabbed = v
      /\ t.views = f.views /\ t.scened = f.scened /\ t.mapped = f.mapped
      /\ t.minimized = f.minimized /\ t.docks = f.docks /\ t.shown = f.shown
      /\ t.ws = f.ws /\ t.cur = f.cur /\ t.focused = f.focused /\ t.ime = f.ime
      /\ t.keyboard = f.keyboard /\ t.locked = f.locked
  BY <1>1, <1>3 DEF Servers
<1> HIDE DEF t
<1>5. v \in f.scened
  BY <1>1, <1>2 DEF Keeps
<1>6. (Disturbances = {} => t.keyboard) /\ (t.locked => t.ime = None)
  BY <1>2, <1>4 DEF InOrderBut, FocusBut
<1>7. InOrderBut(t, None)
  BY <1>2, <1>4, <1>5, <1>6, TakingInOrder
<1> QED
  BY <1>7 DEF BeginInteractive, t, f

\* handle_view_map.
LEMMA MapInOrder ==
    ASSUME NEW s, NEW v, InOrderBut(s, None), v \in s.scened
    PROVE  InOrderBut(Map(s, v), None)
<1> DEFINE p == [s EXCEPT !.mapped = @ \cup {v}, !.docks = @ \cup ({v} \cap Dockapps)]
           m == UpdateNode(p, v)
<1>1. s \in Servers /\ v \in Views /\ v \in Listed(s) /\ v # None
  BY DesktopAssumption DEF InOrderBut, SceneBut, Drawn, Servers
<1>2. /\ p \in Servers /\ p.mapped = s.mapped \cup {v}
      /\ p.docks = s.docks \cup ({v} \cap Dockapps)
      /\ p.views = s.views /\ p.scened = s.scened /\ p.minimized = s.minimized
      /\ p.shown = s.shown /\ p.ws = s.ws /\ p.cur = s.cur
      /\ p.grabbed = s.grabbed /\ p.focused = s.focused /\ p.ime = s.ime
      /\ p.keyboard = s.keyboard /\ p.locked = s.locked
  BY <1>1, DesktopAssumption DEF Servers
<1> HIDE DEF p
<1>3. \A w \in Views \ {v} : Enabled(p, w) <=> Enabled(s, w)
  BY <1>2 DEF Enabled
<1>4. Drawn(s)
  BY DEF InOrderBut, SceneBut
<1>5. /\ m \in Servers /\ Drawn(m)
      /\ m.views = p.views /\ m.scened = p.scened /\ m.mapped = p.mapped
      /\ m.minimized = p.minimized /\ m.docks = p.docks
      /\ m.ws = p.ws /\ m.cur = p.cur /\ m.grabbed = p.grabbed
      /\ m.focused = p.focused /\ m.ime = p.ime
      /\ m.keyboard = p.keyboard /\ m.locked = p.locked
  <2>1. s \in Servers /\ v \in Views
    BY <1>1
  <2>2. p \in Servers /\ p.scened = s.scened /\ p.shown = s.shown
    BY <1>2
  <2> QED
    BY <2>1, <2>2, <1>3, <1>4, Recomputed
<1> HIDE DEF m
<1>6. Listed(m) = Listed(s)
  BY <1>2, <1>5 DEF Listed
<1>7. SceneBut(m, None)
  BY <1>1, <1>2, <1>5, <1>6 DEF InOrderBut, SceneBut
<1>8. FocusBut(m, None)
  BY <1>2, <1>5, <1>6 DEF InOrderBut, FocusBut
<1>9. InOrderBut(m, None) /\ v \in Listed(m) /\ v \in m.mapped
  BY <1>1, <1>2, <1>5, <1>6, <1>7, <1>8 DEF InOrderBut
<1>10. InOrderBut(FocusView(m, v), None)
  BY <1>1, <1>9, FocusViewInOrder
<1>11. InOrderBut(Raise(m, v), None)
  BY <1>9, RaiseInOrder
<1>12. Map(s, v) \in {m, FocusView(m, v), Raise(m, v)}
  BY DEF Map, m, p
<1> QED
  BY <1>9, <1>10, <1>11, <1>12

\* With a keyboard on the seat a view that focus_view is called for has it then.
LEMMA FocusViewEnters ==
    ASSUME NEW s \in Servers, NEW v \in Views, ~s.locked, s.keyboard,
           v \in s.scened \ Modules
    PROVE  FocusView(s, v).ime = v
<1> DEFINE a == Raise(Restore(s, v), v)
<1>1. Restore(s, v) \in Servers
  BY RestoreBehind DEF Behind
<1>2. a \in Servers
  BY <1>1, RaiseTyped
<1>3. FocusView(s, v) = GiveFocus(s, v, v \notin Popups \cup Modules)
  BY DEF FocusView
<1> HIDE DEF a
<1>4. GiveFocus(s, v, v \notin Popups \cup Modules)
      = [a EXCEPT !.focused = IF v \notin Popups \cup Modules THEN v ELSE @,
                  !.kbd = v, !.ime = v]
  BY DEF GiveFocus, a
<1> QED
  BY <1>2, <1>3, <1>4, ZenonT(60) DEF Servers

\* handle_view_unmap.  A menu that closes leaves the input method to the active
\* view, if there is one.
LEMMA UnmapInOrder ==
    ASSUME NEW s, NEW v, InOrderBut(s, None), v \in s.mapped
    PROVE  InOrderBut(Unmap(s, v), None)
<1> DEFINE h == [s EXCEPT !.mapped = @ \ {v}, !.shown = @ \ {v}]
           e == EndGrabOf(h, v)
           d == Defocus(e, v)
<1>1. s \in Servers /\ v \in Views /\ v \in Listed(s) /\ v # None
  BY DesktopAssumption DEF InOrderBut, SceneBut, Servers
<1>2. /\ h \in Servers /\ h.mapped = s.mapped \ {v} /\ h.shown = s.shown \ {v}
      /\ h.views = s.views /\ h.scened = s.scened /\ h.minimized = s.minimized
      /\ h.docks = s.docks /\ h.ws = s.ws /\ h.cur = s.cur
      /\ h.grabbed = s.grabbed /\ h.focused = s.focused /\ h.ime = s.ime
      /\ h.keyboard = s.keyboard /\ h.locked = s.locked
  BY <1>1 DEF Servers
<1> HIDE DEF h
<1>3. InOrderBut(s, v)
  BY <1>1, Beginning
<1>4. Listed(h) = Listed(s)
  BY <1>2 DEF Listed
<1>5. Drawn(h)
  BY <1>2 DEF InOrderBut, SceneBut, Drawn, Enabled
<1>6. SceneBut(h, v)
  BY <1>2, <1>3, <1>4, <1>5 DEF InOrderBut, SceneBut
<1>7. FocusBut(h, v)
  BY <1>2, <1>3, <1>4 DEF InOrderBut, FocusBut
<1>8. InOrderBut(h, v)
  BY <1>6, <1>7 DEF InOrderBut
<1>9. InOrderBut(e, v) /\ e = [h EXCEPT !.grabbed = e.grabbed]
  BY <1>1, <1>8, EndGrabOfInOrder
<1> HIDE DEF e
<1>10. /\ e.views = h.views /\ e.scened = h.scened /\ e.mapped = h.mapped
       /\ e.focused = h.focused /\ e.ime = h.ime
  BY <1>2, <1>9 DEF Servers
<1>11. Away(e, v)
  BY <1>2, <1>10 DEF Away, Visible
<1>12. /\ InOrderBut(d, v) /\ Keeps(e, d) /\ d.focused # v
       /\ d.ime = v => e.ime = v /\ e.focused # v
  BY <1>1, <1>9, <1>11, DefocusInOrder
<1> HIDE DEF d
<1>13. v \in Listed(d)
  BY <1>1, <1>4, <1>10, <1>12 DEF Keeps, Listed
<1>14. d \in Servers
  BY <1>12 DEF InOrderBut, SceneBut
<1>15. CASE v \notin Popups
  <2>1. Disturbances = {} => d.ime # v
    BY <1>1, <1>2, <1>10, <1>12, <1>15 DEF InOrderBut, FocusBut
  <2>2. InOrderBut(d, None)
    BY <1>1, <1>12, <1>13, <2>1, Ending
  <2>3. Unmap(s, v) = d
    BY <1>15 DEF Unmap, d, e, h
  <2> QED
    BY <2>2, <2>3
<1>16. CASE v \in Popups /\ d.focused # None
  <2> DEFINE f == d.focused
             t == FocusView(d, f)
  <2>1. /\ f \in Listed(d) /\ f \in Views /\ f \notin Modules
        /\ Disturbances = {} => f \in d.mapped /\ d.keyboard
    BY <1>12, <1>14, <1>16 DEF InOrderBut, FocusBut, Servers
  <2>2. /\ InOrderBut(t, v) /\ Keeps(d, t)
        /\ t.focused \in {d.focused, f} /\ t.ime \in {d.ime, f}
    BY <1>1, <1>12, <2>1, FocusViewInOrder
  <2>3. v \in Listed(t)
    BY <1>13, <2>2 DEF Keeps
  <2>4. ASSUME Disturbances = {} PROVE t.ime # v
    <3>1. CASE d.locked
      <4>1. t = d
        BY <3>1 DEF FocusView
      <4> QED
        BY <1>1, <1>12, <3>1, <4>1 DEF InOrderBut, FocusBut
    <3>2. CASE ~d.locked
      <4>1. f \in d.scened
        BY <1>12, <2>1, <2>4 DEF InOrderBut, SceneBut
      <4>2. t.ime = f
        BY <1>14, <2>1, <2>4, <3>2, <4>1, FocusViewEnters
      <4> QED
        BY <1>12, <4>2
    <3> QED
      BY <3>1, <3>2
  <2> HIDE DEF t
  <2>5. InOrderBut(t, None)
    BY <1>1, <1>12, <2>2, <2>3, <2>4, Ending
  <2>6. Unmap(s, v) = t
    BY <1>16 DEF Unmap, t, d, e, h
  <2> QED
    BY <2>5, <2>6
<1>17. CASE v \in Popups /\ d.focused = None
  <2> DEFINE t == ClearKeyboard(d)
  <2>1. /\ t \in Servers /\ t.ime = None /\ t.focused = d.focused
        /\ t.views = d.views /\ t.scened = d.scened /\ t.mapped = d.mapped
        /\ t.minimized = d.minimized /\ t.docks = d.docks /\ t.shown = d.shown
        /\ t.ws = d.ws /\ t.cur = d.cur /\ t.grabbed = d.grabbed
        /\ t.keyboard = d.keyboard /\ t.locked = d.locked
    BY <1>14 DEF ClearKeyboard, Servers
  <2> HIDE DEF t
  <2>2. Disturbances = {} => t.keyboard
    BY <1>12, <2>1 DEF InOrderBut, FocusBut
  <2>3. InOrderBut(t, v)
    BY <1>1, <1>12, <2>1, <2>2, TakingInOrder
  <2>4. v \in Listed(t)
    BY <1>13, <2>1 DEF Listed
  <2>5. InOrderBut(t, None)
    BY <1>1, <1>12, <2>1, <2>3, <2>4, Ending
  <2>6. Unmap(s, v) = t
    BY <1>17 DEF Unmap, t, d, e, h
  <2> QED
    BY <2>5, <2>6
<1> QED
  BY <1>15, <1>16, <1>17

\* handle_view_destroy and handle_xwayland_dissociate, once the view has nothing.
LEMMA GoneInOrder ==
    ASSUME NEW s, NEW v \in Views, InOrderBut(s, v), s.focused # v, s.grabbed # v,
           v \notin s.mapped, Disturbances = {} => s.ime # v,
           NEW t \in Servers, t.views = s.views, t.mapped = s.mapped,
           t.scened = s.scened \ {v}, t.shown = s.shown,
           t.cur = s.cur, \A w \in Views \ {v} : t.ws[w] = s.ws[w],
           \/ /\ t.minimized = s.minimized /\ t.docks = s.docks
              /\ v \in Listed(s)
           \/ t.minimized = s.minimized \ {v} /\ t.docks = s.docks \ {v},
           t.grabbed = s.grabbed, t.focused = s.focused, t.ime = s.ime,
           t.keyboard = s.keyboard, t.locked = s.locked
    PROVE  InOrderBut(t, None)
<1>1. s \in Servers
  BY DEF InOrderBut, SceneBut
<1>2. Listed(t) = Listed(s)
  BY DEF Listed
<1>3. \A w \in Views : Enabled(t, w) <=> Enabled(s, w)
  BY DEF Enabled
<1>4. Drawn(t)
  <2>1. s.scened \subseteq Views
    BY <1>1 DEF Servers
  <2>2. ~Enabled(s, v)
    BY DEF Enabled
  <2>3. s.shown = {w \in s.scened : Enabled(s, w)}
    BY DEF InOrderBut, SceneBut, Drawn
  <2> QED
    BY <1>3, <2>1, <2>2, <2>3 DEF Drawn
<1>5. SceneBut(t, None)
  BY <1>1, <1>2, <1>4 DEF InOrderBut, SceneBut
<1>6. FocusBut(t, None)
  BY <1>2 DEF InOrderBut, FocusBut
<1> QED
  BY <1>5, <1>6 DEF InOrderBut

-----------------------------------------------------------------------------
\* A new window is at the tail of the list and not mapped yet.
LEMMA NewInOrder ==
    ASSUME TypeOK, InOrderBut(server, None), NEW v \in Views,
           NewXdgToplevel(v) \/ NewXwaylandSurface(v)
    PROVE  InOrderBut(server', None)
<1>1. /\ Append(server.views, v) \in Seq(Views)
      /\ Range(Append(server.views, v)) = Listed(server) \cup {v}
      /\ Distinct(Append(server.views, v))
      /\ v \notin Listed(server)
  <2>1. server.views \in Seq(Views) /\ Distinct(server.views)
    BY DEF InOrderBut, SceneBut, Servers
  <2>2. v \notin Range(server.views)
    BY DEF NewXdgToplevel, NewXwaylandSurface, Listed
  <2> QED
    BY <2>1, <2>2, AppendRange DEF Listed
<1>2. server' \in Servers
  BY WindowStep DEF Behind
<1>3. /\ server'.views = Append(server.views, v)
      /\ server'.scened \in {server.scened, server.scened \cup {v}}
      /\ server'.ws = [server.ws EXCEPT ![v] = server.cur]
      /\ server'.mapped = server.mapped /\ server'.minimized = server.minimized
      /\ server'.docks = server.docks /\ server'.shown = server.shown
      /\ server'.cur = server.cur /\ server'.grabbed = server.grabbed
      /\ server'.focused = server.focused /\ server'.ime = server.ime
      /\ server'.keyboard = server.keyboard /\ server'.locked = server.locked
  BY DEF TypeOK, Servers, NewXdgToplevel, NewXwaylandSurface
<1>4. Listed(server') = Listed(server) \cup {v} /\ Distinct(server'.views)
  BY <1>1, <1>3 DEF Listed
<1>5. v \notin server.mapped
  BY <1>1, DesktopAssumption DEF InOrderBut, SceneBut
<1>6. Drawn(server')
  <2>1. \A w \in Views : Enabled(server', w) <=> Enabled(server, w)
    BY <1>3, <1>5 DEF Enabled, TypeOK, Servers
  <2>2. ~Enabled(server, v)
    BY <1>5 DEF Enabled
  <2>3. server.shown = {w \in server.scened : Enabled(server, w)} /\ server.scened \subseteq Views
    BY DEF InOrderBut, SceneBut, Drawn, TypeOK, Servers
  <2> QED
    BY <1>3, <2>1, <2>2, <2>3 DEF Drawn
<1>7. SceneBut(server', None)
  BY <1>2, <1>3, <1>4, <1>6 DEF InOrderBut, SceneBut
<1>8. FocusBut(server', None)
  BY <1>3, <1>4 DEF InOrderBut, FocusBut
<1> QED
  BY <1>7, <1>8 DEF InOrderBut

LEMMA AttachedInOrder ==
    ASSUME TypeOK, InOrderBut(server, None), NEW v \in Listed(server) \ server.scened
    PROVE  InOrderBut([server EXCEPT !.scened = @ \cup {v}], None)
<1> DEFINE a == [server EXCEPT !.scened = @ \cup {v}]
<1>1. /\ a \in Servers /\ a.scened = server.scened \cup {v}
      /\ a.views = server.views /\ a.mapped = server.mapped
      /\ a.minimized = server.minimized /\ a.docks = server.docks
      /\ a.shown = server.shown /\ a.ws = server.ws /\ a.cur = server.cur
      /\ a.grabbed = server.grabbed /\ a.focused = server.focused /\ a.ime = server.ime
      /\ a.keyboard = server.keyboard /\ a.locked = server.locked
  <2>1. v \in Views
    BY DEF TypeOK, Servers, Listed, Range
  <2> QED
    BY <2>1 DEF TypeOK, Servers
<1> HIDE DEF a
<1>2. Listed(a) = Listed(server)
  BY <1>1 DEF Listed
<1>4. Drawn(a)
  <2>1. \A w : Enabled(a, w) <=> Enabled(server, w)
    BY <1>1 DEF Enabled
  <2>2. ~Enabled(server, v)
    BY DEF Enabled, InOrderBut, SceneBut
  <2>3. server.shown = {w \in server.scened : Enabled(server, w)}
    BY DEF InOrderBut, SceneBut, Drawn
  <2> QED
    BY <1>1, <2>1, <2>2, <2>3 DEF Drawn
<1>5. SceneBut(a, None)
  BY <1>1, <1>2, <1>4 DEF InOrderBut, SceneBut
<1>6. FocusBut(a, None)
  BY <1>1, <1>2 DEF InOrderBut, FocusBut
<1> QED
  BY <1>5, <1>6 DEF InOrderBut, a

LEMMA AssociateInOrder ==
    ASSUME TypeOK, InOrderBut(server, None), NEW v \in Views, Associate(v)
    PROVE  InOrderBut(server', None)
<1> DEFINE a == [server EXCEPT !.scened = @ \cup {v}]
<1>1. server' \in {a, Map(a, v)} /\ v \in Listed(server) \ server.scened
  BY DEF Associate
<1>2. v \in a.scened
  BY DEF TypeOK, Servers
<1>3. InOrderBut(a, None)
  BY <1>1, AttachedInOrder
<1> HIDE DEF a
<1> QED
  BY <1>1, <1>2, <1>3, MapInOrder

\* The seat's forgetting touches no record of the compositor.
LEMMA ForgottenInOrder ==
    ASSUME NEW s, NEW v, InOrderBut(s, None)
    PROVE  InOrderBut(ForgetSurface(s, v), None)
<1> DEFINE t == ForgetSurface(s, v)
<1>1. s \in Servers
  BY DEF InOrderBut, SceneBut
<1>2. /\ t \in Servers
      /\ t.views = s.views /\ t.scened = s.scened /\ t.mapped = s.mapped
      /\ t.minimized = s.minimized /\ t.docks = s.docks /\ t.shown = s.shown
      /\ t.ws = s.ws /\ t.cur = s.cur
      /\ t.grabbed = s.grabbed /\ t.focused = s.focused /\ t.ime = s.ime
      /\ t.keyboard = s.keyboard /\ t.locked = s.locked
  BY <1>1, ZenonT(60) DEF ForgetSurface, Servers
<1> HIDE DEF t
<1>3. (Disturbances = {} => t.keyboard) /\ (t.locked => t.ime = None)
  BY <1>2 DEF InOrderBut, FocusBut
<1>4. InOrderBut(t, None)
  BY <1>2, <1>3, TakingInOrder
<1> QED
  BY <1>4 DEF t

\* What Dissociate and DestroyView have in common: s without grab and focus of v.
LEMMA LosesAll ==
    ASSUME NEW s, NEW v \in Views, InOrderBut(s, v), v \notin s.mapped,
           Disturbances = {} /\ s.ime = v => s.focused = v
    PROVE  LET d == Defocus(EndGrabOf(s, v), v)
           IN  /\ InOrderBut(d, v) /\ d.focused # v /\ d.grabbed # v
               /\ d.mapped = s.mapped /\ Listed(d) = Listed(s)
               /\ Disturbances = {} => d.ime # v
<1> DEFINE e == EndGrabOf(s, v)
           d == Defocus(e, v)
<1>1. InOrderBut(e, v) /\ e.grabbed # v /\ e = [s EXCEPT !.grabbed = e.grabbed]
  BY EndGrabOfInOrder
<1> HIDE DEF e
<1>2. /\ e.views = s.views /\ e.mapped = s.mapped /\ e.focused = s.focused
      /\ e.ime = s.ime
  BY <1>1 DEF InOrderBut, SceneBut, Servers
<1>3. Away(e, v)
  BY <1>2 DEF Away, Visible
<1>4. /\ InOrderBut(d, v) /\ Keeps(e, d) /\ d.focused # v
      /\ d.ime = v => e.ime = v /\ e.focused # v
  BY <1>1, <1>3, DefocusInOrder
<1> HIDE DEF d
<1>5. d.grabbed # v /\ d.mapped = s.mapped /\ Listed(d) = Listed(s)
  BY <1>1, <1>2, <1>4 DEF Keeps, Listed
<1>6. Disturbances = {} => d.ime # v
  BY <1>2, <1>4
<1> QED
  BY <1>4, <1>5, <1>6 DEF d, e

\* Outside a handler only a mapped menu has the input method besides the active view.
LEMMA UnmappedIme ==
    ASSUME NEW s, NEW v \in Views \ s.mapped, InOrderBut(s, None),
           Disturbances = {}, s.ime = v
    PROVE  s.focused = v
BY DesktopAssumption DEF InOrderBut, FocusBut

LEMMA DissociateInOrder ==
    ASSUME TypeOK, InOrderBut(server, None), NEW v \in Views, Dissociate(v)
    PROVE  InOrderBut(server', None)
<1> DEFINE d == Defocus(EndGrabOf(server, v), v)
           u == [d EXCEPT !.scened = @ \ {v}]
           t == ForgetSurface(u, v)
<1>1. v \in server.scened \ server.mapped /\ server' = t
  BY DEF Dissociate
<1>2. InOrderBut(server, v) /\ v \in Listed(server)
  BY <1>1, Beginning, DesktopAssumption DEF InOrderBut, SceneBut
<1>3. /\ InOrderBut(d, v) /\ d.focused # v /\ d.grabbed # v
      /\ d.mapped = server.mapped /\ Listed(d) = Listed(server)
      /\ Disturbances = {} => d.ime # v
  BY <1>1, <1>2, LosesAll, UnmappedIme
<1> HIDE DEF d
<1>4. d \in Servers
  BY <1>3 DEF InOrderBut, SceneBut
<1>5. /\ u \in Servers /\ u.scened = d.scened \ {v}
      /\ u.views = d.views /\ u.mapped = d.mapped /\ u.minimized = d.minimized
      /\ u.docks = d.docks /\ u.shown = d.shown /\ u.ws = d.ws /\ u.cur = d.cur
      /\ u.grabbed = d.grabbed /\ u.focused = d.focused /\ u.ime = d.ime
      /\ u.keyboard = d.keyboard /\ u.locked = d.locked
  BY <1>4 DEF Servers
<1> HIDE DEF u
<1>6. InOrderBut(u, None)
  <2>1. v \notin d.mapped /\ v \in Listed(d)
    BY <1>1, <1>2, <1>3
  <2> QED
    BY <1>3, <1>5, <2>1, GoneInOrder
<1>7. InOrderBut(t, None)
  BY <1>6, ForgottenInOrder
<1> QED
  BY <1>1, <1>7

LEMMA DestroyInOrder ==
    ASSUME TypeOK, InOrderBut(server, None), NEW v \in Views, DestroyView(v)
    PROVE  InOrderBut(server', None)
<1> DEFINE l == [server EXCEPT !.views = Without(@, v)]
           d == Defocus(EndGrabOf(l, v), v)
           u == [d EXCEPT !.scened = @ \ {v}, !.minimized = @ \ {v},
                          !.docks = @ \ {v}, !.ws[v] = 1]
           t == ForgetSurface(u, v)
<1>1. v \in Listed(server) \ server.mapped /\ server' = t
  BY DEF DestroyView
<1>2. InOrderBut(server, v)
  BY Beginning
<1>3. /\ Without(server.views, v) \in Seq(Views)
      /\ Range(Without(server.views, v)) = Listed(server) \ {v}
      /\ Distinct(Without(server.views, v))
  <2>1. server.views \in Seq(Views) /\ Distinct(server.views)
    BY DEF InOrderBut, SceneBut, Servers
  <2>2. v \in Range(server.views)
    BY <1>1 DEF Listed
  <2> QED
    BY <2>1, <2>2, WithoutTyped, WithoutRange DEF Listed
<1>4. /\ l \in Servers /\ l.views = Without(server.views, v)
      /\ l.scened = server.scened /\ l.mapped = server.mapped
      /\ l.minimized = server.minimized /\ l.docks = server.docks
      /\ l.shown = server.shown /\ l.ws = server.ws /\ l.cur = server.cur
      /\ l.grabbed = server.grabbed /\ l.focused = server.focused /\ l.ime = server.ime
      /\ l.keyboard = server.keyboard /\ l.locked = server.locked
  BY <1>3 DEF TypeOK, Servers
<1> HIDE DEF l
<1>5. Listed(l) = Listed(server) \ {v} /\ Distinct(l.views)
  BY <1>3, <1>4 DEF Listed
<1>6. Drawn(l)
  BY <1>4 DEF InOrderBut, SceneBut, Drawn, Enabled
<1>7. SceneBut(l, v)
  BY <1>2, <1>4, <1>5, <1>6 DEF InOrderBut, SceneBut
<1>8. FocusBut(l, v)
  BY <1>2, <1>4, <1>5 DEF InOrderBut, FocusBut
<1>9. Disturbances = {} /\ l.ime = v => l.focused = v
  BY <1>1, <1>4, UnmappedIme
<1>10. /\ InOrderBut(d, v) /\ d.focused # v /\ d.grabbed # v
       /\ d.mapped = l.mapped /\ Listed(d) = Listed(l)
       /\ Disturbances = {} => d.ime # v
  BY <1>1, <1>4, <1>7, <1>8, <1>9, LosesAll DEF InOrderBut
<1> HIDE DEF d
<1>11. d \in Servers
  BY <1>10 DEF InOrderBut, SceneBut
<1>12. [d.ws EXCEPT ![v] = 1] \in [Views -> Workspaces]
  BY <1>11, DesktopAssumption DEF Servers, Workspaces
<1>13. /\ u \in Servers /\ u.scened = d.scened \ {v}
       /\ u.minimized = d.minimized \ {v} /\ u.docks = d.docks \ {v}
       /\ u.ws = [d.ws EXCEPT ![v] = 1]
       /\ u.views = d.views /\ u.mapped = d.mapped /\ u.shown = d.shown /\ u.cur = d.cur
       /\ u.grabbed = d.grabbed /\ u.focused = d.focused /\ u.ime = d.ime
       /\ u.keyboard = d.keyboard /\ u.locked = d.locked
  BY <1>11, <1>12 DEF Servers
<1> HIDE DEF u
<1>14. InOrderBut(u, None)
  <2>1. \A w \in Views \ {v} : u.ws[w] = d.ws[w]
    BY <1>11, <1>13 DEF Servers
  <2>2. v \notin d.mapped
    BY <1>1, <1>4, <1>10
  <2>3. InOrderBut(d, v) /\ d.focused # v /\ d.grabbed # v
    BY <1>10
  <2>4. Disturbances = {} => d.ime # v
    BY <1>10
  <2>5. u \in Servers /\ u.scened = d.scened \ {v}
    BY <1>13
  <2>6. u.minimized = d.minimized \ {v} /\ u.docks = d.docks \ {v}
    BY <1>13
  <2>7. /\ u.views = d.views /\ u.mapped = d.mapped /\ u.shown = d.shown /\ u.cur = d.cur
        /\ u.grabbed = d.grabbed /\ u.focused = d.focused /\ u.ime = d.ime
        /\ u.keyboard = d.keyboard /\ u.locked = d.locked
    BY <1>13
  <2> QED
    BY <2>1, <2>2, <2>3, <2>4, <2>5, <2>6, <2>7, GoneInOrder
<1>15. InOrderBut(t, None)
  BY <1>14, ForgottenInOrder
<1> QED
  BY <1>1, <1>15

LEMMA WindowInOrder ==
    ASSUME TypeOK, InOrderBut(server, None), NEW v \in Views,
           \/ NewXdgToplevel(v) \/ NewXwaylandSurface(v) \/ MapView(v) \/ Associate(v)
           \/ UnmapView(v) \/ Dissociate(v) \/ DestroyView(v)
    PROVE  InOrderBut(server', None)
<1>1. CASE MapView(v)
  BY <1>1, MapInOrder DEF MapView
<1>2. CASE UnmapView(v)
  BY <1>2, UnmapInOrder DEF UnmapView
<1> QED
  BY <1>1, <1>2, NewInOrder, AssociateInOrder, DissociateInOrder, DestroyInOrder

-----------------------------------------------------------------------------
LEMMA MoveWindowInOrder ==
    ASSUME TypeOK, InOrderBut(server, None), NEW v \in Views, NEW w \in Workspaces,
           MoveWindowToWorkspace(v, w)
    PROVE  InOrderBut(server', None)
<1> DEFINE n == NormalizeWorkspace(w)
           p == [server EXCEPT !.ws[v] = n]
           m == UpdateNode(p, v)
           e == EndGrabOf(m, v)
           d == Defocus(e, v)
<1>1. /\ v \in Listed(server) \ server.docks
      /\ server' = IF n = server.cur THEN m ELSE d
  BY DEF MoveWindowToWorkspace
<1>2. n \in Workspaces
  BY NormalizeTyped DEF Workspaces
<1> HIDE DEF n
<1>3. [server.ws EXCEPT ![v] = n] \in [Views -> Workspaces]
  BY <1>2 DEF TypeOK, Servers
<1>4. /\ p \in Servers /\ p.ws = [server.ws EXCEPT ![v] = n]
      /\ p.views = server.views /\ p.scened = server.scened /\ p.mapped = server.mapped
      /\ p.minimized = server.minimized /\ p.docks = server.docks
      /\ p.shown = server.shown /\ p.cur = server.cur
      /\ p.grabbed = server.grabbed /\ p.focused = server.focused /\ p.ime = server.ime
      /\ p.keyboard = server.keyboard /\ p.locked = server.locked
  BY <1>3 DEF TypeOK, Servers
<1> HIDE DEF p
<1>5. \A x \in Views \ {v} : Enabled(p, x) <=> Enabled(server, x)
  BY <1>4 DEF Enabled, TypeOK, Servers
<1>6. Drawn(server)
  BY DEF InOrderBut, SceneBut
<1>7. /\ m \in Servers /\ Drawn(m)
      /\ m.views = p.views /\ m.scened = p.scened /\ m.mapped = p.mapped
      /\ m.minimized = p.minimized /\ m.docks = p.docks
      /\ m.ws = p.ws /\ m.cur = p.cur /\ m.grabbed = p.grabbed
      /\ m.focused = p.focused /\ m.ime = p.ime
      /\ m.keyboard = p.keyboard /\ m.locked = p.locked
  <2>1. p \in Servers /\ p.scened = server.scened /\ p.shown = server.shown
    BY <1>4
  <2> QED
    BY <1>5, <1>6, <2>1, Recomputed DEF TypeOK
<1> HIDE DEF m
<1>8. Listed(m) = Listed(server)
  BY <1>4, <1>7 DEF Listed
<1>9. SceneBut(m, None)
  BY <1>4, <1>7, <1>8 DEF InOrderBut, SceneBut
<1>10. FocusBut(m, None)
  BY <1>4, <1>7, <1>8 DEF InOrderBut, FocusBut
<1>11. InOrderBut(m, None)
  BY <1>9, <1>10 DEF InOrderBut
<1>12. CASE n = server.cur
  BY <1>1, <1>11, <1>12
<1>13. CASE n # server.cur
  <2>1. InOrderBut(e, v) /\ e = [m EXCEPT !.grabbed = e.grabbed]
    BY <1>11, Beginning, EndGrabOfInOrder
  <2> HIDE DEF e
  <2>2. /\ e.views = m.views /\ e.mapped = m.mapped /\ e.ws = m.ws /\ e.cur = m.cur
        /\ e.focused = m.focused /\ e.ime = m.ime
    BY <1>7, <2>1 DEF Servers
  <2>3. e.ws[v] # e.cur
    BY <1>4, <1>7, <1>13, <2>2 DEF TypeOK, Servers
  <2>4. Away(e, v)
    BY <2>3 DEF Away, Visible
  <2>5. /\ InOrderBut(d, v) /\ Keeps(e, d) /\ d.focused # v
        /\ d.ime = v => e.ime = v /\ e.focused # v
    BY <2>1, <2>4, DefocusInOrder
  <2> HIDE DEF d
  <2>6. v \in Listed(d)
    BY <1>1, <1>8, <2>2, <2>5 DEF Keeps, Listed
  <2>7. Disturbances = {} /\ d.ime = v => v \in Popups \cap d.mapped
    BY <1>11, <2>2, <2>5, DesktopAssumption DEF InOrderBut, FocusBut, Keeps
  <2>8. InOrderBut(d, None)
    BY <2>5, <2>6, <2>7, Ending
  <2> QED
    BY <1>1, <1>13, <2>8
<1> QED
  BY <1>12, <1>13

\* A window that is drawn is mapped.
LEMMA ShownMapped ==
    ASSUME NEW s, InOrderBut(s, None)
    PROVE  s.shown \subseteq s.mapped
BY DEF InOrderBut, SceneBut, Drawn, Enabled

LEMMA PressInOrder ==
    ASSUME TypeOK, InOrderBut(server, None), NEW v \in Views, NEW alt \in BOOLEAN,
           PressButton(v, alt)
    PROVE  InOrderBut(server', None)
<1> DEFINE p == [server EXCEPT !.pressed = IF @ = None THEN v ELSE None]
<1>1. /\ p \in Servers
      /\ p.views = server.views /\ p.scened = server.scened /\ p.mapped = server.mapped
      /\ p.minimized = server.minimized /\ p.docks = server.docks
      /\ p.shown = server.shown /\ p.ws = server.ws /\ p.cur = server.cur
      /\ p.grabbed = server.grabbed /\ p.focused = server.focused /\ p.ime = server.ime
      /\ p.keyboard = server.keyboard /\ p.locked = server.locked
  BY DEF TypeOK, Servers
<1>2. v \in server.shown /\ server' \in {p, BeginInteractive(p, v), FocusView(p, v)}
  BY DEF PressButton
<1> HIDE DEF p
<1>3. (Disturbances = {} => p.keyboard) /\ (p.locked => p.ime = None)
  BY <1>1 DEF InOrderBut, FocusBut
<1>4. InOrderBut(p, None)
  BY <1>1, <1>3, TakingInOrder
<1>5. v \in p.mapped /\ v \in p.scened /\ v \in Listed(p) /\ v # None
  BY <1>1, <1>2, <1>4, ShownMapped, DesktopAssumption DEF InOrderBut, SceneBut
<1>6. InOrderBut(BeginInteractive(p, v), None)
  BY <1>4, <1>5, BeginInteractiveInOrder
<1>7. InOrderBut(FocusView(p, v), None)
  BY <1>4, <1>5, FocusViewInOrder
<1> QED
  BY <1>2, <1>4, <1>6, <1>7

\* Requests that name a view, with or without entering its workspace.
LEMMA FocusRequestInOrder ==
    ASSUME TypeOK, InOrderBut(server, None), NEW v \in Views,
           ForeignActivate(v) \/ ActivationRequest(v) \/ FocusWindow(v)
    PROVE  InOrderBut(server', None)
<1> DEFINE t == EnterWorkspace(server, server.ws[v])
<1>1. /\ v \in Listed(server) /\ v # None
      /\ Disturbances = {} => v \in server.mapped
  BY DesktopAssumption
     DEF ForeignActivate, ActivationRequest, FocusWindow, MayName, InOrderBut, SceneBut
<1>2. server.ws[v] \in Nat
  BY DEF TypeOK, Servers, Workspaces
<1>3. InOrderBut(t, None) /\ Listed(t) = Listed(server) /\ t.mapped = server.mapped
  BY <1>2, EnterWorkspaceInOrder
<1>4. server' \in {FocusView(server, v), FocusView(t, v)}
  BY DEF ForeignActivate, ActivationRequest, FocusWindow
<1> HIDE DEF t
<1>5. InOrderBut(FocusView(server, v), None)
  BY <1>1, FocusViewInOrder
<1>6. InOrderBut(FocusView(t, v), None)
  BY <1>1, <1>3, FocusViewInOrder
<1> QED
  BY <1>4, <1>5, <1>6

LEMMA RequestInOrder ==
    ASSUME TypeOK, InOrderBut(server, None), NEW v \in Views,
           \/ RequestMinimize(v) \/ RequestRestore(v) \/ RequestInteractive(v)
           \/ XwaylandRequestInteractive(v) \/ ForeignActivate(v)
           \/ ActivationRequest(v) \/ FocusWindow(v)
           \/ \E w \in Workspaces : MoveWindowToWorkspace(v, w)
           \/ \E alt \in BOOLEAN : PressButton(v, alt)
    PROVE  InOrderBut(server', None)
<1>1. CASE RequestMinimize(v)
  BY <1>1, MinimizeInOrder DEF RequestMinimize
<1>2. CASE RequestRestore(v)
  BY <1>2, RestoreInOrder DEF RequestRestore
<1>3. CASE RequestInteractive(v) \/ XwaylandRequestInteractive(v)
  <2>1. Drawn(server)
    BY DEF InOrderBut, SceneBut
  <2>2. v \in server.scened /\ (Disturbances = {} => v \in server.mapped)
    BY <1>3, <2>1
       DEF RequestInteractive, XwaylandRequestInteractive, OnScreen, Drawn, Enabled
  <2> QED
    BY <1>3, <2>2, BeginInteractiveInOrder DEF RequestInteractive, XwaylandRequestInteractive
<1> QED
  BY <1>1, <1>2, <1>3, FocusRequestInOrder, MoveWindowInOrder, PressInOrder

-----------------------------------------------------------------------------
LEMMA SwitchInOrder ==
    ASSUME TypeOK, InOrderBut(server, None),
           \/ \E w \in 0 .. NWorkspaces + 1 : SetWorkspace(w)
           \/ WorkspaceNext \/ WorkspacePrev
    PROVE  InOrderBut(server', None)
<1>1. PICK w \in Nat : server' = EnterWorkspace(server, w)
  <2>1. server.cur \in 1 .. NWorkspaces /\ NWorkspaces \in Nat
    BY DesktopAssumption DEF TypeOK, Servers, Workspaces
  <2>2. CASE \E w \in 0 .. NWorkspaces + 1 : SetWorkspace(w)
    BY <2>1, <2>2 DEF SetWorkspace
  <2>3. CASE WorkspaceNext
    BY <2>1, <2>3 DEF WorkspaceNext
  <2>4. CASE WorkspacePrev
    BY <2>1, <2>4 DEF WorkspacePrev
  <2> QED
    BY <2>2, <2>3, <2>4
<1> QED
  BY <1>1, EnterWorkspaceInOrder

\* focus_next_view and focus_prev_view.
LEMMA NextPrevInOrder ==
    ASSUME TypeOK, InOrderBut(server, None), FocusNext \/ FocusPrev
    PROVE  InOrderBut(server', None)
<1>1. PICK i \in DOMAIN server.views : /\ Visible(server, server.views[i])
                                      /\ server' = FocusView(server, server.views[i])
  BY DEF FocusNext, FocusPrev, Others
<1>2. /\ server.views[i] \in Listed(server) /\ server.views[i] \in server.mapped
      /\ server.views[i] # None
  BY <1>1, DesktopAssumption DEF Listed, Range, Visible, TypeOK, Servers
<1> QED
  BY <1>1, <1>2, FocusViewInOrder

\* Handlers that change no record but to take something away.
LEMMA TakingStep ==
    ASSUME TypeOK, InOrderBut(server, None), TypeOK', LockKeepsKeyboard',
           \/ ToggleFullscreen \/ \E ends \in BOOLEAN : ReleaseButton(ends)
           \/ KeyboardArrives \/ KeyboardUnplugged
           \/ NewSessionLock \/ LockDestroyed \/ LockClientGone
           \/ \E k \in LockSurfaces : \/ LockSurfaceNew(k) \/ LockSurfaceMap(k)
                                      \/ LockSurfaceUnmap(k) \/ LockSurfaceDestroy(k)
    PROVE  InOrderBut(server', None)
<1> DEFINE Taken ==
      /\ server'.views = server.views /\ server'.scened = server.scened
      /\ server'.mapped = server.mapped /\ server'.minimized = server.minimized
      /\ server'.docks = server.docks /\ server'.shown = server.shown
      /\ server'.ws = server.ws /\ server'.cur = server.cur
      /\ server'.focused = server.focused
      /\ server'.grabbed \in {server.grabbed, None} /\ server'.ime \in {server.ime, None}
      /\ server'.keyboard \in {server.keyboard, TRUE} \/ "unplug" \in Disturbances
<1>1. Taken
  <2>1. CASE ToggleFullscreen \/ \E ends \in BOOLEAN : ReleaseButton(ends)
    BY <2>1 DEF ToggleFullscreen, ReleaseButton, TypeOK, Servers
  <2>2. CASE KeyboardArrives \/ KeyboardUnplugged
    BY <2>2, ZenonT(60) DEF KeyboardArrives, KeyboardUnplugged, TypeOK, Servers
  <2>3. CASE NewSessionLock
    BY <2>3 DEF NewSessionLock, ClearKeyboard, TypeOK, Servers
  <2>4. CASE LockDestroyed \/ LockClientGone
    BY <2>4, ZenonT(60) DEF LockDestroyed, LockClientGone, TypeOK, Servers
  <2>5. ASSUME NEW k \in LockSurfaces,
               LockSurfaceNew(k) \/ LockSurfaceMap(k) \/ LockSurfaceDestroy(k)
        PROVE  Taken
    BY <2>5, ZenonT(60) DEF LockSurfaceNew, LockSurfaceMap, LockSurfaceDestroy, TypeOK, Servers
  <2>6. ASSUME NEW k \in LockSurfaces, LockSurfaceUnmap(k)
        PROVE  Taken
    <3> DEFINE r == [server EXCEPT !.lmapped = @ \ {k}]
    <3>1. server' = FocusAnyLockSurface(r)
      BY <2>6 DEF LockSurfaceUnmap
    <3>2. /\ r.views = server.views /\ r.scened = server.scened
          /\ r.mapped = server.mapped /\ r.minimized = server.minimized
          /\ r.docks = server.docks /\ r.shown = server.shown
          /\ r.ws = server.ws /\ r.cur = server.cur /\ r.focused = server.focused
          /\ r.grabbed = server.grabbed /\ r.ime = server.ime
          /\ r.keyboard = server.keyboard /\ r \in Servers
      BY DEF TypeOK, Servers
    <3> HIDE DEF r
    <3>3. \E k2 : server' = [r EXCEPT !.kbd = k2, !.ime = None]
      BY <3>1 DEF FocusAnyLockSurface, ClearKeyboard
    <3> QED
      BY <3>2, <3>3 DEF Servers
  <2> HIDE DEF Taken
  <2> QED
    BY <2>1, <2>2, <2>3, <2>4, <2>5, <2>6
<1>2. server' \in Servers /\ (server'.locked => server'.ime = None)
  BY DEF TypeOK, LockKeepsKeyboard
<1>3. Disturbances = {} => server'.keyboard
  BY <1>1 DEF InOrderBut, FocusBut
<1> QED
  BY <1>1, <1>2, <1>3, TakingInOrder

\* The unlock refocuses.
LEMMA UnlockInOrder ==
    ASSUME TypeOK, InOrderBut(server, None), Unlock
    PROVE  InOrderBut(server', None)
<1> DEFINE u == [server EXCEPT !.lock = FALSE, !.locked = FALSE, !.lsurfs = <<>>]
<1>1. server' = FocusTopmost(u)
  BY DEF Unlock
<1>. <<>> \in Seq(LockSurfaces)
  OBVIOUS
<1>2. /\ u \in Servers /\ ~u.locked
      /\ u.views = server.views /\ u.scened = server.scened /\ u.mapped = server.mapped
      /\ u.minimized = server.minimized /\ u.docks = server.docks
      /\ u.shown = server.shown /\ u.ws = server.ws /\ u.cur = server.cur
      /\ u.grabbed = server.grabbed /\ u.focused = server.focused /\ u.ime = server.ime
      /\ u.keyboard = server.keyboard
  BY DEF TypeOK, Servers
<1> HIDE DEF u
<1>3. Disturbances = {} => u.keyboard
  BY <1>2 DEF InOrderBut, FocusBut
<1>4. InOrderBut(u, None)
  BY <1>2, <1>3, TakingInOrder
<1>5. Away(u, None)
  BY <1>2, DesktopAssumption DEF Away, Listed, Range, Servers
<1> QED
  BY <1>1, <1>4, <1>5, FocusTopmostInOrder

-----------------------------------------------------------------------------
LEMMA InitInOrder ==
    ASSUME Init
    PROVE  InOrderBut(server, None)
<1>1. server \in Servers
  BY InitLocked DEF TypeOK
<1>2. /\ server.views = <<>> /\ server.scened = {} /\ server.mapped = {}
      /\ server.minimized = {} /\ server.docks = {} /\ server.shown = {}
      /\ server.focused = None /\ server.grabbed = None /\ server.ime = None
      /\ server.keyboard = ("unplug" \notin Disturbances)
  BY DEF Init
<1>3. SceneBut(server, None)
  <2>1. Distinct(server.views)
    BY <1>2 DEF Distinct
  <2>2. Drawn(server)
    BY <1>2 DEF Drawn
  <2> QED
    BY <1>1, <1>2, <2>1, <2>2 DEF SceneBut
<1>4. None \notin Popups \cup Modules
  BY DesktopAssumption
<1>5. FocusBut(server, None)
  BY <1>2, <1>4 DEF FocusBut
<1> QED
  BY <1>3, <1>5 DEF InOrderBut

LEMMA NextInOrder ==
    ASSUME TypeOK, LockKeepsKeyboard, InOrderBut(server, None), [Next]_server
    PROVE  InOrderBut(server', None)
<1>1. CASE UNCHANGED server
  BY <1>1
<1>2. CASE Next
  <2>1. TypeOK' /\ LockKeepsKeyboard'
    BY NextLocked
  <2> QED
    BY <1>2, <2>1, WindowInOrder, RequestInOrder, SwitchInOrder, NextPrevInOrder,
       TakingStep, UnlockInOrder DEF Next
<1> QED
  BY <1>1, <1>2

\* With no view excepted the records agree.
LEMMA InOrderConsistent ==
    ASSUME InOrderBut(server, None)
    PROVE  Consistent
<1>1. server \in Servers /\ None \notin server.scened \cup server.minimized \cup server.docks
  BY DesktopAssumption DEF InOrderBut, SceneBut, Servers
<1>2. ListConsistent
  BY <1>1 DEF InOrderBut, SceneBut, ListConsistent, Distinct
<1>3. ShownExact
  BY DEF InOrderBut, SceneBut, Drawn, ShownExact
<1>4. NothingDangles
  BY DEF InOrderBut, SceneBut, FocusBut, NothingDangles
<1>5. FocusRoles
  BY <1>1 DEF InOrderBut, FocusBut, FocusRoles
<1> QED
  BY <1>1, <1>2, <1>3, <1>4, <1>5 DEF Consistent, TypeOK

(***************************************************************************)
(* Every handler, whatever its helpers do in between, leaves the list of   *)
(* views, the nodes that are drawn, the focus and the grab in agreement,   *)
(* whichever windows requests name: nothing that is drawn should not be,   *)
(* and neither focused_view nor grabbed_view is a view that has been freed.*)
(***************************************************************************)
THEOREM AlwaysConsistent == Spec => []Consistent
<1> DEFINE IInv == TypeOK /\ LockKeepsKeyboard /\ InOrderBut(server, None)
<1>1. Init => IInv
  BY InitLocked, InitInOrder
<1>2. IInv /\ [Next]_server => IInv'
  <2> SUFFICES ASSUME IInv, [Next]_server PROVE IInv'
    OBVIOUS
  <2>1. TypeOK' /\ LockKeepsKeyboard'
    BY NextLocked
  <2>2. InOrderBut(server', None)
    BY NextInOrder
  <2> QED
    BY <2>1, <2>2
<1>3. IInv => Consistent
  BY InOrderConsistent
<1> QED
  BY <1>1, <1>2, <1>3, PTL DEF Spec

-----------------------------------------------------------------------------
\* The view that focus_topmost_view chooses is not iconified.
LEMMA FocusTopmostRestoresNone ==
    ASSUME NEW s \in Servers
    PROVE  FocusTopmost(s).minimized = s.minimized
<1>1. CASE \E i \in DOMAIN s.views : IsTopmost(s, i)
  <2> DEFINE i == CHOOSE i \in DOMAIN s.views : IsTopmost(s, i)
             v == s.views[i]
             r == Raise(s, v)
  <2>1. i \in DOMAIN s.views /\ IsTopmost(s, i)
    BY <1>1
  <2>2. FocusTopmost(s) = FocusView(s, v)
    BY <1>1 DEF FocusTopmost
  <2> HIDE DEF i
  <2>3. v \in Views /\ v \notin s.minimized
    BY <2>1 DEF Servers, IsTopmost, Visible
  <2> HIDE DEF v
  <2>4. Restore(s, v) = s
    BY <2>3 DEF Restore
  <2>5. r \in Servers /\ r.minimized = s.minimized
    BY <2>3, RaiseTyped DEF Raise, Servers
  <2>6. GiveFocus(s, v, v \notin Popups \cup Modules).minimized = s.minimized
    BY <2>4, <2>5 DEF GiveFocus
  <2> QED
    BY <2>2, <2>6 DEF FocusView
<1>2. CASE ~\E i \in DOMAIN s.views : IsTopmost(s, i)
  BY <1>2 DEF FocusTopmost
<1> QED
  BY <1>1, <1>2

LEMMA SwitchRestoresNone ==
    ASSUME NEW s \in Servers, NEW w \in Nat
    PROVE  EnterWorkspace(s, w).minimized = s.minimized
<1> DEFINE n == NormalizeWorkspace(w)
           moved == [s EXCEPT !.cur = n]
           ungrab == IF Elsewhere(moved, s.grabbed)
                     THEN [moved EXCEPT !.grabbed = None] ELSE moved
           unfocus == IF Elsewhere(ungrab, s.focused)
                      THEN ClearKeyboard([ungrab EXCEPT !.focused = None])
                      ELSE ungrab
           redrawn == [unfocus EXCEPT !.shown = {v \in s.scened : Enabled(unfocus, v)}]
<1>1. n \in Workspaces
  BY NormalizeTyped
<1> HIDE DEF n
<1>2. moved \in Servers /\ moved.minimized = s.minimized
  BY <1>1 DEF Servers
<1> HIDE DEF moved
<1>3. ungrab \in Servers /\ ungrab.minimized = s.minimized
  BY <1>2, ZenonT(60) DEF Servers
<1> HIDE DEF ungrab
<1>4. unfocus \in Servers /\ unfocus.minimized = s.minimized
  BY <1>3, ZenonT(60) DEF ClearKeyboard, Servers
<1> HIDE DEF unfocus
<1>5. {v \in s.scened : Enabled(unfocus, v)} \in SUBSET Views
  BY DEF Servers
<1>6. redrawn \in Servers /\ redrawn.minimized = s.minimized
  BY <1>4, <1>5 DEF Servers
<1> HIDE DEF redrawn
<1>7. EnterWorkspace(s, w) = IF n = s.cur THEN s ELSE FocusTopmost(redrawn)
  BY DEF EnterWorkspace, redrawn, unfocus, ungrab, moved, n
<1> QED
  BY <1>6, <1>7, FocusTopmostRestoresNone

\* A change of workspace, with the refocusing that ends it, restores no iconified
\* view (set_workspace).
THEOREM DesksRestoreNone == Spec => DesksKeepIconified
<1>1. TypeOK => [\A w \in 0 .. NWorkspaces + 1 :
                   SetWorkspace(w) => server'.minimized = server.minimized]_server
  <2> SUFFICES ASSUME TypeOK, NEW w \in 0 .. NWorkspaces + 1, SetWorkspace(w)
               PROVE  server'.minimized = server.minimized
    OBVIOUS
  <2>1. w \in Nat
    BY DesktopAssumption
  <2> QED
    BY <2>1, SwitchRestoresNone DEF SetWorkspace, TypeOK
<1> QED
  BY <1>1, Locked, PTL DEF DesksKeepIconified

-----------------------------------------------------------------------------
(***************************************************************************)
(* Focus, grab and keyboard are where they should be.  As above, a handler *)
(* breaks this for the view x that it takes them from; x = None excepts    *)
(* nothing.  It needs requests that name mapped views of this workspace    *)
(* and a keyboard on the seat (Disturbances = {}).                         *)
(***************************************************************************)
\* The states that focus_view can be reasoned about in.
Fit(s) == s \in Servers /\ Distinct(s.views) /\ Drawn(s) /\ s.keyboard

\* v is on this workspace or is a dock.
Here(s, v) == v \in s.docks \/ s.ws[v] = s.cur

PlacedBut(s, x) ==
    /\ s.focused \in Views \ {x} => Here(s, s.focused)
    /\ s.grabbed \in s.shown \cup {None, x}
    /\ ~s.locked =>
         /\ s.kbd \in Views => s.kbd \in {x, s.focused} \cup (Popups \cap s.mapped)
         /\ s.focused # None => s.kbd \in Views \/ s.focused \in WinTabs \cup s.docks

LEMMA RestoreFit ==
    ASSUME NEW s, NEW v \in Views, Fit(s)
    PROVE  LET t == Restore(s, v)
           IN  /\ Fit(t) /\ Keeps(s, t) /\ t.views = s.views
               /\ t.focused = s.focused /\ t.kbd = s.kbd
               /\ s.shown \subseteq t.shown
<1> DEFINE r == [s EXCEPT !.minimized = @ \ {v}]
           u == UpdateNode(r, v)
<1>1. s \in Servers
  BY DEF Fit
<1>2. CASE v \in s.minimized \ s.docks
  <2>1. r \in Servers
    BY <1>1 DEF Servers
  <2>2. /\ r.views = s.views /\ r.mapped = s.mapped /\ r.scened = s.scened
        /\ r.docks = s.docks /\ r.ws = s.ws /\ r.cur = s.cur /\ r.grabbed = s.grabbed
        /\ r.locked = s.locked /\ r.focused = s.focused /\ r.kbd = s.kbd
        /\ r.keyboard = s.keyboard /\ r.minimized = s.minimized \ {v} /\ r.shown = s.shown
    BY <1>1 DEF Servers
  <2> HIDE DEF r
  <2>3. r.shown \ {v} = {w \in r.scened : Enabled(r, w)} \ {v}
    <3>1. \A w \in Views \ {v} : Enabled(r, w) <=> Enabled(s, w)
      BY <2>2 DEF Enabled
    <3>2. s.shown = {w \in s.scened : Enabled(s, w)} /\ s.scened \subseteq Views
      BY DEF Fit, Drawn, Servers
    <3> QED
      BY <2>2, <3>1, <3>2
  <2>4. u \in Servers /\ u = [r EXCEPT !.shown = u.shown]
        /\ u.shown = {w \in u.scened : Enabled(u, w)}
    BY <2>1, <2>3, UpdateNodeExact
  <2> HIDE DEF u
  <2>5. /\ u.views = s.views /\ u.mapped = s.mapped /\ u.scened = s.scened
        /\ u.docks = s.docks /\ u.ws = s.ws /\ u.cur = s.cur /\ u.grabbed = s.grabbed
        /\ u.locked = s.locked /\ u.focused = s.focused /\ u.kbd = s.kbd
        /\ u.keyboard = s.keyboard /\ u.minimized = s.minimized \ {v}
    BY <2>1, <2>2, <2>4 DEF Servers
  <2>6. Restore(s, v) = u
    BY <1>2 DEF Restore, r, u
  <2>7. s.shown \subseteq u.shown
    <3>1. \A w : Enabled(s, w) => Enabled(u, w)
      BY <2>5 DEF Enabled
    <3> QED
      BY <2>4, <2>5, <3>1 DEF Fit, Drawn
  <2> QED
    BY <2>4, <2>5, <2>6, <2>7 DEF Fit, Drawn, Keeps, Listed
<1>3. CASE ~(v \in s.minimized \ s.docks)
  BY <1>3 DEF Restore, Keeps
<1> QED
  BY <1>2, <1>3

\* What focus_view makes of a state that is fit, while the session is not locked.
LEMMA FocusViewEffect ==
    ASSUME NEW s, NEW v \in Listed(s) \cap s.scened, Fit(s), ~s.locked
    PROVE  LET t == FocusView(s, v)
           IN  /\ Keeps(s, t) /\ s.shown \subseteq t.shown
               /\ t.focused = IF v \in Popups \cup Modules THEN s.focused ELSE v
               /\ t.kbd = IF v \in Modules THEN s.kbd ELSE v
<1> DEFINE r == Restore(s, v)
           a == Raise(r, v)
           steals == v \notin Popups \cup Modules
           enters == s.keyboard /\ v \in s.scened \ Modules
           f == IF steals THEN v ELSE a.focused
           k == IF enters THEN v ELSE a.kbd
           i == IF enters THEN v ELSE a.ime
           t == [a EXCEPT !.focused = f, !.kbd = k, !.ime = i]
<1>1. v \in Views
  BY DEF Fit, Servers, Listed, Range
<1>2. /\ Fit(r) /\ Keeps(s, r) /\ r.views = s.views
      /\ r.focused = s.focused /\ r.kbd = s.kbd /\ s.shown \subseteq r.shown
  BY <1>1, RestoreFit
<1> HIDE DEF r
<1>3. r \in Servers /\ Distinct(r.views) /\ v \in Listed(r)
  BY <1>2 DEF Fit, Keeps
<1>4. a \in Servers /\ a = [r EXCEPT !.views = a.views] /\ Listed(a) = Listed(r)
  BY <1>3, RaiseKeeps
<1> HIDE DEF a
<1>5. /\ a.mapped = r.mapped /\ a.scened = r.scened /\ a.docks = r.docks /\ a.ws = r.ws
      /\ a.cur = r.cur /\ a.grabbed = r.grabbed /\ a.shown = r.shown
      /\ a.locked = r.locked /\ a.focused = r.focused /\ a.kbd = r.kbd
  BY <1>3, <1>4 DEF Servers
<1>6. FocusView(s, v) = t
  BY DEF FocusView, GiveFocus, a, r
<1> HIDE DEF f, k, i
<1>7. /\ t.focused = f /\ t.kbd = k /\ t.mapped = a.mapped /\ t.scened = a.scened
      /\ t.docks = a.docks /\ t.ws = a.ws /\ t.cur = a.cur /\ t.grabbed = a.grabbed
      /\ t.shown = a.shown /\ t.locked = a.locked /\ t.views = a.views
  BY <1>4 DEF Servers
<1> HIDE DEF t
<1>8. Keeps(s, t) /\ s.shown \subseteq t.shown
  BY <1>2, <1>4, <1>5, <1>7 DEF Keeps, Listed
<1>9. f = (IF steals THEN v ELSE s.focused) /\ k = (IF v \in Modules THEN s.kbd ELSE v)
  BY <1>2, <1>5 DEF f, k, Fit
<1> QED
  BY <1>6, <1>7, <1>8, <1>9

\* It places the focus if the view may have it and is on the screen.
LEMMA FocusViewPlaced ==
    ASSUME NEW s, NEW x \in Views \cup {None}, NEW v \in Listed(s) \cap s.mapped \cap s.scened,
           v # x, Fit(s), Here(s, v), PlacedBut(s, x)
    PROVE  LET t == FocusView(s, v)
           IN  /\ PlacedBut(t, x) /\ Keeps(s, t) /\ s.shown \subseteq t.shown
               /\ t.focused \in {s.focused, v}
               /\ ~s.locked /\ v \notin Modules => t.kbd = v
<1> DEFINE t == FocusView(s, v)
<1>1. CASE s.locked
  BY <1>1 DEF FocusView, Keeps
<1>2. CASE ~s.locked
  <2>1. v \in Views
    BY DEF Fit, Servers, Listed, Range
  <2>2. /\ Keeps(s, t) /\ s.shown \subseteq t.shown
        /\ t.focused = (IF v \in Popups \cup Modules THEN s.focused ELSE v)
        /\ t.kbd = (IF v \in Modules THEN s.kbd ELSE v)
    BY <1>2, FocusViewEffect
  <2> HIDE DEF t
  <2>3. t.focused \in Views \ {x} => Here(t, t.focused)
    BY <2>2 DEF PlacedBut, Here, Keeps
  <2>4. t.grabbed \in t.shown \cup {None, x}
    BY <2>2 DEF PlacedBut, Keeps
  <2>5. t.kbd \in Views => t.kbd \in {x, t.focused} \cup (Popups \cap t.mapped)
    BY <1>2, <2>2 DEF PlacedBut, Keeps
  <2>6. t.focused # None => t.kbd \in Views \/ t.focused \in WinTabs \cup t.docks
    BY <1>2, <2>1, <2>2 DEF PlacedBut, Keeps
  <2>7. PlacedBut(t, x)
    BY <2>3, <2>4, <2>5, <2>6 DEF PlacedBut
  <2> QED
    BY <2>2, <2>7 DEF t
<1> QED
  BY <1>1, <1>2

LEMMA FocusTopmostPlaced ==
    ASSUME NEW s, NEW x \in Views \cup {None}, Fit(s), PlacedBut(s, x), Away(s, x)
    PROVE  LET t == FocusTopmost(s)
           IN  PlacedBut(t, x) /\ Keeps(s, t) /\ s.shown \subseteq t.shown
<1>1. CASE \E i \in DOMAIN s.views : IsTopmost(s, i)
  <2> DEFINE i == CHOOSE i \in DOMAIN s.views : IsTopmost(s, i)
             v == s.views[i]
  <2>1. i \in DOMAIN s.views /\ IsTopmost(s, i)
    BY <1>1
  <2>2. FocusTopmost(s) = FocusView(s, v)
    BY <1>1 DEF FocusTopmost
  <2> HIDE DEF i
  <2>3. v \in Listed(s) /\ Visible(s, v)
    BY <2>1 DEF Listed, Range, IsTopmost
  <2> HIDE DEF v
  <2>4. v # x /\ v \in s.mapped \cap s.scened /\ Here(s, v) /\ v \notin Modules
    BY <2>3 DEF Away, Visible, Here
  <2>5. LET t == FocusView(s, v)
        IN  /\ PlacedBut(t, x) /\ Keeps(s, t) /\ s.shown \subseteq t.shown
            /\ ~s.locked => t.kbd = v
    BY <2>3, <2>4, FocusViewPlaced
  <2>6. s.locked => FocusView(s, v) = s
    BY DEF FocusView
  <2> QED
    BY <2>2, <2>4, <2>5, <2>6
<1>2. CASE ~\E i \in DOMAIN s.views : IsTopmost(s, i)
  BY <1>2 DEF FocusTopmost, Keeps
<1> QED
  BY <1>1, <1>2

\* Where only the lock, the list or the scene changed, and grab or keyboard went.
LEMMA TakenPlaced ==
    ASSUME NEW s, NEW x \in Views \cup {None}, PlacedBut(s, x), NEW t,
           t.docks = s.docks, t.ws = s.ws, t.cur = s.cur, s.mapped \subseteq t.mapped,
           s.shown \subseteq t.shown, t.grabbed \in {s.grabbed, None}, t.locked = s.locked,
           t.focused = s.focused, t.kbd = s.kbd
    PROVE  PlacedBut(t, x)
BY DEF PlacedBut, Here

\* The last view that is excepted has neither focus nor grab nor keyboard.
LEMMA PlacedEnding ==
    ASSUME NEW s, NEW v \in Views, PlacedBut(s, v), s.focused # v, s.grabbed # v,
           ~s.locked /\ s.kbd = v => v \in Popups \cap s.mapped
    PROVE  PlacedBut(s, None)
BY DesktopAssumption DEF PlacedBut

LEMMA EndGrabOfFit ==
    ASSUME NEW s, NEW v \in Views, Fit(s)
    PROVE  LET e == EndGrabOf(s, v)
           IN  /\ Fit(e) /\ e.views = s.views /\ e.scened = s.scened /\ e.mapped = s.mapped
               /\ e.minimized = s.minimized /\ e.docks = s.docks /\ e.shown = s.shown
               /\ e.ws = s.ws /\ e.cur = s.cur /\ e.grabbed \in {s.grabbed, None}
               /\ e.grabbed # v
               /\ e.focused = s.focused /\ e.kbd = s.kbd /\ e.locked = s.locked
<1> DEFINE e == EndGrabOf(s, v)
           g == [s EXCEPT !.grabbed = None]
<1>1. v # None
  BY DesktopAssumption
<1>2. /\ g \in Servers /\ g.views = s.views /\ g.scened = s.scened /\ g.mapped = s.mapped
      /\ g.minimized = s.minimized /\ g.docks = s.docks /\ g.shown = s.shown
      /\ g.ws = s.ws /\ g.cur = s.cur /\ g.grabbed = None
      /\ g.focused = s.focused /\ g.kbd = s.kbd /\ g.locked = s.locked
      /\ g.keyboard = s.keyboard
  BY DEF Fit, Servers
<1>3. e = IF s.grabbed = v THEN g ELSE s
  BY DEF EndGrabOf
<1> HIDE DEF g, e
<1>4. Fit(g)
  BY <1>2 DEF Fit, Drawn, Enabled
<1> QED
  BY <1>1, <1>2, <1>3, <1>4 DEF e

\* The common end of the handlers that take the focus from v.
LEMMA LeavesPlaced ==
    ASSUME NEW s, NEW v \in Views, Fit(s), PlacedBut(s, v), Away(s, v),
           ~s.locked /\ s.kbd = v => s.focused = v \/ v \in Popups \cap s.mapped,
           s.focused \notin Popups
    PROVE  LET t == Defocus(EndGrabOf(s, v), v)
           IN  PlacedBut(t, None)
<1> DEFINE e == EndGrabOf(s, v)
           c == ClearKeyboard([e EXCEPT !.focused = None])
<1>1. v # None
  BY DesktopAssumption
<1>2. /\ Fit(e) /\ e.views = s.views /\ e.scened = s.scened /\ e.mapped = s.mapped
      /\ e.minimized = s.minimized /\ e.docks = s.docks /\ e.shown = s.shown
      /\ e.ws = s.ws /\ e.cur = s.cur /\ e.grabbed \in {s.grabbed, None} /\ e.grabbed # v
      /\ e.focused = s.focused /\ e.kbd = s.kbd /\ e.locked = s.locked
  BY EndGrabOfFit
<1> HIDE DEF e
<1>3. PlacedBut(e, v)
  BY <1>2, TakenPlaced
<1>4. CASE s.focused # v
  <2>1. Defocus(e, v) = e
    BY <1>2, <1>4 DEF Defocus
  <2> QED
    BY <1>2, <1>3, <1>4, <2>1, PlacedEnding DEF e
<1>5. CASE s.focused = v
  <2>1. Defocus(e, v) = FocusTopmost(c)
    BY <1>2, <1>5 DEF Defocus
  <2>2. /\ c \in Servers /\ c.views = s.views /\ c.scened = s.scened /\ c.mapped = s.mapped
        /\ c.minimized = s.minimized /\ c.docks = s.docks /\ c.shown = s.shown
        /\ c.ws = s.ws /\ c.cur = s.cur /\ c.grabbed = e.grabbed
        /\ c.focused = None /\ c.kbd = None /\ c.locked = s.locked /\ c.keyboard = e.keyboard
    BY <1>2 DEF ClearKeyboard, Fit, Servers
  <2> HIDE DEF c
  <2>3. Fit(c) /\ Away(c, v)
    BY <1>2, <2>2 DEF Fit, Drawn, Enabled, Away, Visible, Listed
  <2>4. PlacedBut(c, None)
    BY <1>2, <1>3, <2>2, DesktopAssumption DEF PlacedBut
  <2>5. Away(c, None)
    BY <2>3, DesktopAssumption DEF Away, Fit, Servers, Listed, Range
  <2>6. PlacedBut(FocusTopmost(c), None)
    BY <2>3, <2>4, <2>5, FocusTopmostPlaced
  <2> QED
    BY <2>1, <2>6 DEF e
<1> QED
  BY <1>4, <1>5

-----------------------------------------------------------------------------
\* Without disturbances the states in order are fit for this.
LEMMA InOrderFit ==
    ASSUME NEW s, InOrderBut(s, None), Disturbances = {}
    PROVE  /\ Fit(s) /\ s.mapped \subseteq s.scened /\ s.scened \subseteq Listed(s)
           /\ s.focused \in s.mapped \cup {None} /\ s.focused \notin Popups \cup Modules
           /\ s.shown \subseteq s.mapped /\ Away(s, None) /\ None \notin s.scened
<1>1. s \in Servers /\ None \notin s.scened
  BY DesktopAssumption DEF InOrderBut, SceneBut, Servers
<1>2. Fit(s)
  BY DEF InOrderBut, SceneBut, FocusBut, Fit
<1>3. s.shown \subseteq s.mapped
  BY ShownMapped
<1>4. Away(s, None)
  BY <1>1, DesktopAssumption DEF Away, Servers, Listed, Range
<1>5. s.mapped \subseteq s.scened /\ s.scened \subseteq Listed(s)
      /\ s.focused \in s.mapped \cup {None} /\ s.focused \notin Popups \cup Modules
  <2>1. None \notin s.mapped /\ None \notin Listed(s)
    BY <1>1, DesktopAssumption DEF Servers, Listed, Range
  <2> QED
    BY <1>1, <2>1 DEF InOrderBut, SceneBut, FocusBut
<1> QED
  BY <1>1, <1>2, <1>3, <1>4, <1>5

LEMMA MinimizePlaced ==
    ASSUME NEW s, NEW v \in Listed(s), InOrderBut(s, None), Disturbances = {},
           PlacedBut(s, None)
    PROVE  PlacedBut(Minimize(s, v), None)
<1> DEFINE m == [s EXCEPT !.minimized = @ \cup {v}]
           u == UpdateNode(m, v)
<1>1. CASE v \in s.minimized \cup s.docks
  BY <1>1 DEF Minimize
<1>2. CASE v \notin s.minimized \cup s.docks
  <2>1. s \in Servers /\ v \in Views /\ Fit(s) /\ v # None
    BY InOrderFit, DesktopAssumption DEF Fit, Servers, Listed, Range
  <2>2. /\ m \in Servers /\ m.minimized = s.minimized \cup {v} /\ m.views = s.views
        /\ m.scened = s.scened /\ m.mapped = s.mapped /\ m.docks = s.docks
        /\ m.shown = s.shown /\ m.ws = s.ws /\ m.cur = s.cur /\ m.grabbed = s.grabbed
        /\ m.focused = s.focused /\ m.kbd = s.kbd /\ m.locked = s.locked
        /\ m.keyboard = s.keyboard
    BY <2>1 DEF Servers
  <2>3. \A w \in Views \ {v} : Enabled(m, w) <=> Enabled(s, w)
    BY <2>2 DEF Enabled
  <2>4. Minimize(s, v) = Defocus(EndGrabOf(u, v), v)
    BY <1>2 DEF Minimize
  <2> HIDE DEF m
  <2>5. /\ u \in Servers /\ Drawn(u) /\ u.views = m.views /\ u.scened = m.scened
        /\ u.mapped = m.mapped /\ u.minimized = m.minimized /\ u.docks = m.docks
        /\ u.ws = m.ws /\ u.cur = m.cur /\ u.grabbed = m.grabbed
        /\ u.focused = m.focused /\ u.keyboard = m.keyboard /\ u.locked = m.locked
    BY <2>1, <2>2, <2>3, Recomputed, ZenonT(60) DEF Fit
  <2>6. u.kbd = m.kbd
    BY <2>2 DEF UpdateNode, Servers
  <2> HIDE DEF u
  <2>7. Fit(u) /\ Away(u, v) /\ u.focused \notin Popups
    BY <2>1, <2>2, <2>5, InOrderFit DEF Fit, Away, Visible
  <2>8. s.shown \ {v} \subseteq u.shown
    BY <2>1, <2>2, <2>3, <2>5 DEF Fit, Drawn, Servers, Enabled
  <2>9. PlacedBut(u, v)
    BY <2>2, <2>5, <2>6, <2>8, DesktopAssumption DEF PlacedBut, Here
  <2>10. ~u.locked /\ u.kbd = v => u.focused = v \/ v \in Popups \cap u.mapped
    BY <2>1, <2>2, <2>5, <2>6 DEF PlacedBut
  <2> QED
    BY <2>1, <2>4, <2>7, <2>9, <2>10, LeavesPlaced
<1> QED
  BY <1>1, <1>2

LEMMA EnterWorkspacePlaced ==
    ASSUME NEW s, NEW w \in Nat, InOrderBut(s, None), Disturbances = {}, PlacedBut(s, None)
    PROVE  LET t == EnterWorkspace(s, w)
           IN  /\ PlacedBut(t, None) /\ t.docks = s.docks /\ t.ws = s.ws
               /\ t.cur = NormalizeWorkspace(w) /\ t.mapped = s.mapped
<1> DEFINE n == NormalizeWorkspace(w)
           moved == [s EXCEPT !.cur = n]
           ungrab == IF Elsewhere(moved, s.grabbed)
                     THEN [moved EXCEPT !.grabbed = None] ELSE moved
           unfocus == IF Elsewhere(ungrab, s.focused)
                      THEN ClearKeyboard([ungrab EXCEPT !.focused = None])
                      ELSE ungrab
           shown == {v \in s.scened : Enabled(unfocus, v)}
           redrawn == [unfocus EXCEPT !.shown = shown]
<1>1. s \in Servers /\ n \in Workspaces /\ Fit(s)
  BY NormalizeTyped, InOrderFit DEF Fit
<1>2. CASE n = s.cur
  BY <1>2 DEF EnterWorkspace
<1>3. CASE n # s.cur
  <2>1. EnterWorkspace(s, w) = FocusTopmost(redrawn)
    BY <1>3 DEF EnterWorkspace
  <2> HIDE DEF n
  <2>2. /\ moved \in Servers /\ moved.cur = n /\ moved.views = s.views
        /\ moved.scened = s.scened /\ moved.mapped = s.mapped
        /\ moved.minimized = s.minimized /\ moved.docks = s.docks /\ moved.ws = s.ws
        /\ moved.grabbed = s.grabbed /\ moved.focused = s.focused /\ moved.kbd = s.kbd
        /\ moved.keyboard = s.keyboard /\ moved.locked = s.locked
    BY <1>1 DEF Servers
  <2> HIDE DEF moved
  <2>3. /\ ungrab \in Servers /\ ungrab.cur = n /\ ungrab.views = s.views
        /\ ungrab.scened = s.scened /\ ungrab.mapped = s.mapped
        /\ ungrab.minimized = s.minimized /\ ungrab.docks = s.docks /\ ungrab.ws = s.ws
        /\ ungrab.grabbed = (IF Elsewhere(moved, s.grabbed) THEN None ELSE s.grabbed)
        /\ ungrab.focused = s.focused /\ ungrab.kbd = s.kbd
        /\ ungrab.keyboard = s.keyboard /\ ungrab.locked = s.locked
    BY <2>2 DEF Servers
  <2> HIDE DEF ungrab
  <2>4. /\ unfocus \in Servers /\ unfocus.cur = n /\ unfocus.views = s.views
        /\ unfocus.scened = s.scened /\ unfocus.mapped = s.mapped
        /\ unfocus.minimized = s.minimized /\ unfocus.docks = s.docks /\ unfocus.ws = s.ws
        /\ unfocus.grabbed = ungrab.grabbed
        /\ unfocus.focused = (IF Elsewhere(ungrab, s.focused) THEN None ELSE s.focused)
        /\ unfocus.kbd = (IF Elsewhere(ungrab, s.focused) THEN None ELSE s.kbd)
        /\ unfocus.keyboard = s.keyboard /\ unfocus.locked = s.locked
    BY <2>3, ZenonT(60) DEF ClearKeyboard, Servers
  <2> HIDE DEF unfocus
  <2>5. shown \in SUBSET Views
    BY <1>1 DEF Servers
  <2>6. shown = {v \in s.scened : Enabled(unfocus, v)}
    OBVIOUS
  <2> HIDE DEF shown
  <2>7. /\ redrawn \in Servers /\ redrawn.cur = n /\ redrawn.views = s.views
        /\ redrawn.scened = s.scened /\ redrawn.mapped = s.mapped
        /\ redrawn.minimized = s.minimized /\ redrawn.docks = s.docks /\ redrawn.ws = s.ws
        /\ redrawn.grabbed = unfocus.grabbed /\ redrawn.focused = unfocus.focused
        /\ redrawn.kbd = unfocus.kbd /\ redrawn.shown = shown
        /\ redrawn.keyboard = s.keyboard /\ redrawn.locked = s.locked
    BY <2>4, <2>5 DEF Servers
  <2> HIDE DEF redrawn
  <2>8. Fit(redrawn)
    <3>1. \A v : Enabled(redrawn, v) <=> Enabled(unfocus, v)
      BY <2>4, <2>7 DEF Enabled
    <3> QED
      BY <1>1, <2>6, <2>7, <3>1 DEF Fit, Drawn
  <2>9. PlacedBut(redrawn, None)
    <3>1. redrawn.focused \in Views => Here(redrawn, redrawn.focused)
      BY <2>3, <2>4, <2>7, DesktopAssumption DEF Here, Elsewhere
    <3>2. redrawn.grabbed \in redrawn.shown \cup {None}
      <4> SUFFICES ASSUME redrawn.grabbed # None PROVE redrawn.grabbed \in shown
        BY <2>7
      <4>1. redrawn.grabbed = s.grabbed /\ ~Elsewhere(moved, s.grabbed)
        BY <2>3, <2>4, <2>7
      <4>2. s.grabbed \in s.scened /\ Enabled(s, s.grabbed)
        BY <1>1, <4>1 DEF PlacedBut, Fit, Drawn
      <4>3. Enabled(unfocus, s.grabbed)
        BY <2>2, <2>4, <4>1, <4>2 DEF Enabled, Elsewhere
      <4> QED
        BY <2>6, <4>1, <4>2, <4>3
    <3>3. redrawn.kbd \in Views => redrawn.locked
             \/ redrawn.kbd \in {None, redrawn.focused} \cup (Popups \cap redrawn.mapped)
      BY <2>4, <2>7, DesktopAssumption DEF PlacedBut
    <3>4. ~redrawn.locked /\ redrawn.focused # None =>
             redrawn.kbd \in Views \/ redrawn.focused \in WinTabs \cup redrawn.docks
      BY <2>4, <2>7 DEF PlacedBut
    <3> QED
      BY <3>1, <3>2, <3>3, <3>4 DEF PlacedBut
  <2>10. Away(redrawn, None)
    BY <2>7, DesktopAssumption DEF Away, Servers, Listed, Range
  <2>11. LET t == FocusTopmost(redrawn) IN PlacedBut(t, None) /\ Keeps(redrawn, t)
    BY <2>8, <2>9, <2>10, FocusTopmostPlaced
  <2> QED
    BY <2>1, <2>7, <2>11 DEF Keeps, n
<1> QED
  BY <1>2, <1>3

LEMMA BeginInteractivePlaced ==
    ASSUME NEW s, NEW v \in s.shown, InOrderBut(s, None), Disturbances = {},
           PlacedBut(s, None)
    PROVE  PlacedBut(BeginInteractive(s, v), None)
<1> DEFINE f == FocusView(s, v)
           t == [f EXCEPT !.grabbed = v]
<1>1. Fit(s) /\ v \in Listed(s) \cap s.mapped \cap s.scened /\ v # None /\ v \in Views
  BY InOrderFit DEF Fit, Servers
<1>2. Here(s, v)
  BY <1>1 DEF Fit, Drawn, Enabled, Here
<1>3. PlacedBut(f, None) /\ s.shown \subseteq f.shown
  BY <1>1, <1>2, FocusViewPlaced
<1>4. f \in Servers
  BY <1>1, FocusViewBehind DEF Behind, Fit
<1> HIDE DEF f
<1>5. /\ t.grabbed = v /\ t.shown = f.shown /\ t.docks = f.docks /\ t.ws = f.ws
      /\ t.cur = f.cur /\ t.focused = f.focused /\ t.kbd = f.kbd /\ t.locked = f.locked
      /\ t.mapped = f.mapped
  BY <1>4 DEF Servers
<1>6. BeginInteractive(s, v) = t
  BY DEF BeginInteractive, f
<1> HIDE DEF t
<1> QED
  BY <1>3, <1>5, <1>6 DEF PlacedBut, Here

LEMMA MapPlaced ==
    ASSUME NEW s, NEW v \in s.scened \ s.mapped, InOrderBut(s, None), Disturbances = {},
           PlacedBut(s, None)
    PROVE  PlacedBut(Map(s, v), None)
<1> DEFINE p == [s EXCEPT !.mapped = @ \cup {v}, !.docks = @ \cup ({v} \cap Dockapps)]
           m == UpdateNode(p, v)
<1>1. /\ Fit(s) /\ s \in Servers /\ v \in Views /\ v \in Listed(s) /\ v # None
  BY InOrderFit DEF Fit, Servers
<1>2. /\ p \in Servers /\ p.mapped = s.mapped \cup {v}
      /\ p.docks = s.docks \cup ({v} \cap Dockapps)
      /\ p.views = s.views /\ p.scened = s.scened /\ p.minimized = s.minimized
      /\ p.shown = s.shown /\ p.ws = s.ws /\ p.cur = s.cur /\ p.grabbed = s.grabbed
      /\ p.focused = s.focused /\ p.kbd = s.kbd
      /\ p.keyboard = s.keyboard /\ p.locked = s.locked
  BY <1>1, DesktopAssumption DEF Servers
<1> HIDE DEF p
<1>3. \A w \in Views \ {v} : Enabled(p, w) <=> Enabled(s, w)
  BY <1>2 DEF Enabled
<1>4. /\ m \in Servers /\ Drawn(m) /\ m.views = p.views /\ m.scened = p.scened
      /\ m.mapped = p.mapped /\ m.minimized = p.minimized /\ m.docks = p.docks
      /\ m.ws = p.ws /\ m.cur = p.cur /\ m.grabbed = p.grabbed
      /\ m.focused = p.focused /\ m.keyboard = p.keyboard /\ m.locked = p.locked
  <2>1. Drawn(s)
    BY <1>1 DEF Fit
  <2>2. p.scened = s.scened /\ p.shown = s.shown
    BY <1>2
  <2> QED
    BY <1>1, <1>2, <1>3, <2>1, <2>2, Recomputed
<1>5. m.kbd = p.kbd
  BY <1>2 DEF UpdateNode, Servers
<1>6. Map(s, v) = IF v \in m.docks \/ ~Enabled(m, v) THEN m
                  ELSE IF FocusesOnMap(m, v) THEN FocusView(m, v) ELSE Raise(m, v)
  BY DEF Map, m, p
<1> HIDE DEF m
<1>7. v \notin s.shown /\ s.shown \subseteq m.shown
  <2>1. v \notin s.shown
    BY <1>1 DEF Fit, Drawn, Enabled
  <2> QED
    BY <1>1, <1>2, <1>3, <1>4, <2>1 DEF Fit, Drawn, Servers, Enabled
<1>8. PlacedBut(m, None)
  BY <1>2, <1>4, <1>5, <1>7 DEF PlacedBut, Here
<1>9. Fit(m) /\ v \in Listed(m) \cap m.mapped \cap m.scened
  BY <1>1, <1>2, <1>4 DEF Fit, Listed
<1>10. PlacedBut(Raise(m, v), None)
  <2>1. Raise(m, v) = [m EXCEPT !.views = Raise(m, v).views]
    BY <1>9, RaiseKeeps DEF Fit
  <2> DEFINE q == Raise(m, v).views
             t == [m EXCEPT !.views = q]
  <2> HIDE DEF q
  <2>2. /\ t.docks = m.docks /\ t.ws = m.ws /\ t.cur = m.cur /\ t.mapped = m.mapped
        /\ t.shown = m.shown /\ t.grabbed = m.grabbed /\ t.locked = m.locked
        /\ t.focused = m.focused /\ t.kbd = m.kbd
    BY <1>4 DEF Servers
  <2> QED
    BY <1>8, <2>1, <2>2, TakenPlaced DEF q
<1>11. CASE Enabled(m, v)
  <2>1. Here(m, v)
    BY <1>11 DEF Enabled, Here
  <2> QED
    BY <1>1, <1>6, <1>8, <1>9, <1>10, <2>1, FocusViewPlaced
<1> QED
  BY <1>6, <1>8, <1>11

LEMMA UnmapPlaced ==
    ASSUME NEW s, NEW v \in s.mapped, InOrderBut(s, None), Disturbances = {},
           PlacedBut(s, None)
    PROVE  PlacedBut(Unmap(s, v), None)
<1> DEFINE h == [s EXCEPT !.mapped = @ \ {v}, !.shown = @ \ {v}]
           e == EndGrabOf(h, v)
<1>1. Fit(s) /\ s \in Servers /\ v \in Views /\ v # None
      /\ s.mapped \subseteq s.scened /\ s.scened \subseteq Listed(s)
      /\ s.focused \in s.mapped \cup {None} /\ s.focused \notin Popups \cup Modules
  BY InOrderFit, DesktopAssumption DEF Fit, Servers
<1>2. /\ h \in Servers /\ h.mapped = s.mapped \ {v} /\ h.shown = s.shown \ {v}
      /\ h.views = s.views /\ h.scened = s.scened /\ h.minimized = s.minimized
      /\ h.docks = s.docks /\ h.ws = s.ws /\ h.cur = s.cur /\ h.grabbed = s.grabbed
      /\ h.focused = s.focused /\ h.kbd = s.kbd
      /\ h.keyboard = s.keyboard /\ h.locked = s.locked
  BY <1>1 DEF Servers
<1>3. Unmap(s, v) = LET refocus == Defocus(EndGrabOf(h, v), v)
                    IN  IF v \notin Popups THEN refocus
                        ELSE IF refocus.focused # None THEN FocusView(refocus, refocus.focused)
                        ELSE ClearKeyboard(refocus)
  BY DEF Unmap
<1> HIDE DEF h
<1>4. Fit(h)
  <2>1. \A w : Enabled(h, w) <=> Enabled(s, w) /\ w # v
    BY <1>2 DEF Enabled
  <2> QED
    BY <1>1, <1>2, <2>1 DEF Fit, Drawn
<1>5. PlacedBut(h, v)
  BY <1>2, DesktopAssumption DEF PlacedBut, Here
<1>6. CASE v \notin Popups
  <2>1. Unmap(s, v) = Defocus(EndGrabOf(h, v), v)
    BY <1>3, <1>6
  <2>2. Away(h, v)
    BY <1>2 DEF Away, Visible
  <2>3. ~h.locked /\ h.kbd = v => h.focused = v
    BY <1>1, <1>2, <1>6 DEF PlacedBut
  <2>4. h.focused \notin Popups
    BY <1>1, <1>2
  <2> QED
    BY <1>1, <1>4, <1>5, <2>1, <2>2, <2>3, <2>4, LeavesPlaced
<1>7. CASE v \in Popups
  <2>1. /\ Fit(e) /\ e.views = h.views /\ e.scened = h.scened /\ e.mapped = h.mapped
        /\ e.minimized = h.minimized /\ e.docks = h.docks /\ e.shown = h.shown
        /\ e.ws = h.ws /\ e.cur = h.cur /\ e.grabbed \in {h.grabbed, None} /\ e.grabbed # v
        /\ e.focused = h.focused /\ e.kbd = h.kbd /\ e.locked = h.locked
    BY <1>1, <1>4, EndGrabOfFit
  <2>2. e.focused # v
    BY <1>1, <1>2, <1>7, <2>1
  <2>3. Unmap(s, v) = IF e.focused # None THEN FocusView(e, e.focused) ELSE ClearKeyboard(e)
    BY <1>3, <1>7, <2>2 DEF Defocus
  <2> HIDE DEF e
  <2>4. PlacedBut(e, v)
    BY <1>1, <1>5, <2>1, TakenPlaced
  <2>5. CASE e.focused # None
    <3> DEFINE t == FocusView(e, e.focused)
    <3>1. e.focused \in Listed(e) \cap e.mapped \cap e.scened /\ Here(e, e.focused)
          /\ e.focused \notin Modules
      <4>1. e.focused \in s.mapped /\ e.focused \in Views
        BY <1>1, <1>2, <2>1, <2>5 DEF Servers
      <4> QED
        BY <1>1, <1>2, <2>1, <2>2, <2>4, <4>1 DEF PlacedBut, Listed
    <3>2. /\ PlacedBut(t, v) /\ Keeps(e, t) /\ t.focused = e.focused
          /\ ~e.locked => t.kbd = e.focused
      BY <1>1, <2>1, <2>2, <2>4, <3>1, FocusViewPlaced
    <3> HIDE DEF t
    <3>3. t.grabbed # v /\ (~t.locked => t.kbd # v)
      BY <2>1, <2>2, <3>2 DEF Keeps
    <3>4. PlacedBut(t, None)
      BY <1>1, <2>2, <3>2, <3>3, PlacedEnding
    <3> QED
      BY <2>3, <2>5, <3>4 DEF t
  <2>6. CASE e.focused = None
    <3> DEFINE c == ClearKeyboard(e)
    <3>1. /\ c.docks = e.docks /\ c.ws = e.ws /\ c.cur = e.cur /\ c.shown = e.shown
          /\ c.mapped = e.mapped /\ c.grabbed = e.grabbed /\ c.locked = e.locked
          /\ c.focused = e.focused /\ c.kbd = None
      BY <2>1 DEF ClearKeyboard, Fit, Servers
    <3> HIDE DEF c
    <3>2. PlacedBut(c, None)
      BY <2>1, <2>4, <2>6, <3>1, DesktopAssumption DEF PlacedBut
    <3> QED
      BY <2>3, <2>6, <3>2 DEF c
  <2> QED
    BY <2>5, <2>6
<1> QED
  BY <1>6, <1>7

-----------------------------------------------------------------------------
\* The handlers.  A view that is not mapped has neither focus nor grab, so that it
\* goes without a word to the seat.
Placed(s) == InOrderBut(s, None) /\ PlacedBut(s, None)

LEMMA Idle ==
    ASSUME NEW s, Placed(s), Disturbances = {}, NEW v \in Views \ s.mapped
    PROVE  /\ v # s.focused /\ v # s.grabbed /\ v # None
           /\ ~s.locked => v # s.kbd
<1>1. v # None /\ None \notin Views
  BY DesktopAssumption
<1>2. s.focused \in s.mapped \cup {None} /\ s.shown \subseteq s.mapped
  BY InOrderFit DEF Placed
<1> QED
  BY <1>1, <1>2 DEF Placed, PlacedBut

LEMMA WindowPlaced ==
    ASSUME TypeOK, Placed(server), Disturbances = {}, NEW v \in Views,
           \/ NewXdgToplevel(v) \/ NewXwaylandSurface(v) \/ MapView(v) \/ Associate(v)
           \/ UnmapView(v) \/ Dissociate(v) \/ DestroyView(v)
    PROVE  PlacedBut(server', None)
<1>1. server \in Servers /\ None \notin Views
  BY DesktopAssumption DEF TypeOK
<1>2. /\ server.mapped \subseteq server.scened /\ server.scened \subseteq Listed(server)
      /\ server.shown \subseteq server.mapped /\ server.focused \in server.mapped \cup {None}
  BY InOrderFit DEF Placed
<1>3. CASE NewXdgToplevel(v) \/ NewXwaylandSurface(v)
  <2>1. v \notin server.mapped
    BY <1>2, <1>3 DEF NewXdgToplevel, NewXwaylandSurface
  <2>2. v # server.focused
    BY <2>1, Idle
  <2>3. /\ server'.mapped = server.mapped /\ server'.shown = server.shown
        /\ server'.docks = server.docks /\ server'.cur = server.cur
        /\ server'.grabbed = server.grabbed /\ server'.focused = server.focused
        /\ server'.kbd = server.kbd /\ server'.locked = server.locked
        /\ \A w \in Views \ {v} : server'.ws[w] = server.ws[w]
    <3>1. CASE NewXdgToplevel(v)
      BY <1>1, <3>1 DEF NewXdgToplevel, Servers
    <3>2. CASE NewXwaylandSurface(v)
      BY <1>1, <3>2 DEF NewXwaylandSurface, Servers
    <3> QED
      BY <1>3, <3>1, <3>2
  <2> QED
    BY <2>2, <2>3 DEF Placed, PlacedBut, Here
<1>4. CASE MapView(v)
  BY <1>4, MapPlaced DEF MapView, Placed
<1>5. CASE Associate(v)
  <2> DEFINE a == [server EXCEPT !.scened = @ \cup {v}]
  <2>1. v \in Listed(server) \ server.scened /\ server' \in {a, Map(a, v)}
    BY <1>5 DEF Associate
  <2>2. /\ a.mapped = server.mapped /\ a.shown = server.shown
        /\ a.docks = server.docks /\ a.cur = server.cur /\ a.ws = server.ws
        /\ a.grabbed = server.grabbed /\ a.focused = server.focused
        /\ a.kbd = server.kbd /\ a.locked = server.locked /\ v \in a.scened \ a.mapped
    BY <1>1, <1>2, <2>1 DEF Servers
  <2>3. InOrderBut(a, None)
    BY <2>1, AttachedInOrder DEF Placed
  <2> HIDE DEF a
  <2>4. PlacedBut(a, None)
    BY <2>2, TakenPlaced DEF Placed
  <2> QED
    BY <2>1, <2>2, <2>3, <2>4, MapPlaced
<1>6. CASE UnmapView(v)
  BY <1>6, UnmapPlaced DEF UnmapView, Placed
<1>7. CASE Dissociate(v)
  <2>1. v \notin server.mapped
    BY <1>7 DEF Dissociate
  <2>2. /\ v # server.focused /\ v # server.grabbed
        /\ ~server.locked => v # server.kbd
    BY <2>1, Idle
  <2>3. server' = ForgetSurface([server EXCEPT !.scened = @ \ {v}], v)
    BY <1>7, <2>2 DEF Dissociate, Defocus, EndGrabOf
  <2>4. /\ server'.mapped = server.mapped /\ server'.shown = server.shown
        /\ server'.docks = server.docks /\ server'.cur = server.cur
        /\ server'.ws = server.ws
        /\ server'.grabbed = server.grabbed /\ server'.focused = server.focused
        /\ server'.kbd = (IF server.kbd = v THEN None ELSE server.kbd)
        /\ server'.locked = server.locked
    BY <1>1, <2>3 DEF ForgetSurface, Servers
  <2> QED
    BY <2>2, <2>4 DEF Placed, PlacedBut, Here
<1>8. CASE DestroyView(v)
  <2>1. v \notin server.mapped
    BY <1>8 DEF DestroyView
  <2>2. /\ v # server.focused /\ v # server.grabbed
        /\ ~server.locked => v # server.kbd
    BY <2>1, Idle
  <2> DEFINE l == [server EXCEPT !.views = Without(@, v)]
             u == [l EXCEPT !.scened = @ \ {v}, !.minimized = @ \ {v},
                            !.docks = @ \ {v}, !.ws[v] = 1]
  <2>3. l.focused = server.focused /\ l.grabbed = server.grabbed
    BY <1>1 DEF Servers
  <2>4. Defocus(EndGrabOf(l, v), v) = l
    BY <2>2, <2>3 DEF Defocus, EndGrabOf
  <2>5. server' = ForgetSurface(u, v)
    BY <1>8, <2>4 DEF DestroyView
  <2>6. Without(server.views, v) \in Seq(Views)
    BY <1>1, WithoutTyped DEF Servers
  <2>7. /\ u.mapped = server.mapped /\ u.shown = server.shown
        /\ u.docks = server.docks \ {v} /\ u.cur = server.cur
        /\ \A w \in Views \ {v} : u.ws[w] = server.ws[w]
        /\ u.grabbed = server.grabbed /\ u.focused = server.focused
        /\ u.kbd = server.kbd /\ u.locked = server.locked
        /\ u \in Servers
    <3>1. 1 \in Workspaces
      BY DesktopAssumption DEF Workspaces
    <3> QED
      BY <1>1, <2>6, <3>1, ZenonT(60) DEF Servers
  <2> HIDE DEF u
  <2>8. /\ server'.mapped = u.mapped /\ server'.shown = u.shown
        /\ server'.docks = u.docks /\ server'.cur = u.cur /\ server'.ws = u.ws
        /\ server'.grabbed = u.grabbed /\ server'.focused = u.focused
        /\ server'.kbd = (IF u.kbd = v THEN None ELSE u.kbd)
        /\ server'.locked = u.locked
    BY <2>5, <2>7 DEF ForgetSurface, Servers
  <2> QED
    BY <2>2, <2>7, <2>8 DEF Placed, PlacedBut, Here
<1> QED
  BY <1>3, <1>4, <1>5, <1>6, <1>7, <1>8

-----------------------------------------------------------------------------
\* session_lock is only set while session_locked is, and only then is there a
\* list of lock surfaces.
LockOK(s) == (s.lock => s.locked) /\ (s.lsurfs # <<>> => s.lock)

LEMMA NextLockOK ==
    ASSUME TypeOK, LockOK(server), [Next]_server
    PROVE  LockOK(server')
<1>1. ASSUME Behind(server, server') PROVE LockOK(server')
  BY <1>1 DEF Behind, LockOK
<1>2. CASE UNCHANGED server
  BY <1>2
<1>3. CASE NewSessionLock
  BY <1>3 DEF NewSessionLock, ClearKeyboard, LockOK, TypeOK, Servers
<1>4. CASE Unlock
  <2> DEFINE u == [server EXCEPT !.lock = FALSE, !.locked = FALSE, !.lsurfs = <<>>]
  <2>1. server' = FocusTopmost(u)
    BY <1>4 DEF Unlock
  <2>2. <<>> \in Seq(LockSurfaces)
    OBVIOUS
  <2>3. u \in Servers /\ LockOK(u)
    BY <2>2, ZenonT(60) DEF LockOK, TypeOK, Servers
  <2> HIDE DEF u
  <2> QED
    BY <2>1, <2>3, FocusTopmostBehind DEF Behind, LockOK
<1>5. CASE LockDestroyed
  BY <1>5 DEF LockDestroyed, LockOK, TypeOK, Servers
<1>6. CASE LockClientGone
  BY <1>6 DEF LockClientGone, LockOK, TypeOK, Servers
<1>7. ASSUME NEW k \in LockSurfaces, LockSurfaceNew(k) \/ LockSurfaceMap(k)
      PROVE  LockOK(server')
  BY <1>7 DEF LockSurfaceNew, LockSurfaceMap, LockOK, TypeOK, Servers
<1>8. ASSUME NEW k \in LockSurfaces, LockSurfaceUnmap(k)
      PROVE  LockOK(server')
  <2> DEFINE r == [server EXCEPT !.lmapped = @ \ {k}]
  <2>1. r \in Servers /\ LockOK(r)
    BY ZenonT(60) DEF LockOK, TypeOK, Servers
  <2>2. server' = FocusAnyLockSurface(r)
    BY <1>8 DEF LockSurfaceUnmap
  <2> HIDE DEF r
  <2>3. \E x : server' = [r EXCEPT !.kbd = x, !.ime = None]
    BY <2>2 DEF FocusAnyLockSurface, ClearKeyboard
  <2> QED
    BY <2>1, <2>3 DEF LockOK, Servers
<1>9. ASSUME NEW k \in LockSurfaces, LockSurfaceDestroy(k)
      PROVE  LockOK(server')
  <2>1. server.lsurfs # <<>>
    BY <1>9 DEF LockSurfaceDestroy, Range
  <2> QED
    BY <1>9, <2>1 DEF LockSurfaceDestroy, LockOK, TypeOK, Servers
<1> QED
  BY <1>1, <1>2, <1>3, <1>4, <1>5, <1>6, <1>7, <1>8, <1>9,
     WindowStep, RequestStep, SeatStep DEF Next

-----------------------------------------------------------------------------
LEMMA MoveWindowPlaced ==
    ASSUME TypeOK, Placed(server), Disturbances = {}, NEW v \in Views, NEW w \in Workspaces,
           MoveWindowToWorkspace(v, w)
    PROVE  PlacedBut(server', None)
<1> DEFINE n == NormalizeWorkspace(w)
           p == [server EXCEPT !.ws[v] = n]
           u == UpdateNode(p, v)
<1>1. /\ server \in Servers /\ n \in Workspaces /\ v # None /\ Fit(server)
      /\ InOrderBut(server, None) /\ PlacedBut(server, None)
      /\ v \in Listed(server) \ server.docks /\ n # server.ws[v]
  BY NormalizeTyped, InOrderFit, DesktopAssumption
     DEF TypeOK, Workspaces, Placed, MoveWindowToWorkspace
<1>2. server' = IF n = server.cur THEN u ELSE Defocus(EndGrabOf(u, v), v)
  BY DEF MoveWindowToWorkspace
<1> HIDE DEF n
<1>3. /\ p \in Servers /\ p.ws[v] = n /\ \A x \in Views \ {v} : p.ws[x] = server.ws[x]
      /\ p.views = server.views /\ p.minimized = server.minimized
      /\ p.scened = server.scened /\ p.mapped = server.mapped /\ p.docks = server.docks
      /\ p.shown = server.shown /\ p.cur = server.cur /\ p.grabbed = server.grabbed
      /\ p.focused = server.focused /\ p.kbd = server.kbd /\ p.locked = server.locked
      /\ p.keyboard = server.keyboard
  <2>1. [server.ws EXCEPT ![v] = n] \in [Views -> Workspaces]
    BY <1>1 DEF Servers
  <2> QED
    BY <1>1, <2>1 DEF Servers
<1>4. \A x \in Views \ {v} : Enabled(p, x) <=> Enabled(server, x)
  BY <1>3 DEF Enabled
<1> HIDE DEF p
<1>5. /\ u \in Servers /\ Drawn(u) /\ u.views = p.views /\ u.scened = p.scened
      /\ u.mapped = p.mapped /\ u.minimized = p.minimized /\ u.docks = p.docks
      /\ u.ws = p.ws /\ u.cur = p.cur /\ u.grabbed = p.grabbed
      /\ u.focused = p.focused /\ u.keyboard = p.keyboard /\ u.locked = p.locked
  BY <1>1, <1>3, <1>4, Recomputed, ZenonT(60) DEF Fit
<1>6. u.kbd = p.kbd
  BY <1>3 DEF UpdateNode, Servers
<1> HIDE DEF u
<1>7. Fit(u) /\ u.focused \notin Popups /\ None \notin Popups
  BY <1>1, <1>3, <1>5, InOrderFit, DesktopAssumption DEF Fit
<1>8. server.shown \ {v} \subseteq u.shown
  BY <1>1, <1>3, <1>4, <1>5 DEF Fit, Drawn, Servers, Enabled
<1>9. v \in Views /\ None \notin Views
  BY DesktopAssumption
<1>10. CASE n = server.cur
  <2>1. v \notin server.shown
    BY <1>1, <1>10 DEF Fit, Drawn, Enabled
  <2> QED
    BY <1>1, <1>2, <1>3, <1>5, <1>6, <1>8, <1>9, <1>10, <2>1 DEF PlacedBut, Here
<1>11. CASE n # server.cur
  <2>1. PlacedBut(u, v)
    BY <1>1, <1>3, <1>5, <1>6, <1>8, <1>9 DEF PlacedBut, Here
  <2>2. Away(u, v)
    BY <1>3, <1>5, <1>11 DEF Away, Visible
  <2>3. ~u.locked /\ u.kbd = v => u.focused = v \/ v \in Popups \cap u.mapped
    BY <1>1, <1>3, <1>5, <1>6, <1>9 DEF PlacedBut
  <2> QED
    BY <1>2, <1>7, <1>11, <2>1, <2>2, <2>3, LeavesPlaced
<1> QED
  BY <1>10, <1>11

\* A window under the pointer is drawn, so it is where the focus may go.
LEMMA ShownHere ==
    ASSUME NEW s, InOrderBut(s, None), Disturbances = {}, NEW v \in s.shown
    PROVE  Here(s, v) /\ v \in Listed(s) \cap s.mapped \cap s.scened /\ v \in Views /\ v # None
<1>1. Drawn(s)
  BY InOrderFit DEF Fit
<1>2. v \in s.scened /\ v \in s.mapped /\ s.scened \subseteq Listed(s) /\ None \notin s.scened
  BY <1>1, InOrderFit DEF Drawn, Enabled
<1>3. Here(s, v)
  BY <1>1 DEF Drawn, Enabled, Here
<1>4. v \in Views
  BY InOrderFit DEF Fit, Servers
<1> QED
  BY <1>2, <1>3, <1>4

LEMMA PressPlaced ==
    ASSUME TypeOK, Placed(server), Disturbances = {}, NEW v \in Views, NEW alt \in BOOLEAN,
           PressButton(v, alt)
    PROVE  PlacedBut(server', None)
<1> DEFINE p == [server EXCEPT !.pressed = IF @ = None THEN v ELSE None]
<1>1. /\ p \in Servers
      /\ p.views = server.views /\ p.scened = server.scened /\ p.mapped = server.mapped
      /\ p.minimized = server.minimized /\ p.docks = server.docks
      /\ p.shown = server.shown /\ p.ws = server.ws /\ p.cur = server.cur
      /\ p.grabbed = server.grabbed /\ p.focused = server.focused /\ p.ime = server.ime
      /\ p.kbd = server.kbd /\ p.keyboard = server.keyboard /\ p.locked = server.locked
  BY ZenonT(60) DEF TypeOK, Servers
<1>2. v \in server.shown /\ server' \in {p, BeginInteractive(p, v), FocusView(p, v)}
  BY DEF PressButton
<1> HIDE DEF p
<1>3. p.keyboard /\ (p.locked => p.ime = None)
  BY <1>1 DEF Placed, InOrderBut, FocusBut
<1>4. InOrderBut(p, None)
  BY <1>1, <1>3, TakingInOrder DEF Placed
<1>5. PlacedBut(p, None)
  BY <1>1, TakenPlaced DEF Placed
<1>6. v \in p.shown
  BY <1>1, <1>2
<1>7. PlacedBut(BeginInteractive(p, v), None)
  BY <1>4, <1>5, <1>6, BeginInteractivePlaced
<1>8. PlacedBut(FocusView(p, v), None)
  <2>1. Here(p, v) /\ v \in Listed(p) \cap p.mapped \cap p.scened /\ v # None
    BY <1>4, <1>6, ShownHere
  <2>2. Fit(p)
    BY <1>4, InOrderFit
  <2> QED
    BY <1>5, <2>1, <2>2, FocusViewPlaced
<1> QED
  BY <1>2, <1>5, <1>7, <1>8

\* Whoever names a window of another workspace enters that one first.
LEMMA FocusRequestPlaced ==
    ASSUME TypeOK, Placed(server), Disturbances = {}, NEW v \in Views,
           ForeignActivate(v) \/ ActivationRequest(v) \/ FocusWindow(v)
    PROVE  PlacedBut(server', None)
<1> DEFINE e == EnterWorkspace(server, server.ws[v])
<1>1. v \in server.mapped /\ v # None /\ Fit(server) /\ server \in Servers
      /\ InOrderBut(server, None) /\ PlacedBut(server, None)
      /\ v \in Listed(server) \cap server.mapped \cap server.scened
  BY InOrderFit, DesktopAssumption
     DEF Placed, Fit, ForeignActivate, ActivationRequest, FocusWindow, MayName
<1>2. server.ws[v] \in Nat /\ NormalizeWorkspace(server.ws[v]) = server.ws[v]
  BY <1>1, DesktopAssumption DEF Servers, Workspaces, NormalizeWorkspace
<1>3. /\ InOrderBut(e, None) /\ Listed(e) = Listed(server) /\ e.mapped = server.mapped
      /\ PlacedBut(e, None) /\ e.docks = server.docks /\ e.ws = server.ws
      /\ e.cur = server.ws[v]
  BY <1>1, <1>2, EnterWorkspaceInOrder, EnterWorkspacePlaced
<1>4. \/ server' = FocusView(e, v)
      \/ Here(server, v) /\ server' = FocusView(server, v)
  BY DEF ForeignActivate, ActivationRequest, FocusWindow, Here
<1> HIDE DEF e
<1>5. CASE server' = FocusView(e, v)
  <2>1. Fit(e) /\ v \in Listed(e) \cap e.mapped \cap e.scened
    BY <1>1, <1>3, InOrderFit
  <2>2. Here(e, v)
    BY <1>3 DEF Here
  <2> QED
    BY <1>1, <1>3, <1>5, <2>1, <2>2, FocusViewPlaced
<1>6. CASE Here(server, v) /\ server' = FocusView(server, v)
  BY <1>1, <1>6, FocusViewPlaced
<1> QED
  BY <1>4, <1>5, <1>6

LEMMA RequestPlaced ==
    ASSUME TypeOK, Placed(server), Disturbances = {}, NEW v \in Views,
           \/ RequestMinimize(v) \/ RequestRestore(v) \/ RequestInteractive(v)
           \/ XwaylandRequestInteractive(v) \/ ForeignActivate(v)
           \/ ActivationRequest(v) \/ FocusWindow(v)
           \/ \E w \in Workspaces : MoveWindowToWorkspace(v, w)
           \/ \E alt \in BOOLEAN : PressButton(v, alt)
    PROVE  PlacedBut(server', None)
<1>1. CASE RequestMinimize(v)
  BY <1>1, MinimizePlaced DEF RequestMinimize, Placed
<1>2. CASE RequestRestore(v)
  <2> DEFINE t == Restore(server, v)
  <2>1. Fit(server) /\ PlacedBut(server, None)
    BY InOrderFit DEF Placed
  <2>2. Keeps(server, t) /\ t.focused = server.focused /\ t.kbd = server.kbd
        /\ server.shown \subseteq t.shown
    BY <2>1, RestoreFit
  <2>3. server' = t
    BY <1>2 DEF RequestRestore
  <2> HIDE DEF t
  <2> QED
    BY <2>1, <2>2, <2>3, TakenPlaced DEF Keeps
<1>3. CASE RequestInteractive(v) \/ XwaylandRequestInteractive(v)
  BY <1>3, BeginInteractivePlaced
     DEF RequestInteractive, XwaylandRequestInteractive, OnScreen, Placed
<1> QED
  BY <1>1, <1>2, <1>3, FocusRequestPlaced, MoveWindowPlaced, PressPlaced

LEMMA SwitchPlaced ==
    ASSUME TypeOK, Placed(server), Disturbances = {},
           \/ \E w \in 0 .. NWorkspaces + 1 : SetWorkspace(w)
           \/ WorkspaceNext \/ WorkspacePrev
    PROVE  PlacedBut(server', None)
<1>1. PICK w \in Nat : server' = EnterWorkspace(server, w)
  <2>1. server.cur \in 1 .. NWorkspaces /\ NWorkspaces \in Nat
    BY DesktopAssumption DEF TypeOK, Servers, Workspaces
  <2>2. CASE \E w \in 0 .. NWorkspaces + 1 : SetWorkspace(w)
    BY <2>1, <2>2 DEF SetWorkspace
  <2>3. CASE WorkspaceNext
    BY <2>1, <2>3 DEF WorkspaceNext
  <2>4. CASE WorkspacePrev
    BY <2>1, <2>4 DEF WorkspacePrev
  <2> QED
    BY <2>2, <2>3, <2>4
<1> QED
  BY <1>1, EnterWorkspacePlaced DEF Placed

LEMMA NextPrevPlaced ==
    ASSUME TypeOK, Placed(server), Disturbances = {}, FocusNext \/ FocusPrev
    PROVE  PlacedBut(server', None)
<1>1. PICK i \in DOMAIN server.views : /\ Visible(server, server.views[i])
                                      /\ server' = FocusView(server, server.views[i])
  BY DEF FocusNext, FocusPrev, Others
<1> DEFINE v == server.views[i]
<1>2. v \in Listed(server) \cap server.mapped \cap server.scened /\ Here(server, v) /\ v # None
  BY <1>1, DesktopAssumption DEF Listed, Range, Visible, Here, TypeOK, Servers
<1>3. Fit(server) /\ PlacedBut(server, None)
  BY InOrderFit DEF Placed
<1> HIDE DEF v
<1>4. PlacedBut(FocusView(server, v), None)
  BY <1>2, <1>3, FocusViewPlaced
<1> QED
  BY <1>1, <1>4 DEF v

\* Handlers of the seat and of the lock, but the unlock, move no window and
\* leave the keyboard alone unless the session is locked.
LEMMA QuietPlaced ==
    ASSUME TypeOK, TypeOK', Placed(server), Disturbances = {}, LockOK(server),
           LockKeepsKeyboard,
           \/ ToggleFullscreen \/ \E ends \in BOOLEAN : ReleaseButton(ends)
           \/ KeyboardArrives \/ KeyboardUnplugged
           \/ NewSessionLock \/ LockDestroyed \/ LockClientGone
           \/ \E k \in LockSurfaces : \/ LockSurfaceNew(k) \/ LockSurfaceMap(k)
                                      \/ LockSurfaceUnmap(k) \/ LockSurfaceDestroy(k)
    PROVE  PlacedBut(server', None)
<1> DEFINE Quiet ==
      /\ server'.mapped = server.mapped /\ server'.docks = server.docks
      /\ server'.shown = server.shown
      /\ server'.ws = server.ws /\ server'.cur = server.cur
      /\ server'.focused = server.focused
      /\ server'.grabbed \in {server.grabbed, None}
      /\ \/ server'.locked
         \/ /\ ~server.locked
            /\ \/ server'.kbd = server.kbd
               \/ server'.kbd \notin Views /\ server.kbd \notin Views
<1>1. CASE ToggleFullscreen \/ \E ends \in BOOLEAN : ReleaseButton(ends)
  <2>1. Quiet
    BY <1>1 DEF ToggleFullscreen, ReleaseButton, TypeOK, Servers
  <2> QED
    BY <2>1 DEF PlacedBut, Placed, Here
<1>2. CASE KeyboardArrives \/ KeyboardUnplugged
  <2>1. Quiet
    BY <1>2 DEF KeyboardArrives, KeyboardUnplugged, TypeOK, Servers
  <2> QED
    BY <2>1 DEF PlacedBut, Placed, Here
<1>3. CASE NewSessionLock
  <2>1. Quiet
    BY <1>3 DEF NewSessionLock, ClearKeyboard, TypeOK, Servers
  <2> QED
    BY <2>1 DEF PlacedBut, Placed, Here
<1>4. CASE LockDestroyed
  <2>1. Quiet
    BY <1>4 DEF LockDestroyed, TypeOK, Servers
  <2> QED
    BY <2>1 DEF PlacedBut, Placed, Here
<1>5. CASE LockClientGone
  <2>1. None \notin Views /\ Views \cap LockSurfaces = {}
    BY DesktopAssumption
  <2>2. Quiet
    BY <1>5, <2>1 DEF LockClientGone, TypeOK, Servers
  <2> QED
    BY <2>2 DEF PlacedBut, Placed, Here
<1>6. ASSUME NEW k \in LockSurfaces,
             \/ LockSurfaceNew(k) \/ LockSurfaceMap(k)
             \/ LockSurfaceUnmap(k) \/ LockSurfaceDestroy(k)
      PROVE  PlacedBut(server', None)
  <2>1. server.locked
    <3>1. LockSurfaceNew(k) => server.lock
      BY DEF LockSurfaceNew
    <3>2. k \in Range(server.lsurfs) => server.lsurfs # <<>>
      BY DEF Range
    <3> QED
      BY <1>6, <3>1, <3>2
         DEF LockOK, LockSurfaceMap, LockSurfaceUnmap, LockSurfaceDestroy
  <2>2. CASE LockSurfaceNew(k) \/ LockSurfaceMap(k) \/ LockSurfaceDestroy(k)
    <3>1. Quiet
      BY <2>1, <2>2, ZenonT(60) DEF LockSurfaceNew, LockSurfaceMap, LockSurfaceDestroy, TypeOK, Servers
    <3> QED
      BY <3>1 DEF PlacedBut, Placed, Here
  <2>3. CASE LockSurfaceUnmap(k)
    <3> DEFINE r == [server EXCEPT !.lmapped = @ \ {k}]
    <3>1. server' = FocusAnyLockSurface(r)
      BY <2>3 DEF LockSurfaceUnmap
    <3>2. /\ r.mapped = server.mapped /\ r.docks = server.docks /\ r.shown = server.shown
          /\ r.ws = server.ws /\ r.cur = server.cur /\ r.focused = server.focused
          /\ r.grabbed = server.grabbed /\ r.locked = server.locked /\ r \in Servers
      BY DEF TypeOK, Servers
    <3> HIDE DEF r
    <3>3. PICK x : server' = [r EXCEPT !.kbd = x, !.ime = None]
      BY <3>1 DEF FocusAnyLockSurface, ClearKeyboard
    <3>4. Quiet
      BY <2>1, <3>2, <3>3 DEF Servers
    <3> QED
      BY <3>4 DEF PlacedBut, Placed, Here
  <2> QED
    BY <1>6, <2>2, <2>3
<1> QED
  BY <1>1, <1>2, <1>3, <1>4, <1>5, <1>6

\* The least number principle.
LEMMA LeastOf ==
    ASSUME NEW T, T \subseteq Nat, T # {}
    PROVE  \E n \in T : \A m \in T : n <= m
<1> DEFINE R == OpToRel(<, Nat)
<1>1. IsWellFoundedOn(R, Nat)
  BY NatLessThanWellFounded
<1>2. \A m, n \in Nat : <<m, n>> \in R <=> m < n
  BY DEF OpToRel
<1> HIDE DEF R
<1>3. PICK n \in T : \A m \in T : ~(<<m, n>> \in R)
  BY <1>1, WFMin
<1>4. ASSUME NEW m \in T PROVE n <= m
  <2>1. m \in Nat /\ n \in Nat
    OBVIOUS
  <2>2. ~(m < n)
    BY <1>2, <1>3, <2>1
  <2> QED
    BY <2>1, <2>2
<1> QED
  BY <1>4

\* Of the views that the focus may go to, one is the topmost.
LEMMA TopmostExists ==
    ASSUME NEW s \in Servers, NEW v \in Listed(s), Visible(s, v)
    PROVE  \E i \in DOMAIN s.views : IsTopmost(s, i)
<1> DEFINE n == Len(s.views)
           Rests == {m \in Nat : \E i \in 1 .. n : m = n - i /\ Visible(s, s.views[i])}
<1>1. n \in Nat /\ DOMAIN s.views = 1 .. n
  BY DEF Servers
<1>2. PICK i \in 1 .. n : s.views[i] = v
  BY <1>1 DEF Listed, Range
<1> HIDE DEF n
<1>3. n - i \in Rests
  BY <1>1, <1>2
<1>4. Rests \subseteq Nat /\ Rests # {}
  BY <1>3
<1> HIDE DEF Rests
<1>5. PICK m \in Rests : \A k \in Rests : m <= k
  BY <1>4, LeastOf
<1>6. PICK j \in 1 .. n : m = n - j /\ Visible(s, s.views[j])
  BY <1>5 DEF Rests
<1>7. ASSUME NEW k \in 1 .. n, Visible(s, s.views[k]) PROVE k <= j
  <2>1. n - k \in Rests
    BY <1>1, <1>7 DEF Rests
  <2>2. n - j <= n - k
    BY <1>5, <1>6, <2>1
  <2> QED
    BY <1>1, <2>2
<1> QED
  BY <1>1, <1>6, <1>7 DEF IsTopmost

\* The unlock gives the focus and the keyboard to the topmost view that may have
\* them.  If there is none, the active view is one that does without.
LEMMA UnlockPlaced ==
    ASSUME TypeOK, Placed(server), Disturbances = {}, LockOK(server), LockKeepsKeyboard,
           Unlock
    PROVE  PlacedBut(server', None)
<1> DEFINE u == [server EXCEPT !.lock = FALSE, !.locked = FALSE, !.lsurfs = <<>>]
<1>1. server' = FocusTopmost(u) /\ server.locked
  BY DEF Unlock, LockOK
<1>2. /\ u.views = server.views /\ u.scened = server.scened /\ u.mapped = server.mapped
      /\ u.minimized = server.minimized /\ u.docks = server.docks
      /\ u.shown = server.shown /\ u.ws = server.ws /\ u.cur = server.cur
      /\ u.grabbed = server.grabbed /\ u.focused = server.focused
      /\ u.kbd = server.kbd /\ u.keyboard = server.keyboard /\ ~u.locked
      /\ u \in Servers
  <2>1. <<>> \in Seq(LockSurfaces)
    OBVIOUS
  <2> QED
    BY <2>1 DEF TypeOK, Servers
<1> HIDE DEF u
<1>3. Fit(u)
  <2>1. Fit(server)
    BY InOrderFit DEF Placed
  <2> QED
    BY <1>2, <2>1 DEF Fit, Drawn, Enabled
<1>4. /\ u.focused \in Views => Here(u, u.focused)
      /\ u.grabbed \in u.shown \cup {None} /\ u.kbd \notin Views
      /\ None \notin Views
  BY <1>1, <1>2, DesktopAssumption DEF Placed, PlacedBut, Here, LockKeepsKeyboard
<1>5. CASE \E i \in DOMAIN u.views : IsTopmost(u, i)
  <2> DEFINE i == CHOOSE i \in DOMAIN u.views : IsTopmost(u, i)
             v == u.views[i]
             t == FocusView(u, v)
  <2>1. i \in DOMAIN u.views /\ IsTopmost(u, i)
    BY <1>5
  <2>2. FocusTopmost(u) = t
    BY <1>5 DEF FocusTopmost
  <2> HIDE DEF i
  <2>3. v \in Listed(u) \cap u.scened /\ v \notin Popups \cup Modules /\ u.ws[v] = u.cur
    BY <2>1 DEF Listed, Range, IsTopmost, Visible
  <2> HIDE DEF v
  <2>4. Keeps(u, t) /\ u.shown \subseteq t.shown /\ t.focused = v /\ t.kbd = v
    BY <1>2, <1>3, <2>3, FocusViewEffect
  <2>5. v \in Views
    BY <1>2, <2>3 DEF Servers
  <2> HIDE DEF t
  <2>6. PlacedBut(t, None)
    BY <1>4, <2>3, <2>4, <2>5 DEF PlacedBut, Here, Keeps
  <2> QED
    BY <1>1, <2>2, <2>6 DEF t
<1>6. CASE ~\E i \in DOMAIN u.views : IsTopmost(u, i)
  <2>1. server' = u
    BY <1>1, <1>6 DEF FocusTopmost
  <2>2. ASSUME u.focused # None, u.focused \notin WinTabs \cup u.docks
        PROVE  FALSE
    <3>1. /\ u.focused \in Listed(u) \cap u.mapped \cap u.scened
          /\ u.focused \notin Popups \cup Modules
          /\ u.focused \in u.minimized => u.focused \in u.docks
          /\ u.focused \in Views
      <4>1. server.focused \in server.mapped
        BY <1>2, <2>2, InOrderFit DEF Placed
      <4>2. server.mapped \subseteq server.scened /\ server.scened \subseteq Listed(server)
        BY InOrderFit DEF Placed
      <4>3. server.focused \in server.minimized => server.focused \in server.docks
        BY <1>2, <2>2 DEF Placed, InOrderBut, FocusBut
      <4>4. server.focused \notin Popups \cup Modules /\ server.mapped \subseteq Views
        BY InOrderFit DEF Placed, TypeOK, Servers
      <4> QED
        BY <1>2, <4>1, <4>2, <4>3, <4>4 DEF Listed
    <3>2. Visible(u, u.focused)
      BY <1>4, <2>2, <3>1 DEF Visible, Here
    <3> QED
      BY <1>2, <1>6, <3>1, <3>2, TopmostExists
  <2> QED
    BY <1>2, <1>4, <2>1, <2>2 DEF PlacedBut
<1> QED
  BY <1>5, <1>6

-----------------------------------------------------------------------------
LEMMA InitPlaced ==
    ASSUME Init
    PROVE  PlacedBut(server, None) /\ LockOK(server)
<1>1. /\ server.focused = None /\ server.grabbed = None /\ server.kbd = None
      /\ ~server.lock /\ server.lsurfs = <<>>
  BY DEF Init
<1> QED
  BY <1>1, DesktopAssumption DEF PlacedBut, LockOK

LEMMA NextPlaced ==
    ASSUME TypeOK, LockKeepsKeyboard, LockOK(server), Placed(server), Disturbances = {},
           [Next]_server
    PROVE  PlacedBut(server', None)
<1>1. CASE UNCHANGED server
  BY <1>1 DEF Placed
<1>2. CASE Next
  <2>1. TypeOK'
    BY NextLocked
  <2> QED
    BY <1>2, <2>1, WindowPlaced, RequestPlaced, SwitchPlaced, NextPrevPlaced,
       QuietPlaced, UnlockPlaced DEF Next
<1> QED
  BY <1>1, <1>2

\* If there are no disturbances, then after every handler everything is placed.
Undisturbed == Disturbances = {} => PlacedBut(server, None)

LEMMA AlwaysPlaced == Spec => [](InOrderBut(server, None) /\ Undisturbed)
<1> DEFINE IInv == /\ TypeOK /\ LockKeepsKeyboard
                   /\ InOrderBut(server, None) /\ LockOK(server) /\ Undisturbed
<1>1. Init => IInv
  BY InitLocked, InitInOrder, InitPlaced DEF Undisturbed
<1>2. IInv /\ [Next]_server => IInv'
  <2> SUFFICES ASSUME IInv, [Next]_server PROVE IInv'
    OBVIOUS
  <2>1. TypeOK' /\ LockKeepsKeyboard'
    BY NextLocked
  <2>2. InOrderBut(server', None) /\ LockOK(server')
    BY NextInOrder, NextLockOK
  <2>3. Disturbances = {} => PlacedBut(server', None)
    BY NextPlaced DEF Undisturbed, Placed
  <2> QED
    BY <2>1, <2>2, <2>3 DEF Undisturbed
<1> QED
  BY <1>1, <1>2, PTL DEF Spec

\* As long as requests only name windows of this workspace, no handler (an unmap,
\* an iconify, a change of workspace, a move to another) leaves the focus or
\* the grab on a window that is not drawn.
THEOREM ActiveStaysOnScreen == Spec => []ActiveOnScreen
<1>1. InOrderBut(server, None) /\ Undisturbed => ActiveOnScreen
  <2> SUFFICES ASSUME InOrderBut(server, None), PlacedBut(server, None), Disturbances = {}
               PROVE  /\ server.focused \in server.shown \cup server.docks \cup {None}
                      /\ server.grabbed \in server.shown \cup {None}
    BY DEF Undisturbed, ActiveOnScreen
  <2>1. ASSUME server.focused \notin server.docks \cup {None}
        PROVE  server.focused \in server.shown
    <3>1. /\ server.focused \in server.mapped \cap server.scened \cap Views
          /\ server.focused \notin server.minimized /\ Drawn(server)
      BY <2>1 DEF InOrderBut, SceneBut, FocusBut, Servers
    <3>2. server.ws[server.focused] = server.cur
      BY <2>1, <3>1, DesktopAssumption DEF PlacedBut, Here
    <3> QED
      BY <3>1, <3>2 DEF Drawn, Enabled
  <2> QED
    BY <2>1 DEF PlacedBut
<1> QED
  BY <1>1, AlwaysPlaced, PTL

\* Wherever the handlers move the focus, the keyboard goes with it: outside the lock
\* it is at the active window or at a menu on top of it, and an active window is
\* never without it, also after an unlock.  The input method is on no surface that
\* has been freed.
THEOREM KeyboardWithFocus == Spec => []KeyboardFollowsFocus
<1>1. InOrderBut(server, None) /\ Undisturbed => KeyboardFollowsFocus
  <2> SUFFICES ASSUME InOrderBut(server, None), PlacedBut(server, None), Disturbances = {},
                      ~server.locked
               PROVE  KeyboardFollowsFocus
    BY DEF Undisturbed, KeyboardFollowsFocus
  <2>1. server.ime \in server.scened \cup {None}
    BY DEF InOrderBut, SceneBut, FocusBut
  <2> QED
    BY <2>1, DesktopAssumption DEF PlacedBut, KeyboardFollowsFocus
<1> QED
  BY <1>1, AlwaysPlaced, PTL
=============================================================================
