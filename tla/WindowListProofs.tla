-------------------------- MODULE WindowListProofs --------------------------
(***************************************************************************)
(* Proofs about module WindowList, for any views of any kinds, workspaces  *)
(* and disturbances: a panel that is only told of what each handler thinks *)
(* it has changed has what a fresh list would say.                         *)
(***************************************************************************)
EXTENDS WindowList, DesktopProofs

-----------------------------------------------------------------------------
(***************************************************************************)
(* What the list depends on, and what the refocusing helpers may do to it: *)
(* they restore and never iconify, and leave the rest alone.               *)
(***************************************************************************)
Same(s, t) ==
    /\ t.mapped = s.mapped /\ t.docks = s.docks /\ t.ws = s.ws
    /\ Listed(t) = Listed(s)

Refocuses(s, t) ==
    /\ t \in Servers /\ Distinct(t.views) /\ t.scened = s.scened
    /\ Same(s, t) /\ t.locked = s.locked
    /\ t.minimized \subseteq s.minimized

LEMMA RefocusesTransitive ==
    ASSUME NEW s, NEW t, NEW u, Refocuses(s, t), Refocuses(t, u)
    PROVE  Refocuses(s, u)
BY DEF Refocuses, Same

LEMMA ListedViews ==
    ASSUME NEW s \in Servers
    PROVE  Listed(s) \subseteq Views /\ None \notin Listed(s)
BY DesktopAssumption DEF Servers, Listed, Range

\* What is drawn, and what a lost surface forgets, are nothing the list depends on.
LEMMA UpdateNodeFields ==
    ASSUME NEW s \in Servers, NEW v \in Views
    PROVE  LET u == UpdateNode(s, v)
           IN  /\ u \in Servers /\ u.minimized = s.minimized /\ u.views = s.views
               /\ u.mapped = s.mapped /\ u.docks = s.docks /\ u.ws = s.ws
               /\ u.scened = s.scened /\ u.focused = s.focused /\ u.locked = s.locked
               /\ u.kbd = s.kbd /\ u.keyboard = s.keyboard
<1> DEFINE n == IF v \in s.scened /\ Enabled(s, v) THEN s.shown \cup {v} ELSE s.shown \ {v}
           u == [s EXCEPT !.shown = n]
<1>1. n \in SUBSET Views
  BY DEF Servers
<1>2. UpdateNode(s, v) = u
  BY DEF UpdateNode
<1> HIDE DEF n
<1>3. /\ u \in Servers /\ u.minimized = s.minimized /\ u.views = s.views
      /\ u.mapped = s.mapped /\ u.docks = s.docks /\ u.ws = s.ws
      /\ u.scened = s.scened /\ u.focused = s.focused /\ u.locked = s.locked
      /\ u.kbd = s.kbd /\ u.keyboard = s.keyboard
  BY <1>1 DEF Servers
<1> HIDE DEF u
<1> QED
  BY <1>2, <1>3

LEMMA ForgetSurfaceFields ==
    ASSUME NEW s \in Servers, NEW v
    PROVE  LET u == ForgetSurface(s, v)
           IN  /\ u \in Servers /\ u.mapped = s.mapped /\ u.docks = s.docks /\ u.ws = s.ws
               /\ u.views = s.views /\ u.minimized = s.minimized /\ u.focused = s.focused
<1> DEFINE kbd == IF s.kbd = v THEN None ELSE s.kbd
           pressed == IF s.pressed = v THEN None ELSE s.pressed
           k == [s EXCEPT !.kbd = kbd]
           u == [k EXCEPT !.pressed = pressed]
<1>1. kbd \in Views \cup LockSurfaces \cup {None} /\ pressed \in Views \cup {None}
  BY DEF Servers
<1>2. ForgetSurface(s, v) = u
  BY DEF ForgetSurface, Servers
<1> HIDE DEF kbd, pressed
<1>3. /\ k \in Servers /\ k.mapped = s.mapped /\ k.docks = s.docks /\ k.ws = s.ws
      /\ k.views = s.views /\ k.minimized = s.minimized /\ k.focused = s.focused
  BY <1>1 DEF Servers
<1> HIDE DEF k
<1>4. /\ u \in Servers /\ u.mapped = k.mapped /\ u.docks = k.docks /\ u.ws = k.ws
      /\ u.views = k.views /\ u.minimized = k.minimized /\ u.focused = k.focused
  BY <1>1, <1>3 DEF Servers
<1> HIDE DEF u
<1> QED
  BY <1>2, <1>3, <1>4

LEMMA RestoreRefocuses ==
    ASSUME NEW s \in Servers, Distinct(s.views), NEW v \in Views
    PROVE  LET t == Restore(s, v)
           IN  /\ Refocuses(s, t) /\ t.views = s.views
               /\ t.focused = s.focused /\ t.kbd = s.kbd /\ t.keyboard = s.keyboard
               /\ s.minimized \ {v} \subseteq t.minimized
               /\ v \notin s.minimized => t = s
<1> DEFINE r == [s EXCEPT !.minimized = @ \ {v}]
           u == UpdateNode(r, v)
<1>1. CASE v \in s.minimized \ s.docks
  <2>1. /\ r \in Servers /\ r.minimized = s.minimized \ {v} /\ r.views = s.views
        /\ r.mapped = s.mapped /\ r.docks = s.docks /\ r.ws = s.ws /\ r.scened = s.scened
        /\ r.focused = s.focused /\ r.locked = s.locked /\ r.kbd = s.kbd
        /\ r.keyboard = s.keyboard
    BY DEF Servers
  <2> HIDE DEF r
  <2>2. /\ u \in Servers /\ u.minimized = r.minimized /\ u.views = r.views
        /\ u.mapped = r.mapped /\ u.docks = r.docks /\ u.ws = r.ws /\ u.scened = r.scened
        /\ u.focused = r.focused /\ u.locked = r.locked /\ u.kbd = r.kbd
        /\ u.keyboard = r.keyboard
    BY <2>1, UpdateNodeFields
  <2> HIDE DEF u
  <2>3. Restore(s, v) = u
    BY <1>1 DEF Restore, u, r
  <2> QED
    BY <1>1, <2>1, <2>2, <2>3 DEF Refocuses, Same, Listed
<1>2. CASE ~(v \in s.minimized \ s.docks)
  <2>1. Restore(s, v) = s
    BY <1>2 DEF Restore
  <2> QED
    BY <2>1 DEF Refocuses, Same
<1> QED
  BY <1>1, <1>2

\* focus_view changes the focus to v or not at all.
LEMMA FocusViewRefocuses ==
    ASSUME NEW s \in Servers, Distinct(s.views), NEW v \in Listed(s)
    PROVE  LET t == FocusView(s, v)
           IN  /\ Refocuses(s, t)
               /\ t.focused \in {s.focused, v}
               /\ s.minimized \ {v} \subseteq t.minimized
               /\ v \notin s.minimized => t.minimized = s.minimized /\ t.shown = s.shown
<1> DEFINE r == Restore(s, v)
           a == Raise(r, v)
           steals == v \notin Popups \cup Modules
           enters == s.keyboard /\ v \in s.scened \ Modules
           f == IF steals THEN v ELSE a.focused
           k == IF enters THEN v ELSE a.kbd
           i == IF enters THEN v ELSE a.ime
           t == [a EXCEPT !.focused = f, !.kbd = k, !.ime = i]
<1>1. v \in Views
  BY ListedViews
<1>2. CASE s.locked
  <2>1. FocusView(s, v) = s
    BY <1>2 DEF FocusView
  <2> QED
    BY <2>1 DEF Refocuses, Same
<1>3. CASE ~s.locked
  <2>1. /\ Refocuses(s, r) /\ r.views = s.views /\ r.focused = s.focused
        /\ s.minimized \ {v} \subseteq r.minimized
        /\ v \notin s.minimized => r = s
    BY <1>1, RestoreRefocuses
  <2>2. r \in Servers /\ v \in Listed(r) /\ Distinct(r.views)
    BY <2>1 DEF Refocuses, Same
  <2> HIDE DEF r
  <2>3. /\ a \in Servers /\ Distinct(a.views) /\ Listed(a) = Listed(r)
        /\ a = [r EXCEPT !.views = a.views]
    BY <2>2, RaiseKeeps
  <2> HIDE DEF a
  <2>4. /\ a.mapped = r.mapped /\ a.docks = r.docks /\ a.ws = r.ws /\ a.scened = r.scened
        /\ a.focused = r.focused /\ a.locked = r.locked /\ a.minimized = r.minimized
        /\ a.shown = r.shown
    BY <2>2, <2>3 DEF Servers
  <2>5. f \in Views \cup {None} /\ k \in Views \cup LockSurfaces \cup {None}
        /\ i \in Views \cup {None} /\ f \in {a.focused, v}
    BY <1>1, <2>3 DEF Servers
  <2> HIDE DEF f, k, i
  <2>6. /\ t \in Servers /\ t.views = a.views /\ t.focused = f
        /\ t.mapped = a.mapped /\ t.docks = a.docks /\ t.ws = a.ws /\ t.scened = a.scened
        /\ t.locked = a.locked /\ t.minimized = a.minimized /\ t.shown = a.shown
    BY <2>3, <2>5 DEF Servers
  <2>7. FocusView(s, v) = t
    BY <1>3 DEF FocusView, GiveFocus, t, f, k, i, a, r
  <2> HIDE DEF t
  <2>8. Refocuses(r, t)
    BY <2>3, <2>4, <2>6 DEF Refocuses, Same, Listed
  <2> QED
    BY <2>1, <2>4, <2>5, <2>6, <2>7, <2>8, RefocusesTransitive
<1> QED
  BY <1>2, <1>3

LEMMA FocusTopmostRefocuses ==
    ASSUME NEW s \in Servers, Distinct(s.views)
    PROVE  LET t == FocusTopmost(s)
           IN  Refocuses(s, t) /\ t.minimized = s.minimized
<1>1. CASE \E i \in DOMAIN s.views : IsTopmost(s, i)
  <2> DEFINE i == CHOOSE i \in DOMAIN s.views : IsTopmost(s, i)
             v == s.views[i]
  <2>1. i \in DOMAIN s.views /\ IsTopmost(s, i)
    BY <1>1
  <2>2. FocusTopmost(s) = FocusView(s, v)
    BY <1>1 DEF FocusTopmost
  <2> HIDE DEF i
  <2>3. v \in Listed(s) /\ v \notin s.minimized
    BY <2>1 DEF Listed, Range, IsTopmost, Visible
  <2> HIDE DEF v
  <2> QED
    BY <2>2, <2>3, FocusViewRefocuses
<1>2. CASE ~\E i \in DOMAIN s.views : IsTopmost(s, i)
  <2>1. FocusTopmost(s) = s
    BY <1>2 DEF FocusTopmost
  <2> QED
    BY <2>1 DEF Refocuses, Same
<1> QED
  BY <1>1, <1>2

\* What takes pointers away from a view and nothing else.
LEMMA TakingRefocuses ==
    ASSUME NEW s \in Servers, Distinct(s.views), NEW t \in Servers,
           t.views = s.views, t.scened = s.scened, t.mapped = s.mapped,
           t.minimized = s.minimized, t.docks = s.docks, t.ws = s.ws, t.locked = s.locked
    PROVE  Refocuses(s, t) /\ t.minimized = s.minimized
BY DEF Refocuses, Same, Listed

LEMMA DefocusRefocuses ==
    ASSUME NEW s \in Servers, Distinct(s.views), NEW v
    PROVE  LET t == Defocus(s, v)
           IN  /\ Refocuses(s, t) /\ t.minimized = s.minimized
               /\ s.focused # v => t = s
<1> DEFINE f == [s EXCEPT !.focused = None]
           c == ClearKeyboard(f)
<1>1. CASE s.focused = v
  <2>1. /\ c \in Servers /\ c.views = s.views /\ c.scened = s.scened /\ c.mapped = s.mapped
        /\ c.minimized = s.minimized /\ c.docks = s.docks /\ c.ws = s.ws
        /\ c.locked = s.locked
    BY DEF ClearKeyboard, Servers
  <2> HIDE DEF c
  <2>2. Refocuses(s, c) /\ c.minimized = s.minimized
    BY <2>1, TakingRefocuses
  <2>3. Refocuses(c, FocusTopmost(c)) /\ FocusTopmost(c).minimized = c.minimized
    BY <2>2, FocusTopmostRefocuses DEF Refocuses
  <2>4. Defocus(s, v) = FocusTopmost(c)
    BY <1>1 DEF Defocus, c, f
  <2> QED
    BY <1>1, <2>2, <2>3, <2>4, RefocusesTransitive
<1>2. CASE s.focused # v
  <2>1. Defocus(s, v) = s
    BY <1>2 DEF Defocus
  <2> QED
    BY <2>1 DEF Refocuses, Same
<1> QED
  BY <1>1, <1>2

LEMMA EndGrabOfRefocuses ==
    ASSUME NEW s \in Servers, Distinct(s.views), NEW v
    PROVE  LET t == EndGrabOf(s, v)
           IN  /\ Refocuses(s, t) /\ t.minimized = s.minimized
               /\ t.focused = s.focused /\ t.views = s.views
<1> DEFINE g == [s EXCEPT !.grabbed = None]
<1>1. /\ g \in Servers /\ g.views = s.views /\ g.scened = s.scened /\ g.mapped = s.mapped
      /\ g.minimized = s.minimized /\ g.docks = s.docks /\ g.ws = s.ws
      /\ g.locked = s.locked /\ g.focused = s.focused
  BY DEF Servers
<1>2. EndGrabOf(s, v) \in {g, s}
  BY DEF EndGrabOf
<1> HIDE DEF g
<1> QED
  BY <1>1, <1>2, TakingRefocuses

LEMMA EnterWorkspaceRefocuses ==
    ASSUME NEW s \in Servers, Distinct(s.views), NEW w \in Nat
    PROVE  LET t == EnterWorkspace(s, w)
           IN  Refocuses(s, t) /\ t.minimized = s.minimized
<1> DEFINE n == NormalizeWorkspace(w)
           moved == [s EXCEPT !.cur = n]
           ungrab == IF Elsewhere(moved, s.grabbed)
                     THEN [moved EXCEPT !.grabbed = None] ELSE moved
           unfocus == IF Elsewhere(ungrab, s.focused)
                      THEN ClearKeyboard([ungrab EXCEPT !.focused = None])
                      ELSE ungrab
           shown == {v \in s.scened : Enabled(unfocus, v)}
           redrawn == [unfocus EXCEPT !.shown = shown]
<1>1. n \in Workspaces
  BY NormalizeTyped
<1> HIDE DEF n
<1>2. /\ moved \in Servers /\ moved.views = s.views /\ moved.scened = s.scened
      /\ moved.mapped = s.mapped /\ moved.minimized = s.minimized /\ moved.docks = s.docks
      /\ moved.ws = s.ws /\ moved.locked = s.locked
  BY <1>1 DEF Servers
<1> HIDE DEF moved
<1>3. /\ ungrab \in Servers /\ ungrab.views = s.views /\ ungrab.scened = s.scened
      /\ ungrab.mapped = s.mapped /\ ungrab.minimized = s.minimized /\ ungrab.docks = s.docks
      /\ ungrab.ws = s.ws /\ ungrab.locked = s.locked
  <2> DEFINE free == [moved EXCEPT !.grabbed = None]
  <2>1. /\ free \in Servers /\ free.views = s.views /\ free.scened = s.scened
        /\ free.mapped = s.mapped /\ free.minimized = s.minimized /\ free.docks = s.docks
        /\ free.ws = s.ws /\ free.locked = s.locked
    BY <1>2 DEF Servers
  <2>2. ungrab \in {free, moved}
    OBVIOUS
  <2> HIDE DEF free, ungrab
  <2> QED
    BY <1>2, <2>1, <2>2
<1> HIDE DEF ungrab
<1>4. /\ unfocus \in Servers /\ unfocus.views = s.views /\ unfocus.scened = s.scened
      /\ unfocus.mapped = s.mapped /\ unfocus.minimized = s.minimized
      /\ unfocus.docks = s.docks /\ unfocus.ws = s.ws /\ unfocus.locked = s.locked
  <2> DEFINE bare == [ungrab EXCEPT !.focused = None]
             mute == ClearKeyboard(bare)
  <2>1. /\ bare \in Servers /\ bare.views = s.views /\ bare.scened = s.scened
        /\ bare.mapped = s.mapped /\ bare.minimized = s.minimized /\ bare.docks = s.docks
        /\ bare.ws = s.ws /\ bare.locked = s.locked
    BY <1>3 DEF Servers
  <2> HIDE DEF bare
  <2>2. /\ mute \in Servers /\ mute.views = s.views /\ mute.scened = s.scened
        /\ mute.mapped = s.mapped /\ mute.minimized = s.minimized /\ mute.docks = s.docks
        /\ mute.ws = s.ws /\ mute.locked = s.locked
    BY <2>1 DEF ClearKeyboard, Servers
  <2>3. unfocus = mute \/ unfocus = ungrab
    BY DEF bare
  <2> HIDE DEF mute
  <2> QED
    BY <1>3, <2>2, <2>3
<1> HIDE DEF unfocus
<1>5. shown \in SUBSET Views
  BY DEF Servers
<1> HIDE DEF shown
<1>6. /\ redrawn \in Servers /\ redrawn.views = s.views /\ redrawn.scened = s.scened
      /\ redrawn.mapped = s.mapped /\ redrawn.minimized = s.minimized
      /\ redrawn.docks = s.docks /\ redrawn.ws = s.ws /\ redrawn.locked = s.locked
  BY <1>4, <1>5 DEF Servers
<1> HIDE DEF redrawn
<1>7. EnterWorkspace(s, w) = IF n = s.cur THEN s ELSE FocusTopmost(redrawn)
  BY DEF EnterWorkspace, redrawn, shown, unfocus, ungrab, moved, n
<1>8. Refocuses(s, redrawn) /\ redrawn.minimized = s.minimized
  BY <1>6, TakingRefocuses
<1>9. Refocuses(redrawn, FocusTopmost(redrawn))
      /\ FocusTopmost(redrawn).minimized = redrawn.minimized
  BY <1>8, FocusTopmostRefocuses DEF Refocuses
<1>10. Refocuses(s, s)
  BY DEF Refocuses, Same
<1> QED
  BY <1>7, <1>8, <1>9, <1>10, RefocusesTransitive
-----------------------------------------------------------------------------
(***************************************************************************)
(* A step from s to t that sends the views of told tells of all that it    *)
(* changes, but for a window that maps: that one is remembered in missed.  *)
(***************************************************************************)
Tells(s, t, told) ==
    /\ \A v \in Listed(t) \ (t.docks \cup told) :
         /\ t.focused = v <=> s.focused = v
         /\ v \in Listed(s) => /\ v \in t.minimized <=> v \in s.minimized
                               /\ t.ws[v] = s.ws[v]
                               /\ v \in s.mapped => v \in t.mapped
    /\ s.docks \cap Listed(t) \subseteq t.docks
    /\ s.mapped \cap t.docks \subseteq s.docks
    /\ FocusOnMap \/ (t.mapped \ s.mapped) \ told \subseteq Popups

LEMMA SilentTells ==
    ASSUME NEW s, NEW t, Same(s, t), t.minimized = s.minimized, t.focused = s.focused
    PROVE  Tells(s, t, {})
BY DEF Same, Tells

\* A handler that moves the focus, with m in between, and restores views.
LEMMA SwitchTells ==
    ASSUME NEW s \in Servers, NEW t \in Servers, NEW m, Same(s, t),
           t.minimized \subseteq s.minimized
    PROVE  Tells(s, t, FocusTold(s, m) \cup FocusTold(m, t) \cup RestoreTold(s, t))
<1> DEFINE told == FocusTold(s, m) \cup FocusTold(m, t) \cup RestoreTold(s, t)
<1>1. ASSUME NEW v \in Listed(t) \ told PROVE t.focused = v <=> s.focused = v
  <2>1. v # None
    BY ListedViews
  <2> QED
    BY <1>1, <2>1 DEF FocusTold
<1>2. ASSUME NEW v \in Listed(t) \ told PROVE v \in t.minimized <=> v \in s.minimized
  BY <1>2 DEF RestoreTold
<1> HIDE DEF told
<1>3. Tells(s, t, told)
  BY <1>1, <1>2 DEF Tells, Same
<1> QED
  BY <1>3 DEF told

LEMMA MovesFocusTells ==
    ASSUME NEW s \in Servers, NEW t \in Servers, Same(s, t),
           t.minimized \subseteq s.minimized
    PROVE  Tells(s, t, FocusTold(s, t) \cup RestoreTold(s, t))
<1>1. FocusTold(s, s) = {}
  BY DEF FocusTold
<1> QED
  BY <1>1, SwitchTells

\* A handler that hides v changes v only, and the focus if v has it.
Hides(s, t, v) ==
    /\ s.focused \in {v, t.focused}
    /\ \A w \in Listed(t) \ {v} :
          w \in Listed(s) => /\ w \in t.minimized <=> w \in s.minimized
                             /\ t.ws[w] = s.ws[w]
                             /\ w \in s.mapped => w \in t.mapped
    /\ s.docks \cap Listed(t) \subseteq t.docks /\ t.docks \subseteq s.docks
    /\ t.mapped \subseteq s.mapped

\* It clears the focus first, so that only the next view need be told of.
LEMMA LeavesTells ==
    ASSUME NEW s \in Servers, NEW t \in Servers, NEW v, Hides(s, t, v)
    PROVE  Tells(s, t, NewFocusTold(s, t) \cup {v})
<1> DEFINE told == NewFocusTold(s, t) \cup {v}
<1>1. ASSUME NEW w \in Listed(t) \ told PROVE t.focused = w <=> s.focused = w
  <2>1. w # None
    BY ListedViews
  <2> QED
    BY <1>1, <2>1 DEF NewFocusTold, Hides
<1>2. v \in told
  OBVIOUS
<1> HIDE DEF told
<1>3. Tells(s, t, told)
  BY <1>1, <1>2 DEF Tells, Hides
<1> QED
  BY <1>3 DEF told

-----------------------------------------------------------------------------
(***************************************************************************)
(* The handlers, one by one.                                               *)
(***************************************************************************)
\* handle_view_map.  Of s0 only the scene tree may still be missing.
LEMMA MapTells ==
    ASSUME NEW s0 \in Servers, NEW s \in Servers, NEW v \in s.scened \ s.mapped,
           Distinct(s.views), v \in Listed(s),
           Same(s0, s), s.minimized = s0.minimized, s.focused = s0.focused
    PROVE  Tells(s0, Map(s, v), MapTold(s0, Map(s, v), v))
<1> DEFINE p == [s EXCEPT !.mapped = @ \cup {v}, !.docks = @ \cup ({v} \cap Dockapps)]
           m == UpdateNode(p, v)
           t == Map(s, v)
<1>1. v \in Views
  BY DEF Servers
<1>2. /\ p \in Servers /\ p.mapped = s.mapped \cup {v}
      /\ p.docks = s.docks \cup ({v} \cap Dockapps)
      /\ p.views = s.views /\ p.scened = s.scened /\ p.minimized = s.minimized
      /\ p.ws = s.ws /\ p.focused = s.focused /\ p.cur = s.cur
  <2>1. s.mapped \cup {v} \in SUBSET Views /\ s.docks \cup ({v} \cap Dockapps) \in SUBSET Views
    BY <1>1 DEF Servers
  <2> QED
    BY <2>1 DEF Servers
<1> HIDE DEF p
<1>3. /\ m \in Servers /\ m.mapped = p.mapped /\ m.docks = p.docks /\ m.views = p.views
      /\ m.scened = p.scened /\ m.minimized = p.minimized /\ m.ws = p.ws
      /\ m.focused = p.focused /\ m.cur = p.cur
      /\ Enabled(p, v) => v \in m.shown
  <2> DEFINE n == IF v \in p.scened /\ Enabled(p, v) THEN p.shown \cup {v} ELSE p.shown \ {v}
  <2>1. n \in SUBSET Views /\ (Enabled(p, v) => v \in n)
    BY <1>1, <1>2 DEF Servers
  <2>2. m = [p EXCEPT !.shown = n]
    BY DEF UpdateNode
  <2> HIDE DEF n, m
  <2> QED
    BY <1>2, <2>1, <2>2 DEF Servers
<1>4. Enabled(p, v) <=> Enabled(m, v)
  BY <1>3 DEF Enabled
<1> HIDE DEF m
<1>5. t = IF v \in m.docks \/ ~Enabled(m, v) THEN m
          ELSE IF FocusesOnMap(m, v) THEN FocusView(m, v) ELSE Raise(m, v)
  BY DEF Map, m, p
<1>6. FocusesOnMap(m, v) <=> FocusesOnMap(s0, v)
  BY <1>2, <1>3 DEF FocusesOnMap
<1>7. Distinct(m.views) /\ v \in Listed(m) /\ Listed(m) = Listed(s)
  BY <1>2, <1>3 DEF Listed
<1>8. /\ t \in Servers /\ Same(m, t) /\ t.minimized = m.minimized
      /\ \/ t.focused = m.focused /\ (v \in t.shown \ t.docks => ~FocusesOnMap(s0, v))
         \/ v \in t.shown \ t.docks /\ FocusesOnMap(s0, v)
  <2>1. CASE v \in m.docks \/ ~Enabled(m, v)
    <3>1. t = m
      BY <1>5, <2>1
    <3> QED
      BY <1>3, <3>1 DEF Same
  <2>2. CASE ~(v \in m.docks \/ ~Enabled(m, v)) /\ FocusesOnMap(m, v)
    <3>1. t = FocusView(m, v)
      BY <1>5, <2>2
    <3>2. v \notin m.minimized /\ v \in m.shown \ m.docks
      BY <1>3, <1>4, <2>2 DEF Enabled
    <3>3. Refocuses(m, t) /\ t.minimized = m.minimized /\ t.shown = m.shown
      BY <1>3, <1>7, <3>1, <3>2, FocusViewRefocuses
    <3> QED
      BY <1>6, <2>2, <3>2, <3>3 DEF Refocuses, Same
  <2>3. CASE ~(v \in m.docks \/ ~Enabled(m, v)) /\ ~FocusesOnMap(m, v)
    <3>1. t = Raise(m, v)
      BY <1>5, <2>3
    <3>2. t \in Servers /\ t = [m EXCEPT !.views = t.views] /\ Listed(t) = Listed(m)
      BY <1>3, <1>7, <3>1, RaiseKeeps
    <3> HIDE DEF t
    <3>3. /\ t.mapped = m.mapped /\ t.docks = m.docks /\ t.ws = m.ws
          /\ t.minimized = m.minimized /\ t.focused = m.focused
      BY <1>3, <3>2 DEF Servers
    <3> QED
      BY <1>6, <2>3, <3>2, <3>3 DEF Same
  <2> QED
    BY <2>1, <2>2, <2>3
<1> HIDE DEF t
<1>9. /\ t.mapped = s0.mapped \cup {v} /\ t.docks = s0.docks \cup ({v} \cap Dockapps)
      /\ t.ws = s0.ws /\ Listed(t) = Listed(s0) /\ t.minimized = s0.minimized
      /\ s0.focused = m.focused /\ v \notin s0.mapped
  BY <1>2, <1>3, <1>7, <1>8 DEF Same
<1>10. t.focused = s0.focused => Tells(s0, t, {v})
  BY <1>9 DEF Tells
<1>11. FocusesOnMap(s0, v) => Tells(s0, t, FocusTold(s0, t))
  <2> SUFFICES ASSUME FocusesOnMap(s0, v) PROVE Tells(s0, t, FocusTold(s0, t))
    OBVIOUS
  <2>1. \A w \in Listed(t) \ FocusTold(s0, t) : t.focused = w <=> s0.focused = w
    BY <1>8, ListedViews DEF FocusTold
  <2>2. FocusOnMap \/ v \in Popups
    BY DEF FocusesOnMap
  <2> QED
    BY <1>9, <2>1, <2>2 DEF Tells
<1>12. Tells(s0, t, MapTold(s0, t, v))
  BY <1>8, <1>9, <1>10, <1>11 DEF MapTold
<1> QED
  BY <1>12 DEF t

\* handle_view_unmap, also of a menu that hands the keyboard back.
LEMMA UnmapTells ==
    ASSUME NEW s \in Servers, NEW v \in s.mapped, InOrderBut(s, None)
    PROVE  LET t == Unmap(s, v) IN Tells(s, t, NewFocusTold(s, t) \cup {v})
<1> DEFINE h == [s EXCEPT !.mapped = @ \ {v}, !.shown = @ \ {v}]
           e == EndGrabOf(h, v)
           r == Defocus(e, v)
           t == Unmap(s, v)
<1>1. /\ h \in Servers /\ h.mapped = s.mapped \ {v} /\ h.views = s.views
      /\ h.docks = s.docks /\ h.ws = s.ws /\ h.minimized = s.minimized
      /\ h.focused = s.focused
  BY DEF Servers
<1> HIDE DEF h
<1>2. Distinct(h.views) /\ s.focused \notin Popups
      /\ s.focused \in Listed(s) \cup {None}
      /\ (s.focused \in s.minimized => s.focused \in s.docks)
      /\ None \notin Views /\ v \in Views
  BY <1>1, DesktopAssumption DEF InOrderBut, SceneBut, FocusBut, Servers
<1>3. Refocuses(h, e) /\ e.minimized = h.minimized /\ e.focused = h.focused
  BY <1>1, <1>2, EndGrabOfRefocuses
<1> HIDE DEF e
<1>4. Refocuses(e, r) /\ r.minimized = e.minimized /\ (e.focused # v => r = e)
  BY <1>3, DefocusRefocuses DEF Refocuses
<1> HIDE DEF r
<1>5. Same(h, r) /\ r \in Servers /\ r.minimized = s.minimized /\ Distinct(r.views)
      /\ Listed(h) = Listed(s) /\ (s.focused # v => r.focused = s.focused)
  BY <1>1, <1>3, <1>4 DEF Refocuses, Same, Listed
<1>6. Same(h, t) /\ t \in Servers /\ t.minimized = s.minimized
      /\ (s.focused # v => t.focused = s.focused)
  <2>1. CASE v \notin Popups
    <3>1. t = r
      BY <2>1 DEF Unmap, r, e, h
    <3> QED
      BY <1>5, <3>1
  <2>2. CASE v \in Popups /\ r.focused # None
    <3>1. t = FocusView(r, r.focused)
      BY <2>2 DEF Unmap, r, e, h
    <3>2. s.focused # v /\ r.focused = s.focused
      BY <1>2, <1>5, <2>2
    <3>3. r.focused \in Listed(r) /\ (r.focused \in r.minimized => r.focused \in r.docks)
      BY <1>1, <1>2, <1>5, <2>2, <3>2 DEF Same
    <3>4. Refocuses(r, t) /\ t.focused = r.focused /\ r.minimized \ {r.focused} \subseteq t.minimized
          /\ (r.focused \notin r.minimized => t.minimized = r.minimized)
      BY <1>5, <3>1, <3>3, FocusViewRefocuses
    <3>5. t.minimized = r.minimized
      <4>1. CASE r.focused \notin r.minimized
        BY <3>4, <4>1
      <4>2. CASE r.focused \in r.minimized
        <5>1. r.focused \in r.docks
          BY <3>3, <4>2
        <5>2. Restore(r, r.focused) = r
          BY <5>1 DEF Restore
        <5>3. Raise(r, r.focused) \in Servers /\ Raise(r, r.focused).minimized = r.minimized
          <6>1. /\ Raise(r, r.focused) \in Servers
                /\ Raise(r, r.focused) = [r EXCEPT !.views = Raise(r, r.focused).views]
            BY <1>5, <3>3, RaiseKeeps
          <6> QED
            BY <1>5, <6>1 DEF Servers
        <5>4. GiveFocus(r, r.focused, r.focused \notin Popups \cup Modules).minimized = r.minimized
          BY <5>2, <5>3 DEF GiveFocus, Servers
        <5> QED
          BY <3>1, <5>4 DEF FocusView
      <4> QED
        BY <4>1, <4>2
    <3> QED
      BY <1>5, <3>2, <3>4, <3>5 DEF Refocuses, Same
  <2>3. CASE v \in Popups /\ r.focused = None
    <3>1. t = ClearKeyboard(r)
      BY <2>3 DEF Unmap, r, e, h
    <3>2. /\ t \in Servers /\ t.views = r.views /\ t.mapped = r.mapped /\ t.docks = r.docks
          /\ t.ws = r.ws /\ t.minimized = r.minimized /\ t.focused = r.focused
      BY <1>5, <3>1 DEF ClearKeyboard, Servers
    <3> QED
      BY <1>5, <3>2 DEF Same, Listed
  <2> QED
    BY <2>1, <2>2, <2>3
<1> HIDE DEF t
<1>7. /\ t.mapped = s.mapped \ {v} /\ t.docks = s.docks /\ t.ws = s.ws
      /\ Listed(t) = Listed(s) /\ s.focused \in {v, t.focused}
  BY <1>1, <1>5, <1>6 DEF Same
<1>8. Tells(s, t, NewFocusTold(s, t) \cup {v})
  BY <1>6, <1>7, LeavesTells DEF Hides
<1> QED
  BY <1>8 DEF t

\* A new view is not known to the panel, and nobody is told of it.
LEMMA NewTells ==
    ASSUME server \in Servers, NEW v \in Views, NewXdgToplevel(v) \/ NewXwaylandSurface(v)
    PROVE  Tells(server, server', {})
<1>1. v \notin Listed(server)
  BY DEF NewXdgToplevel, NewXwaylandSurface
<1>2. /\ server'.mapped = server.mapped /\ server'.docks = server.docks
      /\ server'.minimized = server.minimized /\ server'.focused = server.focused
      /\ server'.ws = [server.ws EXCEPT ![v] = server.cur]
  BY DEF NewXdgToplevel, NewXwaylandSurface, Servers
<1>3. \A w \in Views \ {v} : server'.ws[w] = server.ws[w]
  BY <1>2 DEF Servers
<1>4. Listed(server) \subseteq Views
  BY ListedViews
<1> QED
  BY <1>1, <1>2, <1>3, <1>4 DEF Tells

LEMMA AssociateTells ==
    ASSUME InOrderBut(server, None), NEW v \in Views, Associate(v)
    PROVE  /\ v \in server'.mapped => Tells(server, server', MapTold(server, server', v))
           /\ v \notin server'.mapped => Tells(server, server', {})
<1> DEFINE a == [server EXCEPT !.scened = @ \cup {v}]
<1>1. /\ server \in Servers /\ Distinct(server.views) /\ v \in Listed(server)
      /\ v \notin server.mapped
  BY DEF InOrderBut, SceneBut, Associate
<1>2. /\ a \in Servers /\ a.views = server.views /\ a.mapped = server.mapped
      /\ a.docks = server.docks /\ a.ws = server.ws /\ a.minimized = server.minimized
      /\ a.focused = server.focused /\ v \in a.scened
  BY <1>1 DEF Servers
<1>3. server' \in {a, Map(a, v)}
  BY DEF Associate
<1> HIDE DEF a
<1>4. Same(server, a) /\ v \in Listed(a) /\ Distinct(a.views)
  BY <1>1, <1>2 DEF Same, Listed
<1>5. Tells(server, Map(a, v), MapTold(server, Map(a, v), v))
  BY <1>1, <1>2, <1>4, MapTells
<1>6. Tells(server, a, {})
  BY <1>2, <1>4, SilentTells
<1>7. v \in Map(a, v).mapped
  <2> DEFINE p == [a EXCEPT !.mapped = @ \cup {v}, !.docks = @ \cup ({v} \cap Dockapps)]
             m == UpdateNode(p, v)
  <2>1. p \in Servers /\ p.mapped = a.mapped \cup {v} /\ p.views = a.views
    <3>1. a.mapped \cup {v} \in SUBSET Views /\ a.docks \cup ({v} \cap Dockapps) \in SUBSET Views
      BY <1>2 DEF Servers
    <3> QED
      BY <1>2, <3>1 DEF Servers
  <2> HIDE DEF p
  <2>2. m \in Servers /\ m.mapped = p.mapped /\ m.views = p.views
    BY <2>1, UpdateNodeFields
  <2> HIDE DEF m
  <2>3. Distinct(m.views) /\ v \in Listed(m)
    BY <1>4, <2>1, <2>2 DEF Listed
  <2>4. FocusView(m, v).mapped = m.mapped
    BY <2>2, <2>3, FocusViewRefocuses DEF Refocuses, Same
  <2>5. Raise(m, v).mapped = m.mapped
    <3>1. Raise(m, v) \in Servers /\ Raise(m, v) = [m EXCEPT !.views = Raise(m, v).views]
      BY <2>2, <2>3, RaiseKeeps
    <3> QED
      BY <2>2, <3>1 DEF Servers
  <2>6. Map(a, v) \in {m, FocusView(m, v), Raise(m, v)}
    BY DEF Map, m, p
  <2> QED
    BY <2>1, <2>2, <2>4, <2>5, <2>6
<1>8. CASE server' = a
  BY <1>1, <1>2, <1>6, <1>8
<1>9. CASE server' = Map(a, v)
  BY <1>5, <1>7, <1>9
<1> QED
  BY <1>3, <1>8, <1>9

LEMMA DissociateTells ==
    ASSUME InOrderBut(server, None), NEW v \in Views, Dissociate(v)
    PROVE  Tells(server, server', NewFocusTold(server, server') \cup {v})
<1> DEFINE e == EndGrabOf(server, v)
           d == Defocus(e, v)
           u == [d EXCEPT !.scened = @ \ {v}]
           t == ForgetSurface(u, v)
<1>1. server \in Servers /\ Distinct(server.views)
  BY DEF InOrderBut, SceneBut
<1>2. Refocuses(server, e) /\ e.minimized = server.minimized /\ e.focused = server.focused
  BY <1>1, EndGrabOfRefocuses
<1> HIDE DEF e
<1>3. Refocuses(e, d) /\ d.minimized = e.minimized /\ (e.focused # v => d = e)
  BY <1>2, DefocusRefocuses DEF Refocuses
<1> HIDE DEF d
<1>4. Refocuses(server, d) /\ d \in Servers
  BY <1>2, <1>3, RefocusesTransitive DEF Refocuses
<1>5. /\ u \in Servers /\ u.mapped = d.mapped /\ u.docks = d.docks /\ u.ws = d.ws
      /\ u.views = d.views /\ u.minimized = d.minimized /\ u.focused = d.focused
  BY <1>4 DEF Servers
<1> HIDE DEF u
<1>6. /\ t \in Servers /\ t.mapped = u.mapped /\ t.docks = u.docks /\ t.ws = u.ws
      /\ t.views = u.views /\ t.minimized = u.minimized /\ t.focused = u.focused
  BY <1>5, ForgetSurfaceFields
<1>7. server' = t
  BY DEF Dissociate, t, u, d, e
<1> HIDE DEF t
<1>8. Same(server, t) /\ t.minimized = server.minimized /\ server.focused \in {v, t.focused}
  BY <1>2, <1>3, <1>4, <1>5, <1>6 DEF Refocuses, Same, Listed
<1>9. /\ t.mapped = server.mapped /\ t.docks = server.docks /\ t.ws = server.ws
      /\ Listed(t) = Listed(server)
  BY <1>8 DEF Same
<1>10. Hides(server, t, v)
  BY <1>8, <1>9 DEF Hides
<1>11. Tells(server, t, NewFocusTold(server, t) \cup {v})
  BY <1>1, <1>6, <1>10, LeavesTells
<1> QED
  BY <1>7, <1>11

LEMMA DestroyTells ==
    ASSUME InOrderBut(server, None), NEW v \in Views, DestroyView(v)
    PROVE  Tells(server, server', NewFocusTold(server, server') \cup {v})
<1> DEFINE l == [server EXCEPT !.views = Without(@, v)]
           e == EndGrabOf(l, v)
           d == Defocus(e, v)
           u == [d EXCEPT !.scened = @ \ {v}, !.minimized = @ \ {v},
                          !.docks = @ \ {v}, !.ws[v] = 1]
           t == ForgetSurface(u, v)
<1>1. server \in Servers /\ Distinct(server.views) /\ v \in Listed(server)
      /\ server.views \in Seq(Views)
  BY DEF InOrderBut, SceneBut, DestroyView, Servers
<1>2. /\ Without(server.views, v) \in Seq(Views) /\ Distinct(Without(server.views, v))
      /\ Range(Without(server.views, v)) = Listed(server) \ {v}
  BY <1>1, WithoutTyped, WithoutRange DEF Listed
<1>3. /\ l \in Servers /\ l.views = Without(server.views, v) /\ l.mapped = server.mapped
      /\ l.docks = server.docks /\ l.ws = server.ws /\ l.minimized = server.minimized
      /\ l.focused = server.focused
  BY <1>1, <1>2 DEF Servers
<1> HIDE DEF l
<1>4. Distinct(l.views) /\ Listed(l) = Listed(server) \ {v}
  BY <1>2, <1>3 DEF Listed
<1>5. Refocuses(l, e) /\ e.minimized = l.minimized /\ e.focused = l.focused
  BY <1>3, <1>4, EndGrabOfRefocuses
<1> HIDE DEF e
<1>6. Refocuses(e, d) /\ d.minimized = e.minimized /\ (e.focused # v => d = e)
  BY <1>5, DefocusRefocuses DEF Refocuses
<1> HIDE DEF d
<1>7. Refocuses(l, d) /\ d \in Servers
  BY <1>5, <1>6, RefocusesTransitive DEF Refocuses
<1>8. /\ u \in Servers /\ u.mapped = d.mapped /\ u.docks = d.docks \ {v}
      /\ u.ws = [d.ws EXCEPT ![v] = 1]
      /\ u.views = d.views /\ u.minimized = d.minimized \ {v} /\ u.focused = d.focused
  <2>1. [d.ws EXCEPT ![v] = 1] \in [Views -> Workspaces]
    BY <1>7, DesktopAssumption DEF Servers, Workspaces
  <2> QED
    BY <1>7, <2>1 DEF Servers
<1> HIDE DEF u
<1>9. /\ t \in Servers /\ t.mapped = u.mapped /\ t.docks = u.docks /\ t.ws = u.ws
      /\ t.views = u.views /\ t.minimized = u.minimized /\ t.focused = u.focused
  BY <1>8, ForgetSurfaceFields
<1>10. server' = t
  BY DEF DestroyView, t, u, d, e, l
<1> HIDE DEF t
<1>11. /\ Listed(t) = Listed(server) \ {v} /\ t.mapped = server.mapped
       /\ t.docks = server.docks \ {v} /\ t.minimized = server.minimized \ {v}
       /\ t.ws = [server.ws EXCEPT ![v] = 1] /\ server.focused \in {v, t.focused}
  BY <1>3, <1>4, <1>5, <1>6, <1>7, <1>8, <1>9 DEF Refocuses, Same, Listed
<1>12. \A w \in Views \ {v} : t.ws[w] = server.ws[w]
  BY <1>1, <1>11 DEF Servers
<1>13. Hides(server, t, v)
  BY <1>1, <1>9, <1>11, <1>12, ListedViews DEF Hides
<1>14. Tells(server, t, NewFocusTold(server, t) \cup {v})
  BY <1>1, <1>9, <1>11, <1>13, LeavesTells
<1> QED
  BY <1>10, <1>14

\* The three handlers that end with the focus of v taken away from a state m in
\* which only v has changed.
LEMMA DefocusTells ==
    ASSUME NEW s \in Servers, NEW m \in Servers, NEW v \in Views, Distinct(m.views),
           Listed(m) = Listed(s), m.mapped = s.mapped, m.docks = s.docks,
           m.focused = s.focused,
           \A w \in Views \ {v} : /\ w \in m.minimized <=> w \in s.minimized
                                  /\ m.ws[w] = s.ws[w]
    PROVE  LET t == Defocus(EndGrabOf(m, v), v)
           IN  /\ Tells(s, t, NewFocusTold(s, t) \cup {v})
               /\ t.minimized = m.minimized
<1> DEFINE e == EndGrabOf(m, v)
           t == Defocus(e, v)
<1>1. Refocuses(m, e) /\ e.minimized = m.minimized /\ e.focused = m.focused
  BY EndGrabOfRefocuses
<1> HIDE DEF e
<1>2. Refocuses(e, t) /\ t.minimized = e.minimized /\ (e.focused # v => t = e)
  BY <1>1, DefocusRefocuses DEF Refocuses
<1> HIDE DEF t
<1>3. Refocuses(m, t)
  BY <1>1, <1>2, RefocusesTransitive
<1>4. /\ t \in Servers /\ Listed(t) = Listed(s) /\ t.mapped = s.mapped /\ t.docks = s.docks
      /\ t.ws = m.ws /\ t.minimized = m.minimized /\ s.focused \in {v, t.focused}
  BY <1>1, <1>2, <1>3 DEF Refocuses, Same
<1>5. Hides(s, t, v)
  BY <1>4, ListedViews DEF Hides
<1>6. Tells(s, t, NewFocusTold(s, t) \cup {v})
  BY <1>4, <1>5, LeavesTells
<1> QED
  BY <1>4, <1>6 DEF t, e

LEMMA MinimizeTells ==
    ASSUME NEW s \in Servers, Distinct(s.views), NEW v \in Views
    PROVE  LET t == Minimize(s, v)
           IN  IF v \in t.minimized \ s.minimized
               THEN Tells(s, t, NewFocusTold(s, t) \cup {v})
               ELSE Tells(s, t, {})
<1> DEFINE p == [s EXCEPT !.minimized = @ \cup {v}]
           m == UpdateNode(p, v)
           t == Minimize(s, v)
<1>1. CASE v \in s.minimized \cup s.docks
  <2>1. t = s
    BY <1>1 DEF Minimize
  <2>2. Tells(s, s, {})
    BY SilentTells DEF Same
  <2> QED
    BY <2>1, <2>2
<1>2. CASE v \notin s.minimized \cup s.docks
  <2>1. /\ p \in Servers /\ p.minimized = s.minimized \cup {v} /\ p.views = s.views
        /\ p.mapped = s.mapped /\ p.docks = s.docks /\ p.ws = s.ws /\ p.focused = s.focused
    BY DEF Servers
  <2> HIDE DEF p
  <2>2. /\ m \in Servers /\ m.minimized = p.minimized /\ m.views = p.views
        /\ m.mapped = p.mapped /\ m.docks = p.docks /\ m.ws = p.ws /\ m.focused = p.focused
    BY <2>1, UpdateNodeFields
  <2>3. t = Defocus(EndGrabOf(m, v), v)
    BY <1>2 DEF Minimize, m, p
  <2> HIDE DEF m, t
  <2>4. Listed(m) = Listed(s) /\ Distinct(m.views)
    BY <2>1, <2>2 DEF Listed
  <2>5. Tells(s, t, NewFocusTold(s, t) \cup {v}) /\ t.minimized = m.minimized
    BY <2>1, <2>2, <2>3, <2>4, DefocusTells
  <2>6. v \in t.minimized \ s.minimized
    BY <1>2, <2>1, <2>2, <2>5
  <2> QED
    BY <2>5, <2>6 DEF t
<1> QED
  BY <1>1, <1>2

LEMMA MoveTells ==
    ASSUME InOrderBut(server, None), NEW v \in Views, NEW w \in Workspaces,
           MoveWindowToWorkspace(v, w)
    PROVE  Tells(server, server', NewFocusTold(server, server') \cup {v})
<1> DEFINE n == NormalizeWorkspace(w)
           p == [server EXCEPT !.ws[v] = n]
           m == UpdateNode(p, v)
<1>1. server \in Servers /\ Distinct(server.views) /\ n \in Workspaces
  BY NormalizeTyped DEF InOrderBut, SceneBut, Workspaces
<1> HIDE DEF n
<1>2. /\ p \in Servers /\ p.minimized = server.minimized /\ p.views = server.views
      /\ p.mapped = server.mapped /\ p.docks = server.docks /\ p.focused = server.focused
      /\ p.ws = [server.ws EXCEPT ![v] = n]
  <2>1. [server.ws EXCEPT ![v] = n] \in [Views -> Workspaces]
    BY <1>1 DEF Servers
  <2> QED
    BY <1>1, <2>1 DEF Servers
<1> HIDE DEF p
<1>3. /\ m \in Servers /\ m.minimized = p.minimized /\ m.views = p.views
      /\ m.mapped = p.mapped /\ m.docks = p.docks /\ m.ws = p.ws /\ m.focused = p.focused
  BY <1>2, UpdateNodeFields
<1>4. server' \in {m, Defocus(EndGrabOf(m, v), v)}
  BY DEF MoveWindowToWorkspace, m, p, n
<1> HIDE DEF m
<1>5. /\ Listed(m) = Listed(server) /\ Distinct(m.views)
      /\ \A x \in Views \ {v} : m.ws[x] = server.ws[x]
  BY <1>1, <1>2, <1>3 DEF Listed, Servers
<1>6. CASE server' = m
  <2>1. server.focused \in {v, m.focused}
    BY <1>2, <1>3
  <2>2. Hides(server, m, v)
    BY <1>1, <1>2, <1>3, <1>5, <2>1, ListedViews DEF Hides
  <2>3. Tells(server, m, NewFocusTold(server, m) \cup {v})
    BY <1>1, <1>3, <2>2, LeavesTells
  <2> QED
    BY <1>6, <2>3
<1>7. CASE server' = Defocus(EndGrabOf(m, v), v)
  <2> DEFINE t == Defocus(EndGrabOf(m, v), v)
  <2>1. Tells(server, t, NewFocusTold(server, t) \cup {v})
    BY <1>1, <1>2, <1>3, <1>5, DefocusTells
  <2> QED
    BY <1>7, <2>1
<1> QED
  BY <1>4, <1>6, <1>7

-----------------------------------------------------------------------------
(***************************************************************************)
(* What the panel knows after every handler.  An entry of a window is what *)
(* a fresh list would say, unless the window is in missed, and even then   *)
(* its focus flag is right; the entry that a dock still has from before it *)
(* mapped is not shown; and no mapped window is without an entry but those *)
(* in missed.                                                              *)
(***************************************************************************)
Entries ==
    /\ DOMAIN list \subseteq Listed(server)
    /\ \A v \in DOMAIN list :
         /\ v \in server.docks => ~list[v].mapped
         /\ v \notin server.docks => /\ v \notin Skipped(server, named)
                                     /\ list[v].focused <=> server.focused = v
                                     /\ v \notin missed => list[v] = State(server, v)

Present ==
    bound => server.mapped \ (Skipped(server, named) \cup missed) \subseteq DOMAIN list

Mirrored ==
    /\ Entries /\ Present
    /\ bound => workspace = server.cur
    /\ missed \subseteq server.mapped
    /\ FocusOnMap \/ missed \subseteq Popups
    /\ ~bound => list = <<>> /\ missed = {}

LEMMA StateFlags ==
    ASSUME NEW s, NEW v
    PROVE  /\ State(s, v).mapped <=> v \in s.mapped
           /\ State(s, v).focused <=> s.focused = v
           /\ State(s, v).workspace = s.ws[v]
<1>1. /\ State(s, v).mapped = (v \in s.mapped) /\ State(s, v).focused = (s.focused = v)
      /\ State(s, v).workspace = s.ws[v]
  BY DEF State
<1> QED
  BY <1>1

LEMMA EmptyDomain == DOMAIN <<>> = {}
OBVIOUS

\* A handler that tells of all it changes leaves the panel with the right list.
LEMMA ToldStep ==
    ASSUME Mirrored, NEW told, Tells(server, server', told), SendsIn(told),
           server'.mapped \subseteq Listed(server'),
           server.mapped \subseteq Listed(server),
           named \cap Listed(server') \subseteq named', named' \subseteq named \cup told,
           bound' = bound, bound => workspace' = server'.cur,
           missed' = IF bound
                     THEN server'.mapped \cap
                            ((missed \cup (server'.mapped \ server.mapped)) \ told)
                     ELSE {}
    PROVE  Mirrored'
<1> DEFINE sent == (told \cap Listed(server')) \ Skipped(server', named')
           kept == DOMAIN list \cap Listed(server')
<1>1. CASE ~bound
  <2>1. list' = <<>> /\ missed' = {} /\ ~bound'
    BY <1>1 DEF SendsIn, Mirrored
  <2> QED
    BY <2>1, EmptyDomain DEF Mirrored, Entries, Present
<1>2. CASE bound
  <2>1. /\ DOMAIN list' = sent \cup kept
        /\ \A v \in sent : list'[v] = State(server', v)
        /\ \A v \in kept \ sent : list'[v] = list[v]
    <3>1. list' = [v \in sent \cup kept |-> IF v \in sent THEN State(server', v) ELSE list[v]]
      BY <1>2 DEF SendsIn
    <3> HIDE DEF sent, kept
    <3> QED
      BY <3>1
  <2>2. missed' = server'.mapped \cap ((missed \cup (server'.mapped \ server.mapped)) \ told)
    BY <1>2
  <2>3. ASSUME NEW v \in kept \ sent, v \notin server'.docks
        PROVE  /\ v \notin Skipped(server', named') /\ v \notin told
               /\ v \notin server.docks /\ v \in Listed(server)
    <3>1. v \in Listed(server) /\ v \in Listed(server')
      BY DEF Mirrored, Entries
    <3>2. v \notin server.docks
      BY <2>3, <3>1 DEF Tells
    <3>3. v \notin Skipped(server, named)
      BY <3>2 DEF Mirrored, Entries
    <3>4. v \notin Skipped(server', named')
      BY <2>3, <3>1, <3>3 DEF Skipped
    <3> QED
      BY <3>1, <3>2, <3>4
  <2>4. ASSUME NEW v \in kept \ sent, v \notin server'.docks, v \notin missed'
        PROVE  list'[v] = State(server', v)
    <3>1. /\ v \notin told /\ v \notin server.docks /\ v \in Listed(server)
          /\ v \in Listed(server') /\ v \in DOMAIN list
      BY <2>3, <2>4
    <3>2. /\ v \in server'.minimized <=> v \in server.minimized
          /\ server'.ws[v] = server.ws[v]
          /\ v \in server.mapped => v \in server'.mapped
          /\ server'.focused = v <=> server.focused = v
      BY <2>4, <3>1 DEF Tells
    <3>3. v \notin missed /\ (v \in server'.mapped <=> v \in server.mapped)
      BY <2>2, <2>4, <3>1, <3>2 DEF Mirrored
    <3>4. list[v] = State(server, v)
      BY <3>1, <3>3 DEF Mirrored, Entries
    <3>5. State(server', v) = State(server, v)
      BY <3>2, <3>3 DEF State
    <3> QED
      BY <2>1, <2>4, <3>4, <3>5
  <2>5. ASSUME NEW v \in kept \ sent, v \notin server'.docks
        PROVE  list'[v].focused <=> server'.focused = v
    <3>1. /\ v \notin told /\ v \notin server.docks /\ v \in Listed(server')
          /\ v \in DOMAIN list
      BY <2>3, <2>5
    <3>2. server'.focused = v <=> server.focused = v
      BY <2>5, <3>1 DEF Tells
    <3>3. list[v].focused <=> server.focused = v
      BY <3>1 DEF Mirrored, Entries
    <3> QED
      BY <2>1, <2>5, <3>2, <3>3
  <2>6. ASSUME NEW v \in kept \ sent, v \in server'.docks
        PROVE  ~list'[v].mapped
    <3>1. v \in DOMAIN list
      OBVIOUS
    <3>2. CASE v \in server.docks
      BY <2>1, <2>6, <3>1, <3>2 DEF Mirrored, Entries
    <3>3. CASE v \notin server.docks
      <4>1. v \notin server.mapped
        BY <2>6, <3>3 DEF Tells
      <4>2. list[v] = State(server, v)
        BY <3>1, <3>3, <4>1 DEF Mirrored, Entries
      <4> QED
        BY <2>1, <2>6, <4>1, <4>2, StateFlags
    <3> QED
      BY <3>2, <3>3
  <2>7. \A v \in sent : v \in Listed(server') /\ v \notin Skipped(server', named')
                        /\ v \notin server'.docks
    BY DEF Skipped
  <2>8. \A v \in sent : list'[v].focused <=> server'.focused = v
    BY <2>1, StateFlags
  <2> HIDE DEF sent
  <2>9. Entries'
    BY <2>1, <2>3, <2>4, <2>5, <2>6, <2>7, <2>8 DEF Entries
  <2>10. ASSUME NEW v \in server'.mapped, v \notin Skipped(server', named'), v \notin missed'
         PROVE  v \in sent \cup kept
    <3>1. v \in Listed(server')
      OBVIOUS
    <3>2. CASE v \in told
      BY <2>10, <3>1, <3>2 DEF sent
    <3>3. CASE v \notin told
      <4>1. v \in server.mapped /\ v \notin missed
        BY <2>2, <2>10, <3>3
      <4>2. v \notin server.docks
        BY <2>10, <3>1 DEF Tells, Skipped
      <4>3. v \notin Skipped(server, named)
        BY <2>10, <3>1, <3>3, <4>2 DEF Skipped
      <4> QED
        BY <1>2, <3>1, <4>1, <4>3 DEF Mirrored, Present
    <3> QED
      BY <3>2, <3>3
  <2>11. Present'
    BY <2>1, <2>10 DEF Present
  <2>12. FocusOnMap \/ missed' \subseteq Popups
    BY <2>2 DEF Mirrored, Tells
  <2> QED
    BY <1>2, <2>2, <2>9, <2>11, <2>12 DEF Mirrored
<1> QED
  BY <1>1, <1>2

LEMMA SendsStep ==
    ASSUME Mirrored, NEW told, Tells(server, server', told), Sends(told),
           InOrderBut(server, None), InOrderBut(server', None)
    PROVE  Mirrored'
<1>1. /\ server'.mapped \subseteq Listed(server') /\ server.mapped \subseteq Listed(server)
  BY DesktopAssumption DEF InOrderBut, SceneBut, Servers
<1>2. bound => workspace' = server'.cur
  BY DEF Sends, SendsWorkspace, Mirrored
<1>3. /\ SendsIn(told) /\ bound' = bound
      /\ named \cap Listed(server') \subseteq named' /\ named' \subseteq named \cup told
      /\ missed' = IF bound
                   THEN server'.mapped \cap
                          ((missed \cup (server'.mapped \ server.mapped)) \ told)
                   ELSE {}
  BY DEF Sends
<1> QED
  BY <1>1, <1>2, <1>3, ToldStep

-----------------------------------------------------------------------------
(***************************************************************************)
(* The steps.                                                              *)
(***************************************************************************)

\* Requests, key bindings, panels and the unlock can only move the focus and
\* restore what it moves to.
MayMoveFocus ==
    \/ \E v \in Views : \/ RequestRestore(v) \/ ForeignActivate(v)
                        \/ ActivationRequest(v) \/ FocusWindow(v)
    \/ \E w \in 0 .. NWorkspaces + 1 : SetWorkspace(w)
    \/ FocusNext \/ FocusPrev \/ WorkspaceNext \/ WorkspacePrev \/ Unlock

LEMMA FocusMoves ==
    ASSUME InOrderBut(server, None), MayMoveFocus
    PROVE  /\ server \in Servers /\ server' \in Servers /\ Same(server, server')
           /\ server'.minimized \subseteq server.minimized
<1>1. /\ server \in Servers /\ Distinct(server.views)
      /\ server.mapped \subseteq Listed(server) /\ server.scened \subseteq Listed(server)
  BY DesktopAssumption DEF InOrderBut, SceneBut, Servers
<1>2. ASSUME NEW v \in Views, RequestRestore(v)
      PROVE  Refocuses(server, server')
  BY <1>1, <1>2, RestoreRefocuses DEF RequestRestore
<1>3. ASSUME NEW m, Refocuses(server, m), NEW v \in Listed(m), server' = FocusView(m, v)
      PROVE  Refocuses(server, server')
  <2>1. m \in Servers /\ Distinct(m.views)
    BY <1>3 DEF Refocuses
  <2>2. Refocuses(m, server')
    BY <1>3, <2>1, FocusViewRefocuses
  <2> QED
    BY <1>3, <2>2, RefocusesTransitive
<1>4. Refocuses(server, server)
  BY <1>1 DEF Refocuses, Same
<1>5. ASSUME NEW v \in Views, ForeignActivate(v)
      PROVE  Refocuses(server, server')
  BY <1>1, <1>3, <1>4, <1>5 DEF ForeignActivate
<1>6. ASSUME NEW w \in Nat
      PROVE  Refocuses(server, EnterWorkspace(server, w))
  BY <1>1, EnterWorkspaceRefocuses
<1>7. ASSUME NEW v \in Views
      PROVE  server.ws[v] \in Nat
  BY <1>1 DEF Servers, Workspaces
<1>8. ASSUME NEW v \in Views, ActivationRequest(v)
      PROVE  Refocuses(server, server')
  <2> DEFINE m == IF v \in server.docks THEN server ELSE EnterWorkspace(server, server.ws[v])
  <2>1. Refocuses(server, m)
    BY <1>4, <1>6, <1>7
  <2>2. v \in Listed(server) /\ server' = FocusView(m, v)
    BY <1>8 DEF ActivationRequest, MayName
  <2> HIDE DEF m
  <2>3. v \in Listed(m)
    BY <2>1, <2>2 DEF Refocuses, Same
  <2> QED
    BY <1>3, <2>1, <2>2, <2>3
<1>9. ASSUME NEW v \in Views, FocusWindow(v)
      PROVE  Refocuses(server, server')
  <2> DEFINE m == EnterWorkspace(server, server.ws[v])
  <2>1. Refocuses(server, m)
    BY <1>6, <1>7
  <2>2. v \in Listed(server) /\ server' = FocusView(m, v)
    BY <1>9 DEF FocusWindow, MayName
  <2> HIDE DEF m
  <2>3. v \in Listed(m)
    BY <2>1, <2>2 DEF Refocuses, Same
  <2> QED
    BY <1>3, <2>1, <2>2, <2>3
<1>10. ASSUME NEW w \in 0 .. NWorkspaces + 1, SetWorkspace(w)
       PROVE  Refocuses(server, server')
  BY <1>6, <1>10 DEF SetWorkspace
<1>11. ASSUME FocusNext \/ FocusPrev
       PROVE  Refocuses(server, server')
  <2>1. PICK i \in DOMAIN server.views : server' = FocusView(server, server.views[i])
    BY <1>11 DEF FocusNext, FocusPrev, Others
  <2>2. server.views[i] \in Listed(server)
    BY <1>1, <2>1 DEF Listed, Range
  <2> QED
    BY <1>3, <1>4, <2>1, <2>2
<1>12. ASSUME WorkspaceNext \/ WorkspacePrev
       PROVE  Refocuses(server, server')
  <2>1. server.cur \in Nat /\ server.cur >= 1 /\ NWorkspaces \in Nat
    BY <1>1, DesktopAssumption DEF Servers, Workspaces
  <2>2. \E w \in Nat : server' = EnterWorkspace(server, w)
    BY <1>12, <2>1 DEF WorkspaceNext, WorkspacePrev
  <2> QED
    BY <1>6, <2>2
<1>13. CASE Unlock
  <2> DEFINE m == [server EXCEPT !.lock = FALSE, !.locked = FALSE, !.lsurfs = <<>>]
  <2>1. /\ m \in Servers /\ m.views = server.views /\ m.mapped = server.mapped
        /\ m.docks = server.docks /\ m.ws = server.ws /\ m.minimized = server.minimized
    <3>. <<>> \in Seq(LockSurfaces)
      OBVIOUS
    <3> QED
      BY <1>1 DEF Servers
  <2>2. server' = FocusTopmost(m)
    BY <1>13 DEF Unlock
  <2> HIDE DEF m
  <2>3. Refocuses(m, server')
    BY <1>1, <2>1, <2>2, FocusTopmostRefocuses
  <2>4. Listed(m) = Listed(server)
    BY <2>1 DEF Listed
  <2> QED
    BY <1>1, <2>1, <2>3, <2>4 DEF Refocuses, Same
<1>14. Refocuses(server, server') \/ Unlock
  BY <1>2, <1>5, <1>8, <1>9, <1>10, <1>11, <1>12 DEF MayMoveFocus
<1> QED
  BY <1>1, <1>13, <1>14 DEF Refocuses

\* Whoever sends as MovesFocus or Switches do has told of everything.
LEMMA MovesFocusStep ==
    ASSUME Mirrored, InOrderBut(server, None), InOrderBut(server', None), MayMoveFocus,
           MovesFocus \/ \E there : Switches(there)
    PROVE  Mirrored'
<1>1. /\ server \in Servers /\ server' \in Servers /\ Same(server, server')
      /\ server'.minimized \subseteq server.minimized
  BY FocusMoves
<1>2. CASE MovesFocus
  <2>1. Tells(server, server', FocusTold(server, server') \cup RestoreTold(server, server'))
    BY <1>1, MovesFocusTells
  <2> QED
    BY <1>2, <2>1, SendsStep DEF MovesFocus
<1>3. ASSUME NEW m, Switches(m)
      PROVE  Mirrored'
  <2>1. Tells(server, server', FocusTold(server, m) \cup FocusTold(m, server')
                                 \cup RestoreTold(server, server'))
    BY <1>1, SwitchTells
  <2> QED
    BY <1>3, <2>1, SendsStep DEF Switches
<1> QED
  BY <1>2, <1>3

\* Windows come, map, unmap and go.
LEMMA WindowMirrored ==
    ASSUME Mirrored, InOrderBut(server, None), InOrderBut(server', None), NEW v \in Views,
           \/ (NewXdgToplevel(v) \/ NewXwaylandSurface(v)) /\ Sends({})
           \/ MapView(v) /\ Maps(v)
           \/ /\ Associate(v)
              /\ IF v \in server'.mapped THEN Maps(v) ELSE Sends({})
           \/ (UnmapView(v) \/ Dissociate(v)) /\ Leaves(v)
           \/ DestroyView(v) /\ Leaves(v)
    PROVE  Mirrored'
<1>1. server \in Servers /\ Distinct(server.views) /\ server.scened \subseteq Listed(server)
  BY DesktopAssumption DEF InOrderBut, SceneBut, Servers
<1>2. CASE (NewXdgToplevel(v) \/ NewXwaylandSurface(v)) /\ Sends({})
  BY <1>1, <1>2, NewTells, SendsStep
<1>3. CASE MapView(v) /\ Maps(v)
  <2>1. v \in server.scened \ server.mapped /\ server' = Map(server, v) /\ v \in Listed(server)
    BY <1>1, <1>3 DEF MapView
  <2>2. Same(server, server)
    BY DEF Same
  <2>3. Tells(server, server', MapTold(server, server', v))
    BY <1>1, <2>1, <2>2, MapTells
  <2> QED
    BY <1>3, <2>3, SendsStep DEF Maps
<1>4. CASE Associate(v) /\ IF v \in server'.mapped THEN Maps(v) ELSE Sends({})
  <2>1. CASE v \in server'.mapped
    BY <1>4, <2>1, AssociateTells, SendsStep DEF Maps
  <2>2. CASE v \notin server'.mapped
    BY <1>4, <2>2, AssociateTells, SendsStep
  <2> QED
    BY <2>1, <2>2
<1>5. CASE UnmapView(v) /\ Leaves(v)
  <2>1. v \in server.mapped /\ server' = Unmap(server, v)
    BY <1>5 DEF UnmapView
  <2>2. Tells(server, server', NewFocusTold(server, server') \cup {v})
    BY <1>1, <2>1, UnmapTells
  <2> QED
    BY <1>5, <2>2, SendsStep DEF Leaves
<1>6. CASE Dissociate(v) /\ Leaves(v)
  BY <1>6, DissociateTells, SendsStep DEF Leaves
<1>7. CASE DestroyView(v) /\ Leaves(v)
  BY <1>7, DestroyTells, SendsStep DEF Leaves
<1> QED
  BY <1>2, <1>3, <1>4, <1>5, <1>6, <1>7

\* A window is iconified, or moved to another workspace, or has a new title.
LEMMA AskedMirrored ==
    ASSUME Mirrored, InOrderBut(server, None), InOrderBut(server', None), NEW v \in Views,
           \/ /\ RequestMinimize(v)
              /\ IF v \in server'.minimized \ server.minimized THEN Leaves(v) ELSE Sends({})
           \/ (\E w \in Workspaces : MoveWindowToWorkspace(v, w)) /\ Leaves(v)
           \/ Retitle(v)
    PROVE  Mirrored'
<1>1. server \in Servers /\ Distinct(server.views) /\ server.mapped \subseteq Listed(server)
  BY DesktopAssumption DEF InOrderBut, SceneBut, Servers
<1>2. CASE /\ RequestMinimize(v)
           /\ IF v \in server'.minimized \ server.minimized THEN Leaves(v) ELSE Sends({})
  <2>1. server' = Minimize(server, v)
    BY <1>2 DEF RequestMinimize
  <2>2. IF v \in server'.minimized \ server.minimized
        THEN Tells(server, server', NewFocusTold(server, server') \cup {v})
        ELSE Tells(server, server', {})
    BY <1>1, <2>1, MinimizeTells
  <2>3. CASE v \in server'.minimized \ server.minimized
    BY <1>2, <2>2, <2>3, SendsStep DEF Leaves
  <2>4. CASE v \notin server'.minimized \ server.minimized
    BY <1>2, <2>2, <2>4, SendsStep
  <2> QED
    BY <2>3, <2>4
<1>3. CASE (\E w \in Workspaces : MoveWindowToWorkspace(v, w)) /\ Leaves(v)
  BY <1>3, MoveTells, SendsStep DEF Leaves
<1>4. CASE Retitle(v)
  <2>1. /\ server' = server /\ bound' = bound /\ workspace' = workspace /\ SendsIn({v})
        /\ named \subseteq named' /\ named' \subseteq named \cup {v}
        /\ missed' = missed \ {v}
    BY <1>4 DEF Retitle
  <2>2. Tells(server, server', {v})
    BY <2>1 DEF Tells
  <2>3. missed' = IF bound
                  THEN server'.mapped \cap ((missed \cup (server'.mapped \ server.mapped)) \ {v})
                  ELSE {}
    BY <2>1 DEF Mirrored
  <2>4. bound => workspace' = server'.cur
    BY <2>1 DEF Mirrored
  <2> QED
    BY <1>1, <2>1, <2>2, <2>3, <2>4, ToldStep
<1> QED
  BY <1>2, <1>3, <1>4

\* The panel binds the global and is sent the list, or goes.
LEMMA PanelMirrored ==
    ASSUME Mirrored, InOrderBut(server, None), Bind \/ Unbind
    PROVE  Mirrored'
<1>1. server.mapped \subseteq Listed(server)
  BY DesktopAssumption DEF InOrderBut, SceneBut, Servers
<1>2. CASE Bind
  <2>1. /\ server' = server /\ named' = named /\ bound' /\ missed' = {}
        /\ workspace' = server.cur /\ list' = Snapshot
    BY <1>2 DEF Bind
  <2>2. /\ DOMAIN list' = Listed(server) \ Skipped(server, named)
        /\ \A v \in DOMAIN list' : list'[v] = State(server, v)
    BY <2>1 DEF Snapshot
  <2>3. \A v \in DOMAIN list' : v \notin server.docks
    BY <2>2 DEF Skipped
  <2>4. Entries'
    BY <2>1, <2>2, <2>3, StateFlags DEF Entries
  <2>5. Present'
    BY <1>1, <2>1, <2>2 DEF Present
  <2> QED
    BY <2>1, <2>4, <2>5 DEF Mirrored
<1>3. CASE Unbind
  <2>1. ~bound' /\ list' = <<>> /\ missed' = {}
    BY <1>3 DEF Unbind
  <2> QED
    BY <2>1, EmptyDomain DEF Mirrored, Entries, Present
<1> QED
  BY <1>2, <1>3

LEMMA WNextMirrored ==
    ASSUME Mirrored, InOrderBut(server, None), InOrderBut(server', None),
           [WNext]_<<server, mirror>>
    PROVE  Mirrored'
<1>1. CASE UNCHANGED <<server, mirror>>
  BY <1>1 DEF mirror, Mirrored, Entries, Present
<1>2. CASE WNext
  <2>1. ASSUME NEW v \in Views, (RequestRestore(v) \/ ForeignActivate(v)) /\ MovesFocus
        PROVE  Mirrored'
    BY <2>1, MovesFocusStep DEF MayMoveFocus
  <2>2. ASSUME NEW v \in Views,
               \/ /\ ActivationRequest(v)
                  /\ Switches(IF v \in server.docks THEN server
                              ELSE EnterWorkspace(server, server.ws[v]))
               \/ FocusWindow(v) /\ Switches(EnterWorkspace(server, server.ws[v]))
        PROVE  Mirrored'
    BY <2>2, MovesFocusStep DEF MayMoveFocus
  <2>3. ASSUME \/ \E w \in 0 .. NWorkspaces + 1 : SetWorkspace(w)
               \/ FocusNext \/ FocusPrev \/ WorkspaceNext \/ WorkspacePrev \/ Unlock,
               MovesFocus
        PROVE  Mirrored'
    BY <2>3, MovesFocusStep DEF MayMoveFocus
  <2>4. ASSUME (NewSessionLock \/ LockDestroyed) /\ Sends({})
        PROVE  Mirrored'
    <3>1. /\ server'.views = server.views /\ server'.mapped = server.mapped
          /\ server'.docks = server.docks /\ server'.ws = server.ws
          /\ server'.minimized = server.minimized /\ server'.focused = server.focused
      <4>1. server \in Servers
        BY DEF InOrderBut, SceneBut
      <4>2. CASE NewSessionLock
        BY <4>1, <4>2 DEF Servers, NewSessionLock, ClearKeyboard
      <4>3. CASE LockDestroyed
        BY <4>1, <4>3 DEF Servers, LockDestroyed
      <4> QED
        BY <2>4, <4>2, <4>3
    <3>2. Same(server, server')
      BY <3>1 DEF Same, Listed
    <3>3. Tells(server, server', {})
      BY <3>1, <3>2, SilentTells
    <3> QED
      BY <2>4, <3>3, SendsStep
  <2> QED
    BY <1>2, <2>1, <2>2, <2>3, <2>4, WindowMirrored, AskedMirrored, PanelMirrored DEF WNext
<1> QED
  BY <1>1, <1>2

-----------------------------------------------------------------------------
(***************************************************************************)
(* A run with a panel is a run of the desktop, so that all that is proved  *)
(* about the desktop holds of it.                                          *)
(***************************************************************************)
LEMMA WNextNext ==
    ASSUME [WNext]_<<server, mirror>>
    PROVE  [Next]_server
<1>1. CASE UNCHANGED <<server, mirror>>
  BY <1>1
<1>2. CASE WNext
  <2>1. CASE Bind \/ Unbind \/ \E v \in Views : Retitle(v)
    BY <2>1 DEF Bind, Unbind, Retitle
  <2>2. ASSUME NEW v \in Views,
               \/ NewXdgToplevel(v) \/ NewXwaylandSurface(v) \/ MapView(v) \/ Associate(v)
               \/ UnmapView(v) \/ Dissociate(v) \/ DestroyView(v) \/ RequestMinimize(v)
               \/ RequestRestore(v) \/ ForeignActivate(v) \/ ActivationRequest(v)
               \/ FocusWindow(v) \/ \E w \in Workspaces : MoveWindowToWorkspace(v, w)
        PROVE  Next
    BY <2>2 DEF Next
  <2>3. ASSUME \/ \E w \in 0 .. NWorkspaces + 1 : SetWorkspace(w)
               \/ FocusNext \/ FocusPrev \/ WorkspaceNext \/ WorkspacePrev
               \/ Unlock \/ NewSessionLock \/ LockDestroyed
        PROVE  Next
    BY <2>3 DEF Next
  <2> QED
    BY <1>2, <2>1, <2>2, <2>3 DEF WNext
<1> QED
  BY <1>1, <1>2

\* A panel sees the desktop run as it runs without one: mirroring the windows never
\* makes the compositor do what module Desktop does not say.
LEMMA MirroringIsPassive == WSpec => Spec
<1>1. WInit => Init
  BY DEF WInit
<1> QED
  BY <1>1, WNextNext, PTL DEF WSpec, Spec

LEMMA AlwaysMirrored == WSpec => [](Mirrored /\ InOrderBut(server, None))
<1>1. WInit => Mirrored
  BY EmptyDomain DEF WInit, Mirrored, Entries, Present
<1>2. Mirrored /\ InOrderBut(server, None) /\ InOrderBut(server, None)' /\ [WNext]_<<server, mirror>>
        => Mirrored'
  BY WNextMirrored
<1>3. WSpec => []InOrderBut(server, None)
  BY MirroringIsPassive, AlwaysPlaced, PTL
<1> QED
  BY <1>1, <1>2, <1>3, PTL DEF WSpec

\* Although each handler sends only what it believes to have changed, at every moment
\* the panel shows the windows of the workspace on the screen, all of them, and each
\* as it is; but for those that the lock kept it from being told of.
THEOREM PanelIsExact == WSpec => []PanelExact
<1>1. Mirrored /\ InOrderBut(server, None) => PanelExact
  <2> SUFFICES ASSUME Mirrored, InOrderBut(server, None), bound PROVE PanelExact
    BY DEF PanelExact
  <2>1. /\ workspace = server.cur
        /\ FocusOnMap \/ missed \subseteq Popups
    BY DEF Mirrored
  <2>2. ASSUME NEW v \in Windows \ missed
        PROVE  v \in DOMAIN list /\ list[v] = State(server, v)
    <3>1. v \in DOMAIN list /\ v \notin server.docks
      BY <2>2 DEF Windows, Mirrored, Present, Skipped
    <3> QED
      BY <2>2, <3>1 DEF Mirrored, Entries
  <2>3. ASSUME NEW v \in PanelShows \ missed
        PROVE  v \in Windows /\ server.ws[v] = server.cur
    <3>1. /\ v \in DOMAIN list \ (Popups \cup Modules \cup WinTabs)
          /\ list[v].mapped /\ list[v].workspace = workspace
      BY <2>3 DEF PanelShows
    <3>2. v \notin server.docks /\ v \notin Skipped(server, named) /\ list[v] = State(server, v)
      BY <2>3, <3>1 DEF Mirrored, Entries
    <3>3. v \in server.mapped /\ server.ws[v] = server.cur
      BY <2>1, <3>1, <3>2, StateFlags
    <3> QED
      BY <3>1, <3>2, <3>3 DEF Windows
  <2>4. ASSUME NEW v \in Windows \ missed, server.ws[v] = server.cur
        PROVE  v \in PanelShows
    <3>1. v \in server.mapped /\ list[v] = State(server, v)
      BY <2>2, <2>4 DEF Windows
    <3>2. list[v].mapped /\ list[v].workspace = workspace
      BY <2>1, <2>4, <3>1, StateFlags
    <3> QED
      BY <2>2, <2>4, <3>2 DEF PanelShows, Windows
  <2>5. PanelShows \ missed = {v \in Windows \ missed : server.ws[v] = server.cur}
    BY <2>3, <2>4
  <2> QED
    BY <2>1, <2>2, <2>5 DEF PanelExact
<1> QED
  BY <1>1, AlwaysMirrored, PTL

\* Of everything on the list, the entry of the active window and no other is marked
\* focused, whichever handler moved the focus and however many times in one go.
THEOREM OneIsFocused == WSpec => []OneFocused
<1>1. Mirrored => OneFocused
  BY DEF Mirrored, Entries, OneFocused
<1> QED
  BY <1>1, AlwaysMirrored, PTL
=============================================================================
