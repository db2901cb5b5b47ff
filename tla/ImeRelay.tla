------------------------------ MODULE ImeRelay ------------------------------
(***************************************************************************)
(* The relay between input methods and text inputs of the aswlcomp         *)
(* compositor, wayland/aswlcomp_ime.c.  Clients have text inputs, one of    *)
(* which may be active; an input method composes text for that one and may  *)
(* show a popup at its caret.                                              *)
(*                                                                         *)
(* Where the keyboard focus goes is the subject of module Desktop.  Here    *)
(* SetFocus is any call of aswl_ime_set_focus that its handlers make.       *)
(***************************************************************************)
EXTENDS Naturals, Sequences, Functions

CONSTANTS TextInputs,     \* the text input objects clients can create
          Surfaces,       \* the surfaces that can have the keyboard
          ClientOf,       \* the client of each of these
          Carets,         \* the text inputs that say where their caret is
          InputMethods,   \* the input method objects clients can create
          None            \* NULL

ASSUME ImeRelayAssumption ==
    /\ Carets \subseteq TextInputs
    /\ DOMAIN ClientOf = TextInputs \cup Surfaces
    /\ None \notin TextInputs \cup Surfaces \cup InputMethods

VARIABLES
    session_locked,          \* server->session_locked
    ime_focused_surface,     \* server->ime_focused_surface
    focused_view,            \* server->focused_view # NULL
    text_inputs,             \* server->text_inputs, head (the newest) first
    enabled,                 \* those whose client has enabled them
    entered,                 \* the surface each was sent "enter" for
    ime_active_text_input,   \* server->ime_active_text_input
    composing,               \* the text inputs that show a preedit string
    ime_cursor_rect,         \* whose caret ime_cursor_rect is; None: invalid
    input_methods,           \* server->input_methods, head first
    ime_input_method,        \* server->ime_input_method
    activated,               \* the input methods told that they are active
    popups,                  \* the input methods that have a popup surface
    shown                    \* those whose popup's scene node is enabled

inputVars  == <<text_inputs, enabled>>
methodVars == <<input_methods, ime_input_method>>
focusVars  == <<session_locked, ime_focused_surface, focused_view>>
updateVars == <<ime_active_text_input, composing, ime_cursor_rect, activated, shown>>
vars == <<inputVars, methodVars, focusVars, updateVars, entered, popups>>

OrNone(S) == S \cup {None}

TypeOK ==
    /\ session_locked \in BOOLEAN
    /\ ime_focused_surface \in OrNone(Surfaces)
    /\ focused_view \in BOOLEAN
    /\ text_inputs \in Seq(TextInputs)
    /\ enabled \in SUBSET Range(text_inputs)
    /\ entered \in [TextInputs -> OrNone(Surfaces)]
    /\ ime_active_text_input \in OrNone(Range(text_inputs))
    /\ composing \in SUBSET Range(text_inputs)
    /\ ime_cursor_rect \in OrNone(TextInputs)
    /\ input_methods \in Seq(InputMethods)
    /\ ime_input_method \in OrNone(Range(input_methods))
    /\ activated \in SUBSET Range(input_methods)
    /\ popups \in SUBSET Range(input_methods)
    /\ shown \in SUBSET popups

Init ==
    /\ session_locked = FALSE
    /\ ime_focused_surface = None
    /\ focused_view = FALSE
    /\ text_inputs = <<>>
    /\ enabled = {}
    /\ entered = [t \in TextInputs |-> None]
    /\ ime_active_text_input = None
    /\ composing = {}
    /\ ime_cursor_rect = None
    /\ input_methods = <<>>
    /\ ime_input_method = None
    /\ activated = {}
    /\ popups = {}
    /\ shown = {}

-----------------------------------------------------------------------------
(***************************************************************************)
(* Bringing the relay up to date: the end of nearly every handler.         *)
(***************************************************************************)

Focuses(t) ==
    ime_focused_surface # None /\ ClientOf[ime_focused_surface] = ClientOf[t]

\* aswl_ime_find_enabled_text_input_for_focused_client: the newest one.
Wanted(i) == text_inputs[i] \in enabled /\ Focuses(text_inputs[i])

FoundTextInput ==
    IF \E i \in DOMAIN text_inputs : Wanted(i)
    THEN text_inputs[CHOOSE i \in DOMAIN text_inputs :
                        Wanted(i) /\ \A j \in 1 .. i - 1 : ~Wanted(j)]
    ELSE None

\* aswl_ime_update_popups: popups are up while there is a caret to put them at.
WantPopups ==
    /\ ~session_locked
    /\ ime_active_text_input # None
    /\ ime_focused_surface # None
    /\ focused_view
    /\ ime_cursor_rect # None

UpdatePopups == shown' = IF WantPopups' THEN popups' ELSE {}

\* The text input that was active has its preedit cleared when it is left.
ClearPreedit(old) ==
    composing' = {t \in composing \cap Range(text_inputs') :
                    t = old => t = ime_active_text_input'}

\* aswl_ime_update: choose the active text input anew, and tell the input
\* method in use whether it is active and, if so, the state of the text input,
\* its caret included.
Update(old) ==
    /\ ime_active_text_input' = IF session_locked' THEN None ELSE FoundTextInput'
    /\ ClearPreedit(old)
    /\ LET m == ime_input_method'
           t == ime_active_text_input'
       IN  /\ activated' = ((activated \cap Range(input_methods')) \ {m})
                           \cup (IF m # None /\ t # None THEN {m} ELSE {})
           /\ ime_cursor_rect' = IF m = None \/ t = None THEN ime_cursor_rect
                                 ELSE IF t \in Carets THEN t ELSE None
    /\ UpdatePopups

-----------------------------------------------------------------------------
(***************************************************************************)
(* Focus and lock.                                                         *)
(***************************************************************************)

\* The enter and leave events of aswl_ime_set_focus.
SendFocus ==
    entered' = [t \in TextInputs |->
                  IF t \in Range(text_inputs') /\ Focuses(t)' THEN ime_focused_surface'
                  ELSE None]

\* aswl_ime_set_focus, from a handler that gives the keyboard to a view (or
\* to a menu over it, or over none) or takes it away.  While locked the lock
\* surface gets the keyboard but the relay gets NULL.
SetFocus(s, view) ==
    /\ s = None => ~view
    /\ ime_focused_surface' = IF session_locked THEN None ELSE s
    /\ focused_view' = IF session_locked THEN view /\ focused_view ELSE view
    /\ UNCHANGED <<session_locked, inputVars, methodVars, popups>>
    /\ SendFocus
    /\ Update(ime_active_text_input)

\* session_lock_enter; focused_view stays.
SessionLockEnter ==
    /\ session_locked' = TRUE
    /\ ime_focused_surface' = None
    /\ UNCHANGED <<focused_view, inputVars, methodVars, popups>>
    /\ SendFocus
    /\ Update(ime_active_text_input)

\* session_lock_exit, up to the focusing of the topmost view.
SessionLockExit ==
    /\ session_locked
    /\ session_locked' = FALSE
    /\ UNCHANGED <<ime_focused_surface, focused_view, inputVars, methodVars,
                   updateVars, entered, popups>>

-----------------------------------------------------------------------------
(***************************************************************************)
(* Text inputs.                                                            *)
(***************************************************************************)

\* wl_list_remove.
Without(seq, x) ==
    LET k == CHOOSE i \in DOMAIN seq : seq[i] = x
    IN  [i \in 1 .. Len(seq) - 1 |-> IF i < k THEN seq[i] ELSE seq[i + 1]]

\* handle_new_text_input.
NewTextInput(t) ==
    /\ t \notin Range(text_inputs)
    /\ text_inputs' = <<t>> \o text_inputs
    /\ entered' = [entered EXCEPT ![t] = IF Focuses(t) THEN ime_focused_surface ELSE @]
    /\ UNCHANGED <<enabled, methodVars, focusVars, popups>>
    /\ Update(ime_active_text_input)

\* handle_text_input_enable.
EnableTextInput(t) ==
    /\ t \in Range(text_inputs) \ enabled
    /\ enabled' = enabled \cup {t}
    /\ UNCHANGED <<text_inputs, methodVars, focusVars, entered, popups>>
    /\ Update(ime_active_text_input)

\* handle_text_input_commit: a text input that stays enabled or disabled has
\* news; the input method is told if it is the active one.
CommitTextInput(t) ==
    /\ t \in Range(text_inputs)
    /\ UNCHANGED <<inputVars, methodVars, focusVars, entered, popups>>
    /\ Update(ime_active_text_input)

\* Fault: a text input that is disabled is not replaced.
DisableTextInputUnheard(t) ==
    /\ t \in enabled
    /\ enabled' = enabled \ {t}
    /\ UNCHANGED <<text_inputs, methodVars, focusVars, updateVars, entered, popups>>

\* handle_text_input_disable.
DisableTextInput(t) ==
    /\ t \in enabled
    /\ enabled' = enabled \ {t}
    /\ UNCHANGED <<text_inputs, methodVars, focusVars, entered, popups>>
    /\ Update(ime_active_text_input)

\* handle_text_input_destroy: a text input that was active is forgotten, not
\* sent anything.
TextInputDestroyed(t) ==
    /\ t \in Range(text_inputs)
    /\ text_inputs' = Without(text_inputs, t)
    /\ enabled' = enabled \ {t}
    /\ entered' = [entered EXCEPT ![t] = None]
    /\ UNCHANGED <<methodVars, focusVars, popups>>
    /\ Update(IF ime_active_text_input = t THEN None ELSE ime_active_text_input)

-----------------------------------------------------------------------------
(***************************************************************************)
(* Input methods.                                                          *)
(***************************************************************************)

\* Fault: a new input method waits for the next change to be activated.
NewInputMethodUntold(m) ==
    /\ m \notin Range(input_methods)
    /\ input_methods' = <<m>> \o input_methods
    /\ ime_input_method' = m
    /\ UNCHANGED <<inputVars, focusVars, updateVars, entered, popups>>

\* handle_new_input_method: the newest is preferred.
NewInputMethod(m) ==
    /\ m \notin Range(input_methods)
    /\ input_methods' = <<m>> \o input_methods
    /\ ime_input_method' = m
    /\ UNCHANGED <<inputVars, focusVars, entered, popups>>
    /\ Update(ime_active_text_input)

\* handle_input_method_destroy.  The loop that looks for another one runs to
\* its end and so takes the last of the list.  wlroots destroys the popups of
\* an input method with it, before.
InputMethodDestroyed(m) ==
    /\ m \in Range(input_methods)
    /\ input_methods' = Without(input_methods, m)
    /\ ime_input_method' = IF ime_input_method # m THEN ime_input_method
                           ELSE IF input_methods' = <<>> THEN None
                           ELSE input_methods'[Len(input_methods')]
    /\ popups' = popups \ {m}
    /\ UNCHANGED <<inputVars, focusVars, entered>>
    /\ Update(ime_active_text_input)

\* handle_input_method_commit: what an input method composes, empty or not,
\* goes to the active text input; whose input method it is is not asked.
InputMethodCommit(m, preedit) ==
    /\ m \in Range(input_methods)
    /\ ~session_locked
    /\ ime_active_text_input # None
    /\ composing' = IF preedit THEN composing \cup {ime_active_text_input}
                    ELSE composing \ {ime_active_text_input}
    /\ UNCHANGED <<inputVars, methodVars, focusVars, ime_active_text_input,
                   ime_cursor_rect, activated, shown, entered, popups>>

\* Fault: a new popup is shown as it is.
NewPopupShown(m) ==
    /\ m \in Range(input_methods) \ popups
    /\ popups' = popups \cup {m}
    /\ shown' = shown \cup {m}
    /\ UNCHANGED <<inputVars, methodVars, focusVars, entered, ime_active_text_input,
                   composing, ime_cursor_rect, activated>>

\* handle_input_method_new_popup_surface.
NewPopup(m) ==
    /\ m \in Range(input_methods) \ popups
    /\ popups' = popups \cup {m}
    /\ UNCHANGED <<inputVars, methodVars, focusVars, entered, ime_active_text_input,
                   composing, ime_cursor_rect, activated>>
    /\ UpdatePopups

\* handle_input_popup_destroy.
PopupDestroyed(m) ==
    /\ m \in popups
    /\ popups' = popups \ {m}
    /\ shown' = shown \ {m}
    /\ UNCHANGED <<inputVars, methodVars, focusVars, entered, ime_active_text_input,
                   composing, ime_cursor_rect, activated>>

-----------------------------------------------------------------------------
Next ==
    \/ \E s \in OrNone(Surfaces), view \in BOOLEAN : SetFocus(s, view)
    \/ SessionLockEnter \/ SessionLockExit
    \/ \E t \in TextInputs : \/ NewTextInput(t)
                             \/ EnableTextInput(t)
                             \/ CommitTextInput(t)
                             \/ DisableTextInput(t)
                             \/ TextInputDestroyed(t)
    \/ \E m \in InputMethods : \/ NewInputMethod(m)
                               \/ InputMethodDestroyed(m)
                               \/ \E preedit \in BOOLEAN : InputMethodCommit(m, preedit)
                               \/ NewPopup(m)
                               \/ PopupDestroyed(m)

Spec == Init /\ [][Next]_vars

-----------------------------------------------------------------------------
(***************************************************************************)
(* Properties.                                                             *)
(***************************************************************************)

\* The cached active text input is the one a fresh search would find: every
\* handler that changes the focus, the lock, the list or an enabled flag
\* brings it up to date.
ActiveIsCurrent ==
    ime_active_text_input = IF session_locked THEN None ELSE FoundTextInput

\* A text input has been sent "enter" for the focused surface exactly if that
\* is its client's, the text inputs created after the focus came included.
EnteredFollowsFocus ==
    \A t \in Range(text_inputs) :
        entered[t] = IF Focuses(t) THEN ime_focused_surface ELSE None

\* The input method in use knows whether there is text to compose, also when
\* it took over from another one.
InUseIsTold ==
    ime_input_method # None =>
        (ime_input_method \in activated <=> ime_active_text_input # None)

\* Consistent: what the clients on both sides have been told agrees with what
\* the compositor records.
Consistent == TypeOK /\ EnteredFollowsFocus /\ InUseIsTold

\* Nothing is left on the screen of a text input that is not active any more: one
\* that loses the focus, is disabled, is overtaken by a newer one or locked away
\* has had its preedit string cleared, and popups are up exactly while there is
\* a caret of the active one to put them at.
OnlyActiveShows ==
    /\ composing \subseteq {ime_active_text_input}
    /\ shown = IF WantPopups THEN popups ELSE {}
    /\ shown # {} => ime_cursor_rect = ime_active_text_input
=============================================================================
