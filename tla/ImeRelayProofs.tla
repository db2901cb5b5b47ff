---------------------------- MODULE ImeRelayProofs ----------------------------
(***************************************************************************)
(* Proofs about module ImeRelay, for any clients, text inputs, input       *)
(* methods and surfaces.                                                   *)
(***************************************************************************)
EXTENDS ImeRelay, WellFoundedInduction, TLAPS

Distinct(seq) == \A i, j \in DOMAIN seq : seq[i] = seq[j] => i = j

\* What the handlers change before they bring the relay up to date.  While locked
\* nobody has the focus; some input method is in use whenever there is one.
ListsOK ==
    /\ session_locked \in BOOLEAN
    /\ ime_focused_surface \in OrNone(Surfaces)
    /\ focused_view \in BOOLEAN
    /\ session_locked => ime_focused_surface = None
    /\ text_inputs \in Seq(TextInputs) /\ Distinct(text_inputs)
    /\ enabled \in SUBSET Range(text_inputs)
    /\ input_methods \in Seq(InputMethods) /\ Distinct(input_methods)
    /\ ime_input_method \in OrNone(Range(input_methods))
    /\ ime_input_method = None => Range(input_methods) = {}
    /\ popups \in SUBSET Range(input_methods)

\* Enter events, also for what will yet be created: it starts with none.
EnteredOK ==
    /\ entered \in [TextInputs -> OrNone(Surfaces)]
    /\ \A t \in TextInputs :
         entered[t] = IF t \in Range(text_inputs) /\ Focuses(t) THEN ime_focused_surface ELSE None

\* What Update leaves.  The caret may be out of date, but only while there is no
\* popup to put at it.
RelayOK ==
    /\ ActiveIsCurrent
    /\ InUseIsTold
    /\ OnlyActiveShows
    /\ ime_active_text_input \in OrNone(Range(text_inputs))
    /\ composing \in SUBSET Range(text_inputs)
    /\ activated \in SUBSET Range(input_methods)
    /\ shown \in SUBSET popups
    /\ ime_cursor_rect \in OrNone(TextInputs)
    /\ ime_input_method # None /\ ime_active_text_input # None =>
         ime_cursor_rect \in {None, ime_active_text_input}

(***************************************************************************)
(* The inductive invariant: a handler that changes the first part brings   *)
(* the third up to date, and those that have the focus change tell the     *)
(* clients (the second).                                                   *)
(***************************************************************************)
IInv == ListsOK /\ EnteredOK /\ RelayOK

-----------------------------------------------------------------------------
\* The least number principle.
LEMMA Least ==
    ASSUME NEW T, T \subseteq Nat, T # {}
    PROVE  \E n \in T : \A m \in T : n <= m
<1> DEFINE R == OpToRel(<, Nat)
<1>1. IsWellFoundedOn(R, Nat)
  BY NatLessThanWellFounded
<1>2. \A m, n \in Nat : <<m, n>> \in R <=> m < n
  BY DEF OpToRel
<1> HIDE DEF R
<1>3. PICK n \in T : \A m \in T : ~(<<m, n>> \in R)
  BY <1>1, WFMin
<1>4. n \in Nat
  OBVIOUS
<1>5. ASSUME NEW m \in T PROVE n <= m
  <2>1. m \in Nat
    OBVIOUS
  <2>2. ~(m < n)
    BY <1>2, <1>3, <1>4, <2>1
  <2> QED
    BY <1>4, <2>1, <2>2
<1> QED
  BY <1>5

\* A list with a new head has that element and the others.
LEMMA Prepended ==
    ASSUME NEW S, NEW seq \in Seq(S), Distinct(seq), NEW x \in S, x \notin Range(seq)
    PROVE  /\ <<x>> \o seq \in Seq(S)
           /\ Range(<<x>> \o seq) = Range(seq) \cup {x}
           /\ Distinct(<<x>> \o seq)
<1> DEFINE a == <<x>> \o seq
           n == Len(seq)
<1>1. /\ a \in Seq(S) /\ n \in Nat /\ DOMAIN seq = 1 .. n /\ DOMAIN a = 1 .. n + 1
      /\ \A i \in 2 .. n + 1 : a[i] = seq[i - 1]
      /\ a[1] = x
  OBVIOUS
<1> HIDE DEF a, n
<1>2. \A i \in DOMAIN a : a[i] \in Range(seq) \cup {x}
  BY <1>1, SMTT(20) DEF Range
<1>3. \A i \in 1 .. n : i + 1 \in DOMAIN a /\ a[i + 1] = seq[i]
  BY <1>1
<1>4. ASSUME NEW i \in DOMAIN seq PROVE seq[i] \in Range(a)
  <2>1. i + 1 \in DOMAIN a /\ a[i + 1] = seq[i]
    BY <1>1, <1>3
  <2> QED
    BY <2>1 DEF Range
<1>5. x \in Range(a)
  BY <1>1 DEF Range
<1>6. Range(a) = Range(seq) \cup {x}
  BY <1>2, <1>4, <1>5 DEF Range
<1>7. ASSUME NEW i \in 2 .. n + 1 PROVE i - 1 \in DOMAIN seq /\ a[i] = seq[i - 1] /\ a[i] # x
  <2>1. i - 1 \in DOMAIN seq /\ a[i] = seq[i - 1]
    BY <1>1
  <2> QED
    BY <2>1 DEF Range
<1>8. ASSUME NEW i \in DOMAIN a, NEW j \in DOMAIN a, a[i] = a[j] PROVE i = j
  <2>1. i \in 2 .. n + 1 \/ i = 1
    BY <1>1
  <2>2. j \in 2 .. n + 1 \/ j = 1
    BY <1>1
  <2>3. CASE i \in 2 .. n + 1 /\ j \in 2 .. n + 1
    <3>1. i - 1 = j - 1
      BY <1>7, <1>8, <2>3 DEF Distinct
    <3> QED
      BY <2>3, <3>1
  <2> QED
    BY <1>1, <1>7, <1>8, <2>1, <2>2, <2>3
<1>9. Distinct(a)
  BY <1>8 DEF Distinct
<1> QED
  BY <1>1, <1>6, <1>9 DEF a

\* Of a list that has x once, wl_list_remove leaves the others, each once.
LEMMA Removed ==
    ASSUME NEW S, NEW seq \in Seq(S), Distinct(seq), NEW x \in Range(seq)
    PROVE  /\ Without(seq, x) \in Seq(S)
           /\ Range(Without(seq, x)) = Range(seq) \ {x}
           /\ Distinct(Without(seq, x))
<1> DEFINE k == CHOOSE i \in DOMAIN seq : seq[i] = x
           n == Len(seq) - 1
           w == [i \in 1 .. n |-> IF i < k THEN seq[i] ELSE seq[i + 1]]
<1>1. k \in DOMAIN seq /\ seq[k] = x
  BY DEF Range
<1>2. Without(seq, x) = w
  BY DEF Without
<1> HIDE DEF k
<1>3. DOMAIN seq = 1 .. n + 1 /\ n \in Nat /\ k \in 1 .. n + 1
  BY <1>1
<1>4. w \in Seq(S)
  BY <1>3
<1>5. DOMAIN w = 1 .. n /\ \A i \in 1 .. n : w[i] = IF i < k THEN seq[i] ELSE seq[i + 1]
  OBVIOUS
<1> HIDE DEF w, n
<1>6. ASSUME NEW i \in DOMAIN w, NEW j \in DOMAIN w, w[i] = w[j] PROVE i = j
  <2> DEFINE At(l) == IF l < k THEN l ELSE l + 1
  <2>1. At(i) \in DOMAIN seq /\ At(j) \in DOMAIN seq /\ seq[At(i)] = seq[At(j)]
    BY <1>3, <1>5, <1>6
  <2>2. At(i) = At(j)
    BY <2>1 DEF Distinct
  <2> QED
    BY <1>3, <1>5, <2>2
<1>7. ASSUME NEW i \in DOMAIN w PROVE w[i] \in Range(seq) \ {x}
  BY <1>1, <1>3, <1>5, SMTT(20) DEF Distinct, Range
<1>8. ASSUME NEW y \in Range(seq), y # x PROVE y \in Range(w)
  <2>1. PICK j \in 1 .. n + 1 : seq[j] = y
    BY <1>3 DEF Range
  <2>2. j # k
    BY <1>1, <1>8, <2>1
  <2>3. CASE j < k
    <3>1. j \in DOMAIN w /\ w[j] = y
      BY <1>3, <1>5, <2>1, <2>3
    <3> QED
      BY <3>1 DEF Range
  <2>4. CASE j > k
    <3>1. j - 1 \in DOMAIN w /\ w[j - 1] = y
      BY <1>3, <1>5, <2>1, <2>4
    <3> QED
      BY <3>1 DEF Range
  <2> QED
    BY <1>3, <2>1, <2>2, <2>3, <2>4
<1>9. Range(w) = Range(seq) \ {x}
  BY <1>7, <1>8 DEF Range
<1>10. Distinct(w)
  BY <1>6 DEF Distinct
<1> QED
  BY <1>2, <1>4, <1>9, <1>10

\* The search finds a text input of the list, or nothing.
FoundOK ==
    /\ FoundTextInput \in OrNone(Range(text_inputs))
    /\ ime_focused_surface = None => FoundTextInput = None

LEMMA FoundListed == ListsOK => FoundOK
<1> SUFFICES ASSUME ListsOK PROVE FoundOK
  OBVIOUS
<1>1. CASE \E i \in DOMAIN text_inputs : Wanted(i)
  <2>1. ime_focused_surface # None
    BY <1>1 DEF Wanted, Focuses
  <2>2. \E i \in DOMAIN text_inputs : Wanted(i) /\ \A j \in 1 .. i - 1 : ~Wanted(j)
    <3> DEFINE T == {i \in DOMAIN text_inputs : Wanted(i)}
    <3>1. T \subseteq Nat /\ T # {} /\ DOMAIN text_inputs = 1 .. Len(text_inputs)
      BY <1>1 DEF ListsOK
    <3>2. PICK n \in T : \A m \in T : n <= m
      BY <3>1, Least
    <3>3. n \in DOMAIN text_inputs /\ Wanted(n) /\ n \in Nat
      BY <3>1
    <3>4. ASSUME NEW j \in 1 .. n - 1 PROVE ~Wanted(j)
      <4>1. j \in DOMAIN text_inputs /\ ~(n <= j)
        BY <3>1, <3>3
      <4> QED
        BY <3>2, <4>1
    <3> QED
      BY <3>3, <3>4
  <2> QED
    BY <1>1, <2>1, <2>2 DEF FoundOK, FoundTextInput, OrNone, Range
<1>2. CASE ~\E i \in DOMAIN text_inputs : Wanted(i)
  BY <1>2 DEF FoundOK, FoundTextInput, OrNone
<1> QED
  BY <1>1, <1>2

LEMMA FoundListedAfter == ListsOK' => FoundOK'
BY FoundListed, PTL

-----------------------------------------------------------------------------
\* Whatever a handler did to the lists, the focus and the lock: if it ends with
\* aswl_ime_update, the relay is right again.  It names the text input that was
\* active, so that its preedit is cleared, unless that one is gone.
LEMMA Updated ==
    ASSUME IInv, ListsOK', NEW old, Update(old),
           old = ime_active_text_input \/ ime_active_text_input \notin Range(text_inputs')
    PROVE  RelayOK'
<1> USE ImeRelayAssumption
<1> DEFINE t == ime_active_text_input'
           m == ime_input_method'
<1>1. ActiveIsCurrent'
  BY DEF Update, ActiveIsCurrent
<1>2. t \in OrNone(Range(text_inputs'))
  <2>1. FoundTextInput' \in OrNone(Range(text_inputs'))
    BY FoundListedAfter DEF FoundOK
  <2> QED
    BY <2>1 DEF Update, OrNone
<1>3. Range(text_inputs') \subseteq TextInputs /\ Range(input_methods') \subseteq InputMethods
  BY DEF ListsOK, Range
<1>4. activated' = ((activated \cap Range(input_methods')) \ {m})
                     \cup (IF m # None /\ t # None THEN {m} ELSE {})
  BY DEF Update
<1>5. m \in OrNone(Range(input_methods'))
  BY DEF ListsOK
<1>6. activated' \in SUBSET Range(input_methods')
  BY <1>4, <1>5 DEF OrNone
<1>7. InUseIsTold'
  BY <1>4 DEF InUseIsTold
<1>8. composing' = {u \in composing \cap Range(text_inputs') : u = old => u = t}
  BY DEF Update, ClearPreedit
<1>9. composing' \in SUBSET Range(text_inputs') /\ composing' \subseteq {t}
  BY <1>8 DEF IInv, RelayOK, OnlyActiveShows
<1>10. ime_cursor_rect' = IF m = None \/ t = None THEN ime_cursor_rect
                          ELSE IF t \in Carets THEN t ELSE None
  BY DEF Update
<1>11. ime_cursor_rect' \in OrNone(TextInputs)
  BY <1>2, <1>3, <1>10 DEF IInv, RelayOK, OrNone
<1>12. m # None /\ t # None => ime_cursor_rect' \in {None, t}
  BY <1>10
<1>13. shown' = IF WantPopups' THEN popups' ELSE {}
  BY DEF Update, UpdatePopups
<1>14. shown' \in SUBSET popups'
  BY <1>13
<1>15. shown' # {} => ime_cursor_rect' = t
  <2>1. SUFFICES ASSUME shown' # {} PROVE ime_cursor_rect' = t
    OBVIOUS
  <2>2. t # None /\ ime_cursor_rect' # None /\ popups' # {}
    BY <1>13, <2>1 DEF WantPopups
  <2>3. m # None
    BY <2>2 DEF ListsOK
  <2> QED
    BY <1>12, <2>2, <2>3
<1> QED
  BY <1>1, <1>2, <1>6, <1>7, <1>9, <1>11, <1>12, <1>13, <1>14, <1>15 DEF RelayOK, OnlyActiveShows

-----------------------------------------------------------------------------
\* Focus and lock

LEMMA SendFocusEntered ==
    ASSUME ListsOK', SendFocus
    PROVE  EnteredOK'
BY DEF ListsOK, SendFocus, EnteredOK, OrNone

LEMMA SetFocusStep ==
    ASSUME IInv, NEW s \in OrNone(Surfaces), NEW view \in BOOLEAN, SetFocus(s, view)
    PROVE  IInv'
<1>1. ListsOK'
  BY DEF IInv, ListsOK, SetFocus, inputVars, methodVars, OrNone
<1>2. EnteredOK'
  BY <1>1, SendFocusEntered DEF SetFocus
<1>3. RelayOK'
  BY <1>1, Updated DEF SetFocus
<1> QED
  BY <1>1, <1>2, <1>3 DEF IInv

LEMMA LockStep ==
    ASSUME IInv, SessionLockEnter
    PROVE  IInv'
<1>1. ListsOK'
  BY DEF IInv, ListsOK, SessionLockEnter, inputVars, methodVars, OrNone
<1>2. EnteredOK'
  BY <1>1, SendFocusEntered DEF SessionLockEnter
<1>3. RelayOK'
  BY <1>1, Updated DEF SessionLockEnter
<1> QED
  BY <1>1, <1>2, <1>3 DEF IInv

\* After the unlock nobody has the focus yet, so that nothing is to be found.
LEMMA UnlockStep ==
    ASSUME IInv, SessionLockExit
    PROVE  IInv'
<1> USE DEF SessionLockExit, inputVars, methodVars, updateVars
<1>1. ListsOK'
  BY DEF IInv, ListsOK
<1>2. EnteredOK'
  BY DEF IInv, EnteredOK, Focuses
<1>3. FoundTextInput' = None
  <2>1. ime_focused_surface' = None
    BY DEF IInv, ListsOK
  <2> QED
    BY <1>1, <2>1, FoundListedAfter DEF FoundOK
<1>4. ime_active_text_input = None
  BY DEF IInv, RelayOK, ActiveIsCurrent
<1>5. WantPopups' = WantPopups
  BY <1>4 DEF WantPopups
<1>6. RelayOK'
  BY <1>3, <1>4, <1>5 DEF IInv, RelayOK, ActiveIsCurrent, InUseIsTold, OnlyActiveShows
<1> QED
  BY <1>1, <1>2, <1>6 DEF IInv

-----------------------------------------------------------------------------
\* Text inputs

LEMMA NewTextInputStep ==
    ASSUME IInv, NEW t \in TextInputs, NewTextInput(t)
    PROVE  IInv'
<1> USE DEF NewTextInput, methodVars, focusVars
<1>1. /\ text_inputs' \in Seq(TextInputs)
      /\ Range(text_inputs') = Range(text_inputs) \cup {t}
      /\ Distinct(text_inputs')
  BY Prepended DEF IInv, ListsOK
<1>2. ListsOK'
  BY <1>1 DEF IInv, ListsOK
<1>3. EnteredOK'
  BY <1>1 DEF IInv, EnteredOK, ListsOK, Focuses
<1>4. RelayOK'
  BY <1>2, Updated
<1> QED
  BY <1>2, <1>3, <1>4 DEF IInv

LEMMA EnabledStep ==
    ASSUME IInv, NEW t \in TextInputs,
           EnableTextInput(t) \/ CommitTextInput(t) \/ DisableTextInput(t)
    PROVE  IInv'
<1> USE DEF EnableTextInput, CommitTextInput, DisableTextInput, inputVars, methodVars, focusVars
<1>1. ListsOK'
  BY DEF IInv, ListsOK
<1>2. EnteredOK'
  BY DEF IInv, EnteredOK, Focuses
<1>3. RelayOK'
  BY <1>1, Updated
<1> QED
  BY <1>1, <1>2, <1>3 DEF IInv

LEMMA TextInputDestroyedStep ==
    ASSUME IInv, NEW t \in TextInputs, TextInputDestroyed(t)
    PROVE  IInv'
<1> USE DEF TextInputDestroyed, methodVars, focusVars
<1>1. /\ text_inputs' \in Seq(TextInputs)
      /\ Range(text_inputs') = Range(text_inputs) \ {t}
      /\ Distinct(text_inputs')
  BY Removed DEF IInv, ListsOK
<1>2. ListsOK'
  BY <1>1 DEF IInv, ListsOK
<1>3. EnteredOK'
  BY <1>1 DEF IInv, EnteredOK, ListsOK, Focuses, OrNone
<1>4. RelayOK'
  BY <1>1, <1>2, Updated
<1> QED
  BY <1>2, <1>3, <1>4 DEF IInv

-----------------------------------------------------------------------------
\* Input methods

LEMMA NewInputMethodStep ==
    ASSUME IInv, NEW m \in InputMethods, NewInputMethod(m)
    PROVE  IInv'
<1> USE DEF NewInputMethod, inputVars, focusVars
<1>1. /\ input_methods' \in Seq(InputMethods)
      /\ Range(input_methods') = Range(input_methods) \cup {m}
      /\ Distinct(input_methods')
  BY Prepended DEF IInv, ListsOK
<1>2. ListsOK'
  BY <1>1, ImeRelayAssumption DEF IInv, ListsOK, OrNone
<1>3. EnteredOK'
  BY DEF IInv, EnteredOK, Focuses
<1>4. RelayOK'
  BY <1>2, Updated
<1> QED
  BY <1>2, <1>3, <1>4 DEF IInv

\* Of a list that is not empty the last is in use next.
LEMMA InputMethodDestroyedStep ==
    ASSUME IInv, NEW m \in InputMethods, InputMethodDestroyed(m)
    PROVE  IInv'
<1> USE DEF InputMethodDestroyed, inputVars, focusVars
<1>1. /\ input_methods' \in Seq(InputMethods)
      /\ Range(input_methods') = Range(input_methods) \ {m}
      /\ Distinct(input_methods')
  BY Removed DEF IInv, ListsOK
<1>2. ASSUME input_methods' # <<>>
      PROVE  input_methods'[Len(input_methods')] \in Range(input_methods')
  <2>1. Len(input_methods') \in DOMAIN input_methods'
    BY <1>1, <1>2
  <2> QED
    BY <2>1 DEF Range
<1>3. input_methods' = <<>> => Range(input_methods') = {}
  BY DEF Range
<1>4. None \notin Range(input_methods')
  BY <1>1, ImeRelayAssumption DEF Range
<1>5. ime_input_method' \in OrNone(Range(input_methods'))
  BY <1>1, <1>2 DEF IInv, ListsOK, OrNone
<1>6. ime_input_method' = None => Range(input_methods') = {}
  <2>1. CASE ime_input_method # m
    BY <1>1, <2>1 DEF IInv, ListsOK
  <2>2. CASE ime_input_method = m
    BY <1>2, <1>3, <1>4, <2>2
  <2> QED
    BY <2>1, <2>2
<1>7. popups' \in SUBSET Range(input_methods')
  BY <1>1 DEF IInv, ListsOK
<1>8. ListsOK'
  BY <1>1, <1>5, <1>6, <1>7 DEF IInv, ListsOK
<1>9. EnteredOK'
  BY DEF IInv, EnteredOK, Focuses
<1>10. RelayOK'
  BY <1>8, Updated
<1> QED
  BY <1>8, <1>9, <1>10 DEF IInv

LEMMA InputMethodCommitStep ==
    ASSUME IInv, NEW m \in InputMethods, NEW preedit \in BOOLEAN, InputMethodCommit(m, preedit)
    PROVE  IInv'
<1> USE DEF InputMethodCommit, inputVars, methodVars, focusVars
<1>1. ListsOK'
  BY DEF IInv, ListsOK
<1>2. EnteredOK'
  BY DEF IInv, EnteredOK, Focuses
<1>3. FoundTextInput' = FoundTextInput /\ WantPopups' = WantPopups
  BY DEF FoundTextInput, Wanted, Focuses, WantPopups
<1>4. composing' \in SUBSET Range(text_inputs') /\ composing' \subseteq {ime_active_text_input'}
  BY DEF IInv, RelayOK, OnlyActiveShows, OrNone
<1>5. RelayOK'
  BY <1>3, <1>4 DEF IInv, RelayOK, ActiveIsCurrent, InUseIsTold, OnlyActiveShows
<1> QED
  BY <1>1, <1>2, <1>5 DEF IInv

\* A popup is up only when some input method is in use, which knows the caret.
LEMMA PopupStep ==
    ASSUME IInv, NEW m \in InputMethods, NewPopup(m) \/ PopupDestroyed(m)
    PROVE  IInv'
<1> USE DEF NewPopup, PopupDestroyed, inputVars, methodVars, focusVars
<1>1. ListsOK'
  BY DEF IInv, ListsOK
<1>2. EnteredOK'
  BY DEF IInv, EnteredOK, Focuses
<1>3. FoundTextInput' = FoundTextInput /\ WantPopups' = WantPopups
  <2>1. UNCHANGED <<text_inputs, enabled, ime_focused_surface, session_locked, focused_view,
                    ime_active_text_input, ime_cursor_rect>>
    OBVIOUS
  <2> QED
    BY <2>1 DEF FoundTextInput, Wanted, Focuses, WantPopups
<1>4. shown' = IF WantPopups THEN popups' ELSE {}
  BY <1>3 DEF UpdatePopups, IInv, RelayOK, OnlyActiveShows
<1>5. shown' # {} => ime_cursor_rect = ime_active_text_input
  <2>1. SUFFICES ASSUME shown' # {} PROVE ime_cursor_rect = ime_active_text_input
    OBVIOUS
  <2>2. popups' # {} /\ ime_active_text_input # None /\ ime_cursor_rect # None
    BY <1>4, <2>1 DEF WantPopups
  <2>3. ime_input_method # None
    BY <1>1, <2>2 DEF ListsOK
  <2> QED
    BY <2>2, <2>3 DEF IInv, RelayOK
<1>6. RelayOK'
  BY <1>3, <1>4, <1>5 DEF IInv, RelayOK, ActiveIsCurrent, InUseIsTold, OnlyActiveShows
<1> QED
  BY <1>1, <1>2, <1>6 DEF IInv

-----------------------------------------------------------------------------
LEMMA Initially == Init => IInv
<1> SUFFICES ASSUME Init PROVE IInv
  OBVIOUS
<1> USE DEF Init
<1>1. Range(<<>>) = {} /\ Distinct(<<>>) /\ <<>> \in Seq(TextInputs) /\ <<>> \in Seq(InputMethods)
  BY DEF Range, Distinct
<1>2. ListsOK
  BY <1>1 DEF ListsOK, OrNone
<1>3. EnteredOK
  BY <1>1 DEF EnteredOK, OrNone
<1>4. FoundTextInput = None /\ ~WantPopups
  BY DEF FoundTextInput, WantPopups
<1>5. RelayOK
  BY <1>1, <1>4 DEF RelayOK, ActiveIsCurrent, InUseIsTold, OnlyActiveShows, OrNone
<1> QED
  BY <1>2, <1>3, <1>5 DEF IInv

LEMMA Inductive == IInv /\ [Next]_vars => IInv'
<1> SUFFICES ASSUME IInv, [Next]_vars PROVE IInv'
  OBVIOUS
<1>1. CASE UNCHANGED vars
  <2> USE <1>1 DEF vars, inputVars, methodVars, focusVars, updateVars
  <2>1. FoundTextInput' = FoundTextInput /\ WantPopups' = WantPopups
    BY DEF FoundTextInput, Wanted, Focuses, WantPopups
  <2>2. ListsOK' /\ EnteredOK'
    BY DEF IInv, ListsOK, EnteredOK, Focuses
  <2>3. RelayOK'
    BY <2>1 DEF IInv, RelayOK, ActiveIsCurrent, InUseIsTold, OnlyActiveShows
  <2> QED
    BY <2>2, <2>3 DEF IInv
<1>2. CASE Next
  BY <1>2, SetFocusStep, LockStep, UnlockStep, NewTextInputStep, EnabledStep,
     TextInputDestroyedStep, NewInputMethodStep, InputMethodDestroyedStep,
     InputMethodCommitStep, PopupStep DEF Next
<1> QED
  BY <1>1, <1>2

LEMMA Invariance == Spec => []IInv
BY Initially, Inductive, PTL DEF Spec

\* Whatever clients and input methods do in whatever order, the cached active text
\* input is the newest enabled one of the focused client (handlers of
\* aswlcomp_ime.c and the focus and lock handlers).
THEOREM ActiveStaysCurrent == Spec => []ActiveIsCurrent
<1>1. IInv => ActiveIsCurrent
  BY DEF IInv, RelayOK
<1> QED
  BY <1>1, Invariance, PTL

\* Nothing is left on the screen of a text input that is not active: no preedit
\* string, and no popup at a caret of another one.
THEOREM NothingLeftShown == Spec => []OnlyActiveShows
<1>1. IInv => OnlyActiveShows
  BY DEF IInv, RelayOK
<1> QED
  BY <1>1, Invariance, PTL

\* The state has its type, clients have been sent the enter events that the focus
\* calls for, and the input method in use knows whether it is active.
THEOREM RelayAgrees == Spec => []Consistent
<1>1. IInv => Consistent
  <2> SUFFICES ASSUME IInv PROVE Consistent
    OBVIOUS
  <2>1. TypeOK
    BY DEF IInv, ListsOK, EnteredOK, RelayOK, TypeOK, OrNone
  <2>2. EnteredFollowsFocus
    BY DEF IInv, ListsOK, EnteredOK, EnteredFollowsFocus, Range
  <2> QED
    BY <2>1, <2>2 DEF IInv, RelayOK, Consistent
<1> QED
  BY <1>1, Invariance, PTL
=============================================================================
