------------------------------ MODULE IdleLock ------------------------------
(***************************************************************************)
(* The idle lock of the aswlcomp compositor: the timer that starts a lock  *)
(* client when nobody has touched the session for idle_lock_seconds, and   *)
(* the idle inhibitors (a video player, say) that keep it from doing so.   *)
(* wayland/aswlcomp_input_config.c has the timer and the inhibitors,       *)
(* wayland/aswlcomp_control_lock.c what a lock does to them.               *)
(*                                                                         *)
(* Who holds the lock is the subject of module SessionLock; here a session *)
(* is unlocked, locked by a client, or orphaned by one that died.          *)
(***************************************************************************)
EXTENDS Integers, FiniteSets

CONSTANTS Inhibitors,   \* the inhibitor objects clients can create
          Surfaces,     \* the surfaces they can be created for
          Timeout,      \* idle_lock_seconds, in ticks of the model's clock
          MaxLaunched,  \* bound on the lock clients under way at a time
          MaxEvents     \* bound on what users and clients do

ASSUME IdleLockAssumption ==
    /\ Timeout \in Nat \ {0}
    /\ MaxLaunched \in Nat \ {0}
    /\ MaxEvents \in Nat

VARIABLES
    inhibitors,      \* server->idle_inhibitors: <<inhibitor, its surface>>
    mapped,          \* the surfaces that are mapped
    idle_inhibited,  \* server->idle_inhibited
    timer,           \* ticks left on server->idle_lock_timer, or Off
    session,         \* session_locked and session_lock
    launched,        \* lock clients started that have not asked for the lock
    fired,           \* history: did the timer start one since it was last set?
    idle_for,        \* history: how long the session has been lockable
    events           \* bound: what users and clients have done so far

vars == <<inhibitors, mapped, idle_inhibited, timer, session, launched, fired,
          idle_for, events>>

Off == -1

TypeOK ==
    /\ inhibitors \in SUBSET (Inhibitors \X Surfaces)
    /\ mapped \in SUBSET Surfaces
    /\ idle_inhibited \in BOOLEAN
    /\ timer \in 0..Timeout \cup {Off}
    /\ session \in {"unlocked", "locked", "orphaned"}
    /\ launched \in 0..MaxLaunched
    /\ fired \in BOOLEAN
    /\ idle_for \in 0..Timeout
    /\ events \in 0..MaxEvents

Init ==
    /\ inhibitors = {}
    /\ mapped = {}
    /\ idle_inhibited = FALSE
    /\ timer = Timeout
    /\ session = "unlocked"
    /\ launched = 0
    /\ fired = FALSE
    /\ idle_for = 0
    /\ events = 0

-----------------------------------------------------------------------------
(***************************************************************************)
(* Inhibitors.                                                             *)
(***************************************************************************)

\* aswl_idle_inhibit_is_active: an inhibitor whose surface is mapped counts.
Active == \E e \in inhibitors : e[2] \in mapped

\* An event of the users or the clients, of which there are MaxEvents.
Event ==
    /\ events < MaxEvents
    /\ events' = events + 1

\* Fault: only a timer that is running starts over.
NoteActivityRunning ==
    /\ timer' = IF session' = "unlocked" /\ timer # Off THEN Timeout ELSE timer
    /\ fired' = (fired /\ session' # "unlocked")
    /\ idle_for' = 0

\* aswl_idle_lock_note_activity: start over, unless the session is locked.
NoteActivity ==
    /\ timer' = IF session' = "unlocked" THEN Timeout ELSE timer
    /\ fired' = (fired /\ session' # "unlocked")
    /\ idle_for' = 0

\* Fault: the end of inhibition does not restart the timer.
RefreshNoRestart ==
    /\ idle_inhibited' = Active'
    /\ UNCHANGED <<timer, fired>>
    /\ idle_for' = IF Active \/ Active' THEN 0 ELSE idle_for

\* aswl_idle_inhibit_refresh: bring the cached flag up to date, and restart
\* the timer when inhibition ends.
Refresh ==
    /\ idle_inhibited' = Active'
    /\ IF idle_inhibited /\ ~Active'
       THEN NoteActivity
       ELSE /\ UNCHANGED <<timer, fired>>
            /\ idle_for' = IF Active \/ Active' THEN 0 ELSE idle_for

\* handle_new_idle_inhibitor, for a surface that may or may not be mapped.
NewInhibitor(i, s) ==
    /\ Event
    /\ \A e \in inhibitors : e[1] # i
    /\ inhibitors' = inhibitors \cup {<<i, s>>}
    /\ UNCHANGED <<mapped, session, launched>>
    /\ Refresh

\* handle_idle_inhibitor_destroy, the surface staying.
InhibitorDestroyed(e) ==
    /\ Event
    /\ e \in inhibitors
    /\ inhibitors' = inhibitors \ {e}
    /\ UNCHANGED <<mapped, session, launched>>
    /\ Refresh

\* A surface is mapped: handle_idle_inhibitor_surface_map runs once for each
\* inhibitor of the surface, and for none if it has none.
SurfaceMap(s) ==
    /\ Event
    /\ s \notin mapped
    /\ mapped' = mapped \cup {s}
    /\ UNCHANGED <<inhibitors, session, launched>>
    /\ Refresh

\* Fault: nobody listens to the unmap of an inhibiting surface.
SurfaceUnmapUnheard(s) ==
    /\ Event
    /\ s \in mapped
    /\ mapped' = mapped \ {s}
    /\ UNCHANGED <<inhibitors, session, launched, idle_inhibited, timer, fired>>
    /\ idle_for' = 0

\* handle_idle_inhibitor_surface_unmap, likewise.
SurfaceUnmap(s) ==
    /\ Event
    /\ s \in mapped
    /\ mapped' = mapped \ {s}
    /\ UNCHANGED <<inhibitors, session, launched>>
    /\ Refresh

\* A client takes a surface down: wlroots unmaps it, then destroys the
\* inhibitors it had.
SurfaceDestroyed(s) ==
    /\ Event
    /\ \E e \in inhibitors : e[2] = s
    /\ mapped' = mapped \ {s}
    /\ inhibitors' = {e \in inhibitors : e[2] # s}
    /\ UNCHANGED <<session, launched>>
    /\ Refresh

-----------------------------------------------------------------------------
(***************************************************************************)
(* The timer.                                                              *)
(***************************************************************************)

\* A tick of the clock.
Tick ==
    /\ timer' = IF timer > 0 THEN timer - 1 ELSE timer
    /\ idle_for' = IF session = "unlocked" /\ ~Active /\ idle_for < Timeout
                   THEN idle_for + 1
                   ELSE idle_for
    /\ UNCHANGED <<inhibitors, mapped, idle_inhibited, session, launched, fired,
                   events>>

\* aswl_idle_lock_timer_cb.  The timer is a one-shot: it stays off unless the
\* callback, or activity, sets it again.
TimerLocked ==
    /\ timer = 0
    /\ session # "unlocked"
    /\ timer' = Off
    /\ UNCHANGED <<inhibitors, mapped, idle_inhibited, session, launched, fired,
                   idle_for, events>>

TimerInhibited ==
    /\ timer = 0
    /\ session = "unlocked"
    /\ Active
    /\ timer' = Timeout
    /\ UNCHANGED <<inhibitors, mapped, idle_inhibited, session, launched, fired,
                   idle_for, events>>

\* Fault: the timer does not ask about inhibitors.
TimerFiresInhibited ==
    /\ timer = 0
    /\ session = "unlocked"
    /\ launched < MaxLaunched
    /\ timer' = Off
    /\ launched' = launched + 1
    /\ fired' = TRUE
    /\ UNCHANGED <<inhibitors, mapped, idle_inhibited, session, idle_for, events>>

TimerFires ==
    /\ timer = 0
    /\ session = "unlocked"
    /\ ~Active
    /\ launched < MaxLaunched
    /\ timer' = Off
    /\ launched' = launched + 1
    /\ fired' = TRUE
    /\ UNCHANGED <<inhibitors, mapped, idle_inhibited, session, idle_for, events>>

\* A key, a button, a motion: aswl_idle_note_activity.
Activity ==
    /\ Event
    /\ UNCHANGED <<inhibitors, mapped, idle_inhibited, session, launched>>
    /\ NoteActivity

\* The key bound to ASWL_BINDING_LOCK: activity, then spawn_lock.
LockKey ==
    /\ Event
    /\ session = "unlocked"
    /\ launched < MaxLaunched
    /\ launched' = launched + 1
    /\ UNCHANGED <<inhibitors, mapped, idle_inhibited, session>>
    /\ NoteActivity

-----------------------------------------------------------------------------
(***************************************************************************)
(* What lock clients do.                                                   *)
(***************************************************************************)

\* A started lock client asks for the lock; a second one is refused.  Nothing
\* is done to the timer.
ClientLocks ==
    /\ launched > 0
    /\ launched' = launched - 1
    /\ session' = "locked"
    /\ idle_for' = 0
    /\ UNCHANGED <<inhibitors, mapped, idle_inhibited, timer, fired, events>>

\* A started lock client never gets that far: no such program, a crash.
ClientFails ==
    /\ launched > 0
    /\ launched' = launched - 1
    /\ UNCHANGED <<inhibitors, mapped, idle_inhibited, timer, session, fired,
                   idle_for, events>>

\* Somebody starts a lock client by hand.
OtherLocks ==
    /\ Event
    /\ session # "locked"
    /\ session' = "locked"
    /\ idle_for' = 0
    /\ UNCHANGED <<inhibitors, mapped, idle_inhibited, timer, launched, fired>>

\* handle_session_lock_destroy: the session stays locked, and so is of no
\* interest to the timer.
LockDestroyed ==
    /\ Event
    /\ session = "locked"
    /\ session' = "orphaned"
    /\ UNCHANGED <<inhibitors, mapped, idle_inhibited, timer, launched, fired,
                   idle_for>>

\* Fault: the timer is told before the session is unlocked.
UnlockNotesFirst ==
    /\ Event
    /\ session = "locked"
    /\ session' = "unlocked"
    /\ idle_for' = 0
    /\ UNCHANGED <<inhibitors, mapped, idle_inhibited, timer, launched, fired>>

\* session_lock_exit: the timer starts over once the session is unlocked.
Unlock ==
    /\ Event
    /\ session = "locked"
    /\ session' = "unlocked"
    /\ UNCHANGED <<inhibitors, mapped, idle_inhibited, launched>>
    /\ NoteActivity

-----------------------------------------------------------------------------
Next ==
    \/ \E i \in Inhibitors, s \in Surfaces : NewInhibitor(i, s)
    \/ \E e \in inhibitors : InhibitorDestroyed(e)
    \/ \E s \in Surfaces : \/ SurfaceMap(s)
                           \/ SurfaceUnmap(s)
                           \/ SurfaceDestroyed(s)
    \/ Tick
    \/ TimerLocked \/ TimerInhibited \/ TimerFires
    \/ Activity \/ LockKey
    \/ ClientLocks \/ ClientFails \/ OtherLocks \/ LockDestroyed \/ Unlock

Timer == TimerLocked \/ TimerInhibited \/ TimerFires

\* Time passes, the event loop calls a timer that is due, and a started client
\* comes to ask or to fail.  Nobody has to touch the keyboard or to unlock.
Fairness ==
    /\ WF_vars(Tick)
    /\ WF_vars(Timer)
    /\ WF_vars(ClientLocks \/ ClientFails)

Spec == Init /\ [][Next]_vars /\ Fairness

-----------------------------------------------------------------------------
(***************************************************************************)
(* Properties.                                                             *)
(***************************************************************************)

\* The cached flag says whether an inhibitor is in force, through every order
\* in which surfaces and inhibitors come and go.
CacheCurrent == idle_inhibited <=> Active

\* Consistent: that, and the parts of the state have their types.
Consistent == TypeOK /\ CacheCurrent

\* While the session could be locked the timer measures exactly how long that
\* has been so: the last activity, the end of the last inhibition and the last
\* unlock all start it over, and it is only off after it has started a client.
TimerMeasuresIdleness ==
    session = "unlocked" =>
        /\ fired <=> timer = Off
        /\ ~fired /\ ~Active => timer = Timeout - idle_for

\* The timer starts a lock client only after the whole timeout has passed with
\* no activity, no inhibitor in force and no lock.
LockedOnlyWhenIdle ==
    [][fired' /\ ~fired => idle_for = Timeout /\ ~Active /\ session = "unlocked"]_vars

\* A session left alone is locked, unless an inhibitor is in force or the lock
\* client the timer started is gone without having locked.
Abandoned == fired /\ launched = 0

IdleSessionLocks ==
    (session = "unlocked") ~> (session # "unlocked" \/ Active \/ Abandoned)

\* The last exception only arises when the last started lock client fails: no
\* unlock, loss of a lock or end of an inhibition leaves a session unlocked with
\* its timer spent and nothing under way.
AbandonedByFailure ==
    [][(Abandoned /\ session = "unlocked")' =>
          (Abandoned /\ session = "unlocked") \/ launched' < launched]_vars
=============================================================================
