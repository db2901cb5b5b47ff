---------------------------- MODULE SessionLock ----------------------------
(***************************************************************************)
(* The session lock of the aswlcomp compositor as one protocol between     *)
(* lock clients, the compositor and its outputs: wayland/                   *)
(* aswlcomp_control_lock.c (the ext-session-lock handlers) together with   *)
(* wayland/aswlcomp_output.c (frames, hotplug, output management).         *)
(*                                                                         *)
(* The compositor is one thread that runs one handler at a time, so every  *)
(* action below is one handler from its first line to its last.  Views,    *)
(* lock surfaces and the keyboard are the subject of module Desktop.       *)
(***************************************************************************)
EXTENDS Naturals, FiniteSets

CONSTANTS Outputs,     \* the connectors an output can appear on
          Locks,       \* the lock objects clients can create
          NoLock,      \* session_lock == NULL
          MaxHotplug   \* bound on the hotplug and configuration events

ASSUME SessionLockAssumption ==
    /\ NoLock \notin Locks
    /\ MaxHotplug \in Nat

VARIABLES
    session_locked,            \* server->session_locked
    session_lock,              \* server->session_lock
    session_lock_sent_locked,  \* server->session_lock_sent_locked
    client,                    \* what each lock object has been told
    outputs,                   \* server->outputs
    enabled,                   \* those whose wlr_output is enabled
    needs_frame,               \* those with damage or a scheduled frame
    lock_frame_presented,      \* those with lock_frame_presented set
    lock_rect,                 \* those whose lock_rect node is enabled
    desktop_trees,             \* are layer_trees and xdg_tree enabled?
    shows,                     \* the last picture committed to an output
    hotplugs                   \* bound: events on the set of outputs so far

lockVars   == <<session_locked, session_lock, session_lock_sent_locked, client>>
outputVars == <<outputs, enabled, shows>>
sceneVars  == <<lock_rect, desktop_trees>>
vars == <<lockVars, outputVars, sceneVars, needs_frame, lock_frame_presented,
          hotplugs>>

ClientStates == {"absent", "waiting", "locked", "finished"}
Pictures == {"blank", "desktop", "lock"}

TypeOK ==
    /\ session_locked \in BOOLEAN
    /\ session_lock \in Locks \cup {NoLock}
    /\ session_lock_sent_locked \in BOOLEAN
    /\ client \in [Locks -> ClientStates]
    /\ outputs \in SUBSET Outputs
    /\ enabled \in SUBSET outputs
    /\ needs_frame \in SUBSET outputs
    /\ lock_frame_presented \in SUBSET outputs
    /\ lock_rect \in SUBSET outputs
    /\ desktop_trees \in BOOLEAN
    /\ shows \in [Outputs -> Pictures]
    /\ hotplugs \in 0..MaxHotplug

Init ==
    /\ session_locked = FALSE
    /\ session_lock = NoLock
    /\ session_lock_sent_locked = FALSE
    /\ client = [l \in Locks |-> "absent"]
    /\ outputs = {}
    /\ enabled = {}
    /\ needs_frame = {}
    /\ lock_frame_presented = {}
    /\ lock_rect = {}
    /\ desktop_trees = TRUE
    /\ shows = [o \in Outputs |-> "blank"]
    /\ hotplugs = 0

-----------------------------------------------------------------------------
(***************************************************************************)
(* Lock clients.                                                           *)
(***************************************************************************)

\* Fault: the scene changes, but no output is asked for a frame.
ApplySceneUnscheduled(locked) ==
    /\ desktop_trees' = ~locked
    /\ lock_rect' = IF locked THEN outputs ELSE {}
    /\ needs_frame' = needs_frame

\* session_lock_apply_scene: swap the lock tree (and its rectangle on every
\* output) for the desktop trees and ask every output for a frame.
ApplyScene(locked) ==
    /\ desktop_trees' = ~locked
    /\ lock_rect' = IF locked THEN outputs ELSE {}
    /\ needs_frame' = outputs

\* handle_new_session_lock when another lock object holds the session: the
\* newcomer is sent "finished".
RefuseSessionLock(l) ==
    /\ client[l] = "absent"
    /\ session_lock # NoLock
    /\ client' = [client EXCEPT ![l] = "finished"]
    /\ UNCHANGED <<session_locked, session_lock, session_lock_sent_locked,
                   outputVars, sceneVars, needs_frame, lock_frame_presented,
                   hotplugs>>

\* Fault: the outputs presented for an earlier lock count for this one.
NewSessionLockNoReset(l) ==
    /\ client[l] = "absent"
    /\ session_lock = NoLock
    /\ client' = [client EXCEPT ![l] = "waiting"]
    /\ session_lock' = l
    /\ session_locked' = TRUE
    /\ session_lock_sent_locked' = FALSE
    /\ ApplyScene(TRUE)
    /\ UNCHANGED <<outputVars, lock_frame_presented, hotplugs>>

\* handle_new_session_lock and session_lock_enter, from the desktop or from
\* a session whose lock client died.
NewSessionLock(l) ==
    /\ client[l] = "absent"
    /\ session_lock = NoLock
    /\ client' = [client EXCEPT ![l] = "waiting"]
    /\ session_lock' = l
    /\ session_locked' = TRUE
    /\ session_lock_sent_locked' = FALSE
    /\ lock_frame_presented' = {}
    /\ ApplyScene(TRUE)
    /\ UNCHANGED <<outputVars, hotplugs>>

\* handle_session_lock_unlock: detach, then session_lock_exit.  wlroots lets
\* only a lock object that was sent "locked" ask for it.
Unlock(l) ==
    /\ session_lock = l
    /\ client[l] = "locked"
    /\ client' = [client EXCEPT ![l] = "absent"]
    /\ session_lock' = NoLock
    /\ session_locked' = FALSE
    /\ session_lock_sent_locked' = FALSE
    /\ ApplyScene(FALSE)
    /\ UNCHANGED <<outputVars, lock_frame_presented, hotplugs>>

\* Fault: the desktop comes back with the lock still on.
LockDestroyedShowsDesktop(l) ==
    /\ session_lock = l
    /\ client' = [client EXCEPT ![l] = "absent"]
    /\ session_lock' = NoLock
    /\ session_lock_sent_locked' = FALSE
    /\ ApplyScene(FALSE)
    /\ UNCHANGED <<session_locked, outputVars, lock_frame_presented, hotplugs>>

\* handle_session_lock_destroy: the lock client died or gave up.  The session
\* stays locked and free for another lock client.
LockDestroyed(l) ==
    /\ session_lock = l
    /\ client' = [client EXCEPT ![l] = "absent"]
    /\ session_lock' = NoLock
    /\ session_lock_sent_locked' = FALSE
    /\ ApplyScene(session_locked)
    /\ UNCHANGED <<session_locked, outputVars, lock_frame_presented, hotplugs>>

\* A refused client drops its lock object; no handler listens to it.
RefusedGone(l) ==
    /\ client[l] = "finished"
    /\ client' = [client EXCEPT ![l] = "absent"]
    /\ UNCHANGED <<session_locked, session_lock, session_lock_sent_locked,
                   outputVars, sceneVars, needs_frame, lock_frame_presented,
                   hotplugs>>

-----------------------------------------------------------------------------
(***************************************************************************)
(* Outputs.                                                                *)
(***************************************************************************)

\* The scene as it is now goes to output o; confirm says whether "locked" does
\* too.
PresentFrame(o, waiting, confirm) ==
    /\ o \in enabled
    /\ o \in needs_frame
    /\ needs_frame' = needs_frame \ {o}
    /\ shows' = [shows EXCEPT ![o] = IF desktop_trees THEN "desktop" ELSE "lock"]
    /\ lock_frame_presented' = IF waiting THEN lock_frame_presented \cup {o}
                                          ELSE lock_frame_presented
    /\ session_lock_sent_locked' = (session_lock_sent_locked \/ confirm)
    /\ client' = IF confirm THEN [client EXCEPT ![session_lock] = "locked"]
                            ELSE client
    /\ UNCHANGED <<session_locked, session_lock, outputs, enabled, sceneVars,
                   hotplugs>>

Waiting ==
    session_locked /\ session_lock # NoLock /\ ~session_lock_sent_locked

\* Faults: the first frame confirms; an output that is off must present too.
FrameConfirmsFirst(o) == PresentFrame(o, Waiting, Waiting)

FrameWaitsForAll(o) ==
    PresentFrame(o, Waiting, Waiting /\ outputs \subseteq lock_frame_presented \cup {o})

\* handle_output_frame: commit the scene; while a lock waits for its
\* confirmation, note that this output has shown it and send "locked" as soon
\* as no enabled output is left that has not.
Frame(o) ==
    PresentFrame(o, Waiting, Waiting /\ enabled \subseteq lock_frame_presented \cup {o})

\* A client commits a buffer or the cursor moves: wlroots marks the output.
Damage(o) ==
    /\ o \in outputs
    /\ needs_frame' = needs_frame \cup {o}
    /\ UNCHANGED <<lockVars, outputVars, sceneVars, lock_frame_presented,
                   hotplugs>>

\* Fault: a new output gets no rectangle while locked.
NewOutputNoRect(o) ==
    /\ hotplugs < MaxHotplug
    /\ o \notin outputs
    /\ outputs' = outputs \cup {o}
    /\ enabled' = enabled \cup {o}
    /\ shows' = [shows EXCEPT ![o] = "blank"]
    /\ lock_frame_presented' = lock_frame_presented \ {o}
    /\ needs_frame' = needs_frame \cup {o}
    /\ hotplugs' = hotplugs + 1
    /\ UNCHANGED <<lockVars, sceneVars>>

\* handle_new_output.  The saved configuration may say that the output is off.
NewOutput(o) ==
    /\ hotplugs < MaxHotplug
    /\ o \notin outputs
    /\ outputs' = outputs \cup {o}
    /\ \E on \in BOOLEAN : enabled' = IF on THEN enabled \cup {o} ELSE enabled
    /\ shows' = [shows EXCEPT ![o] = "blank"]
    /\ lock_frame_presented' = lock_frame_presented \ {o}
    /\ lock_rect' = IF session_locked THEN outputs' ELSE {}
    /\ \E moved \in SUBSET outputs : needs_frame' = needs_frame \cup moved \cup {o}
    /\ hotplugs' = hotplugs + 1
    /\ UNCHANGED <<lockVars, desktop_trees>>

\* handle_output_destroy.  Nothing asks again whether every output has shown
\* the lock; the layout may or may not move (and so damage) the others.
OutputDestroyed(o) ==
    /\ hotplugs < MaxHotplug
    /\ o \in outputs
    /\ outputs' = outputs \ {o}
    /\ enabled' = enabled \ {o}
    /\ shows' = [shows EXCEPT ![o] = "blank"]
    /\ lock_frame_presented' = lock_frame_presented \ {o}
    /\ lock_rect' = IF session_locked THEN outputs' ELSE {}
    /\ \E moved \in SUBSET outputs' : needs_frame' = (needs_frame \ {o}) \cup moved
    /\ hotplugs' = hotplugs + 1
    /\ UNCHANGED <<lockVars, desktop_trees>>

\* handle_output_manager_apply with a configuration the backend accepts: turn
\* outputs on and off.  An output that was off comes back black.
ApplyConfig(on) ==
    /\ hotplugs < MaxHotplug
    /\ on \in SUBSET outputs
    /\ on # enabled
    /\ enabled' = on
    /\ shows' = [o \in Outputs |->
                   IF o \in on /\ o \in enabled THEN shows[o] ELSE "blank"]
    /\ lock_rect' = IF session_locked THEN outputs ELSE {}
    /\ \E moved \in SUBSET outputs :
          needs_frame' = needs_frame \cup moved \cup (on \ enabled)
    /\ hotplugs' = hotplugs + 1
    /\ UNCHANGED <<lockVars, desktop_trees, outputs, lock_frame_presented>>

-----------------------------------------------------------------------------
Next ==
    \/ \E l \in Locks : \/ RefuseSessionLock(l)
                        \/ NewSessionLock(l)
                        \/ Unlock(l)
                        \/ LockDestroyed(l)
                        \/ RefusedGone(l)
    \/ \E o \in Outputs : \/ Frame(o)
                          \/ Damage(o)
                          \/ NewOutput(o)
                          \/ OutputDestroyed(o)
    \/ \E on \in SUBSET Outputs : ApplyConfig(on)

\* The backend delivers a frame event to every enabled output that has one
\* scheduled; nobody is obliged to lock, unlock or touch the outputs.
Fairness == \A o \in Outputs : WF_vars(Frame(o))

Spec == Init /\ [][Next]_vars /\ Fairness

-----------------------------------------------------------------------------
(***************************************************************************)
(* Properties.                                                             *)
(***************************************************************************)

Locking == session_lock # NoLock /\ ~session_lock_sent_locked

\* Once the lock client has been told "locked", and until it unlocks or dies,
\* no output that is on shows the desktop: outputs plugged in, turned on or
\* turned off during the handshake included.
ConfirmedHidesDesktop ==
    session_lock_sent_locked => \A o \in enabled : shows[o] # "desktop"

\* A session whose lock client died still shows no more of the desktop than
\* it did before: every output whose frame was presented stays covered.
PresentedStaysCovered ==
    session_locked => \A o \in lock_frame_presented \cap enabled : shows[o] # "desktop"

\* The compositor's flags and what the lock client has heard agree, so that
\* wlroots never sees a second "locked" for one lock object and a client that
\* may unlock is always the one that holds the session.
SentMatchesClient ==
    /\ \A l \in Locks : client[l] = "locked" <=> session_lock = l /\ session_lock_sent_locked
    /\ \A l \in Locks : client[l] = "waiting" <=> session_lock = l /\ ~session_lock_sent_locked
    /\ session_lock_sent_locked => session_lock # NoLock
    /\ session_lock # NoLock => session_locked

\* The backstop rectangle of every output is up exactly while locked, the
\* outputs that appeared or moved in the meantime included, and the desktop's
\* trees are off exactly then.
SceneMatchesLock ==
    /\ lock_rect = IF session_locked THEN outputs ELSE {}
    /\ desktop_trees = ~session_locked

\* Consistent: the flags, the scene, and what the lock clients were told are
\* records of one fact, written by different handlers, and agree.
Consistent == TypeOK /\ SentMatchesClient /\ SceneMatchesLock

\* Only the client that was told "locked" can end the lock: the death of a
\* lock client, a refused one and every output event leave it in place.
UnlockedByHolder ==
    [][session_locked /\ ~session_locked' =>
         session_lock # NoLock /\ client[session_lock] = "locked"]_vars

\* The one state in which the handshake waits for nothing: the last output
\* that had not shown the lock went away and no other asks for a frame.
Stalled ==
    /\ Locking
    /\ enabled \subseteq lock_frame_presented
    /\ needs_frame \cap enabled = {}

\* Every lock request is answered: "locked" is sent, or the lock object goes
\* away, or every output is off or gone, or the handshake is in the one state
\* in which a removed output has left it waiting.
LockAnswered ==
    Locking ~> (~Locking \/ Stalled)

\* That state is only entered by losing an output: as long as none is removed
\* or turned off, whatever else happens to outputs and clients, the handshake
\* has a frame to wait for that will carry it on.
StallsByRemoval ==
    [][Stalled' /\ enabled' # {} => Stalled \/ ~(enabled \subseteq enabled')]_vars

\* The abstract promise: see module LockPromise.
Promise == INSTANCE LockPromise WITH
    phase <- IF ~session_locked THEN "unlocked"
             ELSE IF session_lock = NoLock THEN "orphaned"
             ELSE IF session_lock_sent_locked THEN "locked" ELSE "locking",
    exposed <- {o \in Outputs : shows[o] = "desktop"}

PromiseKept == Promise!Spec
=============================================================================
