------------------------- MODULE SessionLockProofs -------------------------
(***************************************************************************)
(* Proofs about module SessionLock, for every set of outputs and locks.    *)
(***************************************************************************)
EXTENDS SessionLock, TLAPS

-----------------------------------------------------------------------------
(***************************************************************************)
(* The inductive invariant.  It is the conjunction of the safety           *)
(* properties of SessionLock, none of which is inductive alone: that no     *)
(* output shows the desktop when "locked" is sent follows only from what    *)
(* the outputs counted so far show, and that they go on showing it follows  *)
(* only from the scene trees.  OffIsBlank adds what a screen that is not on *)
(* shows, so that it may come on behind the lock.                           *)
(***************************************************************************)
OffIsBlank == \A o \in Outputs \ enabled : shows[o] = "blank"

IInv ==
    /\ TypeOK
    /\ SentMatchesClient
    /\ SceneMatchesLock
    /\ PresentedStaysCovered
    /\ ConfirmedHidesDesktop
    /\ OffIsBlank

\* The flags, the client states, the outputs and the pictures keep their types.
LEMMA TypeOKHolds == (Init => TypeOK) /\ (TypeOK /\ [Next]_vars => TypeOK')
<1>1. Init => TypeOK
  <2> SUFFICES ASSUME Init PROVE TypeOK
    OBVIOUS
  <2>1. /\ session_locked \in BOOLEAN
        /\ session_lock_sent_locked \in BOOLEAN
        /\ desktop_trees \in BOOLEAN
    BY Zenon DEF Init
  <2>2. client \in [Locks -> ClientStates] /\ shows \in [Outputs -> Pictures]
    BY DEF Init, ClientStates, Pictures
  <2>3. session_lock \in Locks \cup {NoLock} /\ hotplugs \in 0..MaxHotplug
    BY SessionLockAssumption DEF Init
  <2>4. /\ outputs \in SUBSET Outputs
        /\ enabled \in SUBSET outputs
        /\ needs_frame \in SUBSET outputs
        /\ lock_frame_presented \in SUBSET outputs
        /\ lock_rect \in SUBSET outputs
    BY DEF Init
  <2> QED
    BY <2>1, <2>2, <2>3, <2>4 DEF TypeOK
<1>2. TypeOK /\ [Next]_vars => TypeOK'
  <2> SUFFICES ASSUME TypeOK, [Next]_vars PROVE TypeOK'
    OBVIOUS
  <2> USE SessionLockAssumption DEF TypeOK, lockVars, outputVars, sceneVars
  <2>1. ASSUME NEW l \in Locks, RefuseSessionLock(l) PROVE TypeOK'
    BY <2>1 DEF RefuseSessionLock, ClientStates
  <2>2. ASSUME NEW l \in Locks, NewSessionLock(l) PROVE TypeOK'
    BY <2>2 DEF NewSessionLock, ApplyScene, ClientStates
  <2>3. ASSUME NEW l \in Locks, Unlock(l) PROVE TypeOK'
    BY <2>3 DEF Unlock, ApplyScene, ClientStates
  <2>4. ASSUME NEW l \in Locks, LockDestroyed(l) PROVE TypeOK'
    BY <2>4 DEF LockDestroyed, ApplyScene, ClientStates
  <2>5. ASSUME NEW l \in Locks, RefusedGone(l) PROVE TypeOK'
    BY <2>5 DEF RefusedGone, ClientStates
  <2>6. ASSUME NEW o \in Outputs, Frame(o) PROVE TypeOK'
    BY <2>6 DEF Frame, PresentFrame, Waiting, ClientStates, Pictures
  <2>7. ASSUME NEW o \in Outputs, Damage(o) PROVE TypeOK'
    BY <2>7 DEF Damage
  <2>8. ASSUME NEW o \in Outputs, NewOutput(o) PROVE TypeOK'
    BY <2>8 DEF NewOutput, Pictures
  <2>9. ASSUME NEW o \in Outputs, OutputDestroyed(o) PROVE TypeOK'
    BY <2>9 DEF OutputDestroyed, Pictures
  <2>10. ASSUME NEW on \in SUBSET Outputs, ApplyConfig(on) PROVE TypeOK'
    BY <2>10 DEF ApplyConfig, Pictures
  <2>11. CASE UNCHANGED vars
    BY <2>11 DEF vars
  <2> QED
    BY <2>1, <2>2, <2>3, <2>4, <2>5, <2>6, <2>7, <2>8, <2>9, <2>10, <2>11 DEF Next
<1> QED
  BY <1>1, <1>2

\* The handlers that touch the lock object keep flags and client states in step.
LEMMA SentMatchesClientStep ==
    ASSUME TypeOK, SentMatchesClient, [Next]_vars
    PROVE  SentMatchesClient'
<1> USE SessionLockAssumption DEF TypeOK, lockVars, outputVars, sceneVars, SentMatchesClient, ClientStates
<1>1. ASSUME NEW l \in Locks, RefuseSessionLock(l) PROVE SentMatchesClient'
  BY <1>1 DEF RefuseSessionLock
<1>2. ASSUME NEW l \in Locks, NewSessionLock(l) PROVE SentMatchesClient'
  BY <1>2 DEF NewSessionLock, ApplyScene
<1>3. ASSUME NEW l \in Locks, Unlock(l) PROVE SentMatchesClient'
  BY <1>3 DEF Unlock, ApplyScene
<1>4. ASSUME NEW l \in Locks, LockDestroyed(l) PROVE SentMatchesClient'
  BY <1>4 DEF LockDestroyed, ApplyScene
<1>5. ASSUME NEW l \in Locks, RefusedGone(l) PROVE SentMatchesClient'
  BY <1>5 DEF RefusedGone
<1>6. ASSUME NEW o \in Outputs, Frame(o) PROVE SentMatchesClient'
  BY <1>6 DEF Frame, PresentFrame, Waiting
<1>7. ASSUME NEW o \in Outputs, Damage(o) PROVE SentMatchesClient'
  BY <1>7 DEF Damage
<1>8. ASSUME NEW o \in Outputs, NewOutput(o) PROVE SentMatchesClient'
  BY <1>8 DEF NewOutput
<1>9. ASSUME NEW o \in Outputs, OutputDestroyed(o) PROVE SentMatchesClient'
  BY <1>9 DEF OutputDestroyed
<1>10. ASSUME NEW on \in SUBSET Outputs, ApplyConfig(on) PROVE SentMatchesClient'
  BY <1>10 DEF ApplyConfig
<1>11. CASE UNCHANGED vars
  BY <1>11 DEF vars
<1> QED
  BY <1>1, <1>2, <1>3, <1>4, <1>5, <1>6, <1>7, <1>8, <1>9, <1>10, <1>11 DEF Next

\* The handlers that change the flag or the outputs redo trees and rectangles.
LEMMA SceneMatchesLockStep ==
    ASSUME TypeOK, SentMatchesClient, SceneMatchesLock, [Next]_vars
    PROVE  SceneMatchesLock'
<1> USE SessionLockAssumption DEF TypeOK, lockVars, outputVars, sceneVars, SentMatchesClient, SceneMatchesLock
<1>1. ASSUME NEW l \in Locks, RefuseSessionLock(l) PROVE SceneMatchesLock'
  BY <1>1 DEF RefuseSessionLock
<1>2. ASSUME NEW l \in Locks, NewSessionLock(l) PROVE SceneMatchesLock'
  BY <1>2 DEF NewSessionLock, ApplyScene
<1>3. ASSUME NEW l \in Locks, Unlock(l) PROVE SceneMatchesLock'
  BY <1>3 DEF Unlock, ApplyScene
<1>4. ASSUME NEW l \in Locks, LockDestroyed(l) PROVE SceneMatchesLock'
  BY <1>4 DEF LockDestroyed, ApplyScene
<1>5. ASSUME NEW l \in Locks, RefusedGone(l) PROVE SceneMatchesLock'
  BY <1>5 DEF RefusedGone
<1>6. ASSUME NEW o \in Outputs, Frame(o) PROVE SceneMatchesLock'
  BY <1>6 DEF Frame, PresentFrame, Waiting
<1>7. ASSUME NEW o \in Outputs, Damage(o) PROVE SceneMatchesLock'
  BY <1>7 DEF Damage
<1>8. ASSUME NEW o \in Outputs, NewOutput(o) PROVE SceneMatchesLock'
  BY <1>8 DEF NewOutput
<1>9. ASSUME NEW o \in Outputs, OutputDestroyed(o) PROVE SceneMatchesLock'
  BY <1>9 DEF OutputDestroyed
<1>10. ASSUME NEW on \in SUBSET Outputs, ApplyConfig(on) PROVE SceneMatchesLock'
  BY <1>10 DEF ApplyConfig
<1>11. CASE UNCHANGED vars
  BY <1>11 DEF vars
<1> QED
  BY <1>1, <1>2, <1>3, <1>4, <1>5, <1>6, <1>7, <1>8, <1>9, <1>10, <1>11 DEF Next

\* An output that has presented the lock is not given the desktop again.
LEMMA PresentedStaysCoveredStep ==
    ASSUME TypeOK, SentMatchesClient, SceneMatchesLock,
           PresentedStaysCovered, [Next]_vars
    PROVE  PresentedStaysCovered'
<1> USE SessionLockAssumption DEF TypeOK, lockVars, outputVars, sceneVars, SentMatchesClient, SceneMatchesLock,
        PresentedStaysCovered
<1>1. ASSUME NEW l \in Locks, RefuseSessionLock(l) PROVE PresentedStaysCovered'
  BY <1>1 DEF RefuseSessionLock
<1>2. ASSUME NEW l \in Locks, NewSessionLock(l) PROVE PresentedStaysCovered'
  BY <1>2 DEF NewSessionLock, ApplyScene
<1>3. ASSUME NEW l \in Locks, Unlock(l) PROVE PresentedStaysCovered'
  BY <1>3 DEF Unlock, ApplyScene
<1>4. ASSUME NEW l \in Locks, LockDestroyed(l) PROVE PresentedStaysCovered'
  BY <1>4 DEF LockDestroyed, ApplyScene
<1>5. ASSUME NEW l \in Locks, RefusedGone(l) PROVE PresentedStaysCovered'
  BY <1>5 DEF RefusedGone
<1>6. ASSUME NEW o \in Outputs, Frame(o) PROVE PresentedStaysCovered'
  BY <1>6 DEF Frame, PresentFrame, Waiting
<1>7. ASSUME NEW o \in Outputs, Damage(o) PROVE PresentedStaysCovered'
  BY <1>7 DEF Damage
<1>8. ASSUME NEW o \in Outputs, NewOutput(o) PROVE PresentedStaysCovered'
  BY <1>8 DEF NewOutput
<1>9. ASSUME NEW o \in Outputs, OutputDestroyed(o) PROVE PresentedStaysCovered'
  BY <1>9 DEF OutputDestroyed
<1>10. ASSUME NEW on \in SUBSET Outputs, ApplyConfig(on) PROVE PresentedStaysCovered'
  BY <1>10 DEF ApplyConfig
<1>11. CASE UNCHANGED vars
  BY <1>11 DEF vars
<1> QED
  BY <1>1, <1>2, <1>3, <1>4, <1>5, <1>6, <1>7, <1>8, <1>9, <1>10, <1>11 DEF Next

\* The frame that confirms closes the last gap, and no output opens one.
LEMMA ConfirmedHidesDesktopStep ==
    ASSUME IInv, [Next]_vars
    PROVE  ConfirmedHidesDesktop'
<1> USE SessionLockAssumption DEF TypeOK, lockVars, outputVars, sceneVars, SentMatchesClient, SceneMatchesLock,
        PresentedStaysCovered, ConfirmedHidesDesktop, IInv
<1>1. ASSUME NEW l \in Locks, RefuseSessionLock(l) PROVE ConfirmedHidesDesktop'
  BY <1>1 DEF RefuseSessionLock
<1>2. ASSUME NEW l \in Locks, NewSessionLock(l) PROVE ConfirmedHidesDesktop'
  BY <1>2 DEF NewSessionLock, ApplyScene
<1>3. ASSUME NEW l \in Locks, Unlock(l) PROVE ConfirmedHidesDesktop'
  BY <1>3 DEF Unlock, ApplyScene
<1>4. ASSUME NEW l \in Locks, LockDestroyed(l) PROVE ConfirmedHidesDesktop'
  BY <1>4 DEF LockDestroyed, ApplyScene
<1>5. ASSUME NEW l \in Locks, RefusedGone(l) PROVE ConfirmedHidesDesktop'
  BY <1>5 DEF RefusedGone
<1>6. ASSUME NEW o \in Outputs, Frame(o) PROVE ConfirmedHidesDesktop'
  BY <1>6 DEF Frame, PresentFrame, Waiting
<1>7. ASSUME NEW o \in Outputs, Damage(o) PROVE ConfirmedHidesDesktop'
  BY <1>7 DEF Damage
<1>8. ASSUME NEW o \in Outputs, NewOutput(o) PROVE ConfirmedHidesDesktop'
  BY <1>8 DEF NewOutput
<1>9. ASSUME NEW o \in Outputs, OutputDestroyed(o) PROVE ConfirmedHidesDesktop'
  BY <1>9 DEF OutputDestroyed
<1>10. ASSUME NEW on \in SUBSET Outputs, ApplyConfig(on) PROVE ConfirmedHidesDesktop'
  BY <1>10 DEF ApplyConfig
<1>11. CASE UNCHANGED vars
  BY <1>11 DEF vars
<1> QED
  BY <1>1, <1>2, <1>3, <1>4, <1>5, <1>6, <1>7, <1>8, <1>9, <1>10, <1>11 DEF Next

\* An output that is off, unplugged or has never been on shows nothing.
LEMMA OffIsBlankStep ==
    ASSUME TypeOK, OffIsBlank, [Next]_vars
    PROVE  OffIsBlank'
<1> USE DEF TypeOK, lockVars, outputVars, sceneVars, OffIsBlank
<1>1. ASSUME NEW l \in Locks,
             \/ RefuseSessionLock(l) \/ NewSessionLock(l) \/ Unlock(l)
             \/ LockDestroyed(l) \/ RefusedGone(l)
      PROVE  OffIsBlank'
  BY <1>1 DEF RefuseSessionLock, NewSessionLock, Unlock, LockDestroyed, RefusedGone
<1>2. ASSUME NEW o \in Outputs, Frame(o) PROVE OffIsBlank'
  BY <1>2 DEF Frame, PresentFrame
<1>3. ASSUME NEW o \in Outputs, Damage(o) PROVE OffIsBlank'
  BY <1>3 DEF Damage
<1>4. ASSUME NEW o \in Outputs, NewOutput(o) PROVE OffIsBlank'
  BY <1>4 DEF NewOutput
<1>5. ASSUME NEW o \in Outputs, OutputDestroyed(o) PROVE OffIsBlank'
  BY <1>5 DEF OutputDestroyed
<1>6. ASSUME NEW on \in SUBSET Outputs, ApplyConfig(on) PROVE OffIsBlank'
  BY <1>6 DEF ApplyConfig
<1>7. CASE UNCHANGED vars
  BY <1>7 DEF vars
<1> QED
  BY <1>1, <1>2, <1>3, <1>4, <1>5, <1>6, <1>7 DEF Next

-----------------------------------------------------------------------------
(***************************************************************************)
(* The invariant and what follows from it.                                 *)
(***************************************************************************)

\* Nothing is locked, confirmed or shown when the compositor starts.
LEMMA InitIInv == Init => IInv
<1> SUFFICES ASSUME Init PROVE IInv
  OBVIOUS
<1>1. TypeOK
  BY TypeOKHolds
<1>2. SentMatchesClient
  BY SessionLockAssumption DEF Init, SentMatchesClient
<1>3. SceneMatchesLock
  BY DEF Init, SceneMatchesLock
<1>4. PresentedStaysCovered /\ ConfirmedHidesDesktop
  BY DEF Init, PresentedStaysCovered, ConfirmedHidesDesktop
<1>5. OffIsBlank
  BY DEF Init, OffIsBlank
<1> QED
  BY <1>1, <1>2, <1>3, <1>4, <1>5 DEF IInv

\* Every handler preserves the invariant.
LEMMA IInvStep == IInv /\ [Next]_vars => IInv'
<1> SUFFICES ASSUME IInv, [Next]_vars PROVE IInv'
  OBVIOUS
<1>1. TypeOK'
  BY TypeOKHolds DEF IInv
<1>2. SentMatchesClient'
  BY SentMatchesClientStep DEF IInv
<1>3. SceneMatchesLock'
  BY SceneMatchesLockStep DEF IInv
<1>4. PresentedStaysCovered'
  BY PresentedStaysCoveredStep DEF IInv
<1>5. ConfirmedHidesDesktop'
  BY ConfirmedHidesDesktopStep
<1>6. OffIsBlank'
  BY OffIsBlankStep DEF IInv
<1> QED
  BY <1>1, <1>2, <1>3, <1>4, <1>5, <1>6 DEF IInv

\* The invariant holds in every reachable state of the lock handshake.
THEOREM Invariance == Spec => []IInv
<1> QED
  BY InitIInv, IInvStep, PTL DEF Spec

\* The flags, the client states, the outputs and the pictures keep their types.
THEOREM TypeCorrect == Spec => []TypeOK
<1>1. IInv => TypeOK
  BY DEF IInv
<1> QED
  BY <1>1, Invariance, PTL

\* After "locked" was sent no output shows the desktop until the unlock.
THEOREM LockHidesDesktop == Spec => []ConfirmedHidesDesktop
<1>1. IInv => ConfirmedHidesDesktop
  BY DEF IInv
<1> QED
  BY <1>1, Invariance, PTL

\* Outputs that presented the lock stay covered, a lost lock client or not.
THEOREM OrphanedStaysCovered == Spec => []PresentedStaysCovered
<1>1. IInv => PresentedStaysCovered
  BY DEF IInv
<1> QED
  BY <1>1, Invariance, PTL

\* The compositor's flags and what the lock clients have heard agree.
THEOREM ClientsAgree == Spec => []SentMatchesClient
<1>1. IInv => SentMatchesClient
  BY DEF IInv
<1> QED
  BY <1>1, Invariance, PTL

\* The scene trees and the rectangles are those of the lock state.
THEOREM SceneAgrees == Spec => []SceneMatchesLock
<1>1. IInv => SceneMatchesLock
  BY DEF IInv
<1> QED
  BY <1>1, Invariance, PTL

\* The flags, the clients and the scene are in agreement in every reachable state.
THEOREM RecordsAgree == Spec => []Consistent
<1>1. IInv => Consistent
  BY DEF IInv, Consistent
<1> QED
  BY <1>1, Invariance, PTL

\* session_locked is only cleared by the unlock of a client that was confirmed.
LEMMA UnlockStep ==
    ASSUME IInv, [Next]_vars, session_locked, ~session_locked'
    PROVE  \E l \in Locks : Unlock(l)
<1> USE DEF lockVars, outputVars, sceneVars
<1>1. ASSUME NEW l \in Locks, RefuseSessionLock(l) PROVE FALSE
  BY <1>1 DEF RefuseSessionLock
<1>2. ASSUME NEW l \in Locks, NewSessionLock(l) PROVE FALSE
  BY <1>2 DEF NewSessionLock
<1>3. ASSUME NEW l \in Locks, LockDestroyed(l) PROVE FALSE
  BY <1>3 DEF LockDestroyed
<1>4. ASSUME NEW l \in Locks, RefusedGone(l) PROVE FALSE
  BY <1>4 DEF RefusedGone
<1>5. ASSUME NEW o \in Outputs,
             \/ Frame(o) \/ Damage(o) \/ NewOutput(o) \/ OutputDestroyed(o)
      PROVE FALSE
  BY <1>5 DEF Frame, PresentFrame, Damage, NewOutput, OutputDestroyed
<1>6. ASSUME NEW on \in SUBSET Outputs, ApplyConfig(on) PROVE FALSE
  BY <1>6 DEF ApplyConfig
<1>7. CASE UNCHANGED vars
  BY <1>7 DEF vars
<1> QED
  BY <1>1, <1>2, <1>3, <1>4, <1>5, <1>6, <1>7 DEF Next

\* Losing a lock client, a refused one or an output never unlocks the session.
THEOREM OnlyHolderUnlocks == Spec => UnlockedByHolder
<1>1. IInv /\ [Next]_vars =>
        [session_locked /\ ~session_locked' =>
           session_lock # NoLock /\ client[session_lock] = "locked"]_vars
  <2> SUFFICES ASSUME IInv, [Next]_vars, session_locked, ~session_locked'
               PROVE  session_lock # NoLock /\ client[session_lock] = "locked"
    OBVIOUS
  <2>1. PICK l \in Locks : Unlock(l)
    BY UnlockStep
  <2> QED
    BY <2>1, SessionLockAssumption DEF Unlock
<1> QED
  BY <1>1, Invariance, PTL DEF Spec, UnlockedByHolder

\* A handshake is left without a frame to wait for only by losing an output:
\* every other handler that could do it either asks for frames or confirms.
THEOREM StallOnlyByRemoval == Spec => StallsByRemoval
<1>1. IInv /\ [Next]_vars =>
        [Stalled' /\ enabled' # {} => Stalled \/ ~(enabled \subseteq enabled')]_vars
  <2> SUFFICES ASSUME IInv, Next, Stalled', enabled' # {}, enabled \subseteq enabled'
               PROVE  Stalled
    BY DEF vars
  <2> USE DEF IInv, TypeOK, Stalled, Locking, lockVars, outputVars, sceneVars
  <2>1. ASSUME NEW l \in Locks,
               \/ NewSessionLock(l) \/ Unlock(l) \/ LockDestroyed(l)
               \/ RefuseSessionLock(l) \/ RefusedGone(l)
        PROVE  Stalled
    BY <2>1, SessionLockAssumption
    DEF NewSessionLock, Unlock, LockDestroyed, RefuseSessionLock, RefusedGone, ApplyScene
  <2>2. ASSUME NEW o \in Outputs, Frame(o) PROVE Stalled
    BY <2>2 DEF Frame, PresentFrame, Waiting, SentMatchesClient
  <2>3. ASSUME NEW o \in Outputs, Damage(o) PROVE Stalled
    BY <2>3 DEF Damage
  <2>4. ASSUME NEW o \in Outputs, NewOutput(o) PROVE Stalled
    BY <2>4 DEF NewOutput
  <2>5. ASSUME NEW o \in Outputs, OutputDestroyed(o) PROVE Stalled
    BY <2>5 DEF OutputDestroyed
  <2>6. ASSUME NEW on \in SUBSET Outputs, ApplyConfig(on) PROVE Stalled
    BY <2>6 DEF ApplyConfig
  <2> QED
    BY <2>1, <2>2, <2>3, <2>4, <2>5, <2>6 DEF Next
<1> QED
  BY <1>1, Invariance, PTL DEF Spec, StallsByRemoval

-----------------------------------------------------------------------------
(***************************************************************************)
(* The handshake implements LockPromise.                                   *)
(***************************************************************************)

\* Every handler is a step of the promise, or leaves what it speaks of alone.
\* The invariant supplies what the handlers take for granted: behind a lock the
\* desktop's trees are off, so that a frame only ever removes an output from
\* the exposed ones; the frame that confirms removes the last.
LEMMA PromiseStep ==
    ASSUME IInv, [Next]_vars
    PROVE  [Promise!Next]_(Promise!vars)
<1> USE SessionLockAssumption DEF IInv, TypeOK, lockVars, outputVars, sceneVars,
        SentMatchesClient, SceneMatchesLock, Promise!Next, Promise!vars
<1>1. ASSUME NEW l \in Locks, RefuseSessionLock(l) PROVE UNCHANGED Promise!vars
  BY <1>1 DEF RefuseSessionLock
<1>2. ASSUME NEW l \in Locks, NewSessionLock(l) PROVE Promise!Engage
  BY <1>2 DEF NewSessionLock, Promise!Engage
<1>3. ASSUME NEW l \in Locks, Unlock(l) PROVE Promise!Release
  BY <1>3 DEF Unlock, Promise!Release
<1>4. ASSUME NEW l \in Locks, LockDestroyed(l) PROVE Promise!Orphan
  BY <1>4 DEF LockDestroyed, Promise!Orphan
<1>5. ASSUME NEW l \in Locks, RefusedGone(l) PROVE UNCHANGED Promise!vars
  BY <1>5 DEF RefusedGone
<1>6. ASSUME NEW o \in Outputs, Frame(o)
      PROVE  Promise!Show \/ Promise!Blank \/ Promise!Confirm
  <2>1. CASE ~session_locked
    BY <1>6, <2>1 DEF Frame, PresentFrame, Waiting, Promise!Show
  <2>2. CASE session_locked /\ session_lock_sent_locked' = session_lock_sent_locked
    <3>1. shows' = [shows EXCEPT ![o] = "lock"]
      BY <1>6, <2>2 DEF Frame, PresentFrame
    <3>2. UNCHANGED <<session_locked, session_lock, session_lock_sent_locked>>
      BY <1>6, <2>2 DEF Frame, PresentFrame
    <3>3. \A p \in Outputs : shows'[p] = "desktop" => shows[p] = "desktop"
      BY <3>1
    <3>4. UNCHANGED (IF ~session_locked THEN "unlocked"
                     ELSE IF session_lock = NoLock THEN "orphaned"
                     ELSE IF session_lock_sent_locked THEN "locked" ELSE "locking")
      BY <3>2
    <3>5. ({p \in Outputs : shows[p] = "desktop"})'
            \in SUBSET {p \in Outputs : shows[p] = "desktop"}
      BY <3>3
    <3>6. (IF ~session_locked THEN "unlocked"
           ELSE IF session_lock = NoLock THEN "orphaned"
           ELSE IF session_lock_sent_locked THEN "locked" ELSE "locking") # "unlocked"
      BY <2>2
    <3> QED
      BY <3>4, <3>5, <3>6, Zenon DEF Promise!Blank
  <2>3. CASE session_locked /\ session_lock_sent_locked' # session_lock_sent_locked
    <3>1. /\ session_lock # NoLock /\ ~session_lock_sent_locked
          /\ session_lock_sent_locked'
          /\ UNCHANGED <<session_locked, session_lock>>
      BY <1>6, <2>3 DEF Frame, PresentFrame, Waiting
    <3>2. \A p \in Outputs : shows'[p] # "desktop"
      <4>1. ConfirmedHidesDesktop' /\ OffIsBlank'
        BY ConfirmedHidesDesktopStep, OffIsBlankStep
      <4> QED
        BY <3>1, <4>1 DEF ConfirmedHidesDesktop, OffIsBlank
    <3>3. ({p \in Outputs : shows[p] = "desktop"})' = {}
      BY <3>2
    <3> QED
      BY <2>3, <3>1, <3>3 DEF Promise!Confirm
  <2> QED
    BY <2>1, <2>2, <2>3
<1>7. ASSUME NEW o \in Outputs, Damage(o) PROVE UNCHANGED Promise!vars
  BY <1>7 DEF Damage
<1>8. ASSUME NEW o \in Outputs, NewOutput(o) PROVE Promise!Show \/ Promise!Blank
  BY <1>8 DEF NewOutput, Promise!Show, Promise!Blank
<1>9. ASSUME NEW o \in Outputs, OutputDestroyed(o) PROVE Promise!Show \/ Promise!Blank
  BY <1>9 DEF OutputDestroyed, Promise!Show, Promise!Blank
<1>10. ASSUME NEW on \in SUBSET Outputs, ApplyConfig(on)
       PROVE  Promise!Show \/ Promise!Blank
  BY <1>10 DEF ApplyConfig, Promise!Show, Promise!Blank
<1>11. CASE UNCHANGED vars
  BY <1>11 DEF vars
<1> QED
  BY <1>1, <1>2, <1>3, <1>4, <1>5, <1>6, <1>7, <1>8, <1>9, <1>10, <1>11 DEF Next

\* The compositor's lock keeps the promise of module LockPromise: its handlers
\* and the flags they share lead a session through unlocked, locking, locked
\* and orphaned, exposing and hiding the desktop only where the promise does.
THEOREM Refinement == Spec => PromiseKept
<1>1. Init => Promise!Init
  BY DEF Init, Promise!Init
<1>2. IInv /\ [Next]_vars => [Promise!Next]_(Promise!vars)
  BY PromiseStep
<1> QED
  BY <1>1, <1>2, Invariance, PTL DEF Spec, PromiseKept, Promise!Spec
=============================================================================
