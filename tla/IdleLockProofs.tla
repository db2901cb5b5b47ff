--------------------------- MODULE IdleLockProofs ---------------------------
(***************************************************************************)
(* Proofs about module IdleLock, for every timeout and every set of        *)
(* inhibitors and surfaces.                                                *)
(***************************************************************************)
EXTENDS IdleLock, TLAPS

(***************************************************************************)
(* The inductive invariant.  That the timer measures idleness is inductive  *)
(* only together with the cached flag being current: with a wrong flag an   *)
(* inhibition could end without the timer being restarted.                  *)
(***************************************************************************)
IInv == TypeOK /\ CacheCurrent /\ TimerMeasuresIdleness

\* What an inhibitor or surface handler does up to its call of Refresh.
Quiet == UNCHANGED <<session, launched>> /\ events' \in 0..MaxEvents

\* Refresh restarts the timer exactly when the last inhibition ends, whatever
\* its handler did to inhibitors and surfaces.
LEMMA RefreshStep ==
    ASSUME IInv, Quiet, Refresh,
           inhibitors' \in SUBSET (Inhibitors \X Surfaces),
           mapped' \in SUBSET Surfaces
    PROVE  IInv'
<1> USE IdleLockAssumption DEF IInv, Quiet, Off
<1>1. Active \in BOOLEAN /\ Active' \in BOOLEAN
  BY DEF Active
<1>2. idle_inhibited' \in BOOLEAN
  BY <1>1 DEF Refresh
<1>3. CacheCurrent'
  BY DEF Refresh, CacheCurrent
<1>4. CASE idle_inhibited /\ ~Active'
  <2>1. NoteActivity
    BY <1>4 DEF Refresh
  <2>2. timer' \in 0..Timeout \cup {Off} /\ fired' \in BOOLEAN /\ idle_for' \in 0..Timeout
    BY <2>1 DEF NoteActivity, TypeOK
  <2>3. session' = "unlocked" => timer' = Timeout /\ ~fired' /\ idle_for' = 0
    BY <2>1 DEF NoteActivity
  <2>4. TimerMeasuresIdleness'
    BY <2>3 DEF TimerMeasuresIdleness
  <2> QED
    BY <1>2, <1>3, <2>2, <2>4 DEF TypeOK
<1>5. CASE ~(idle_inhibited /\ ~Active')
  <2>1. /\ UNCHANGED <<timer, fired>>
        /\ idle_for' = IF Active \/ Active' THEN 0 ELSE idle_for
    BY <1>5 DEF Refresh
  <2>2. Active => Active'
    BY <1>5 DEF CacheCurrent
  <2>3. TimerMeasuresIdleness'
    BY <2>1, <2>2 DEF TypeOK, TimerMeasuresIdleness
  <2> QED
    BY <1>2, <1>3, <2>1, <2>3 DEF TypeOK
<1> QED
  BY <1>4, <1>5

\* Activity starts the timer over, or leaves a locked session to its unlock.
LEMMA NoteActivityStep ==
    ASSUME IInv, NoteActivity,
           UNCHANGED <<inhibitors, mapped, idle_inhibited>>,
           session' \in {"unlocked", "locked", "orphaned"},
           launched' \in 0..MaxLaunched,
           events' \in 0..MaxEvents
    PROVE  IInv'
<1> USE IdleLockAssumption DEF IInv, Off
<1>1. Active' <=> Active
  BY DEF Active
<1>2. CacheCurrent'
  BY <1>1 DEF CacheCurrent
<1>3. session' = "unlocked" => timer' = Timeout /\ ~fired' /\ idle_for' = 0
  BY DEF NoteActivity
<1>4. TimerMeasuresIdleness'
  BY <1>3 DEF TimerMeasuresIdleness
<1>5. TypeOK'
  BY DEF NoteActivity, TypeOK
<1> QED
  BY <1>2, <1>4, <1>5

\* A running timer loses what the idle time gains, and its callback sets it
\* again or records that it started a client.
LEMMA TimeStep ==
    ASSUME IInv, Tick \/ Timer
    PROVE  IInv'
<1> USE IdleLockAssumption DEF IInv, Off
<1>1. UNCHANGED <<inhibitors, mapped, idle_inhibited, session, events>>
  BY DEF Tick, Timer, TimerLocked, TimerInhibited, TimerFires
<1>2. (Active' <=> Active) /\ CacheCurrent'
  BY <1>1 DEF Active, CacheCurrent
<1>3. CASE Tick
  BY <1>1, <1>2, <1>3 DEF Tick, TypeOK, TimerMeasuresIdleness
<1>4. CASE TimerLocked
  BY <1>1, <1>2, <1>4 DEF TimerLocked, TypeOK, TimerMeasuresIdleness
<1>5. CASE TimerInhibited
  BY <1>1, <1>2, <1>5 DEF TimerInhibited, TypeOK, TimerMeasuresIdleness
<1>6. CASE TimerFires
  BY <1>1, <1>2, <1>6 DEF TimerFires, TypeOK, TimerMeasuresIdleness
<1> QED
  BY <1>3, <1>4, <1>5, <1>6 DEF Timer

\* Lock clients that lock, fail or die leave the timer alone.
LEMMA ClientStep ==
    ASSUME IInv, ClientLocks \/ ClientFails \/ OtherLocks \/ LockDestroyed
    PROVE  IInv'
<1> USE IdleLockAssumption DEF IInv
<1>1. UNCHANGED <<inhibitors, mapped, idle_inhibited, timer, fired>>
  BY DEF ClientLocks, ClientFails, OtherLocks, LockDestroyed
<1>2. (Active' <=> Active) /\ CacheCurrent'
  BY <1>1 DEF Active, CacheCurrent
<1>3. CASE ClientLocks
  BY <1>1, <1>2, <1>3 DEF ClientLocks, TypeOK, TimerMeasuresIdleness
<1>4. CASE ClientFails
  BY <1>1, <1>2, <1>4 DEF ClientFails, TypeOK, TimerMeasuresIdleness
<1>5. CASE OtherLocks
  BY <1>1, <1>2, <1>5 DEF OtherLocks, Event, TypeOK, TimerMeasuresIdleness
<1>6. CASE LockDestroyed
  BY <1>1, <1>2, <1>6 DEF LockDestroyed, Event, TypeOK, TimerMeasuresIdleness
<1> QED
  BY <1>3, <1>4, <1>5, <1>6

-----------------------------------------------------------------------------
\* The timer is set, and nothing inhibits it, when the compositor starts.
LEMMA InitIInv == Init => IInv
<1> SUFFICES ASSUME Init PROVE IInv
  OBVIOUS
<1> USE IdleLockAssumption DEF Init, Off
<1>1. TypeOK
  <2>1. session \in {"unlocked", "locked", "orphaned"} /\ launched \in 0..MaxLaunched
    BY DEF Init
  <2>2. idle_inhibited \in BOOLEAN /\ fired \in BOOLEAN
    BY Zenon DEF Init
  <2>3. /\ inhibitors \in SUBSET (Inhibitors \X Surfaces)
        /\ mapped \in SUBSET Surfaces
    BY DEF Init
  <2>4. timer \in 0..Timeout \cup {Off} /\ idle_for \in 0..Timeout /\ events \in 0..MaxEvents
    BY DEF Init
  <2> QED
    BY <2>1, <2>2, <2>3, <2>4 DEF TypeOK
<1>2. ~Active
  BY DEF Active
<1> QED
  BY <1>1, <1>2 DEF IInv, CacheCurrent, TimerMeasuresIdleness

\* Every handler, the timer and the clock preserve the invariant.
LEMMA IInvStep == IInv /\ [Next]_vars => IInv'
<1> SUFFICES ASSUME IInv, [Next]_vars PROVE IInv'
  OBVIOUS
<1>1. Event => events' \in 0..MaxEvents
  BY IdleLockAssumption DEF IInv, TypeOK, Event
<1>2. ASSUME NEW i \in Inhibitors, NEW s \in Surfaces, NewInhibitor(i, s) PROVE IInv'
  BY <1>1, <1>2, RefreshStep DEF NewInhibitor, IInv, TypeOK, Quiet
<1>3. ASSUME NEW e \in inhibitors, InhibitorDestroyed(e) PROVE IInv'
  BY <1>1, <1>3, RefreshStep DEF InhibitorDestroyed, IInv, TypeOK, Quiet
<1>4. ASSUME NEW s \in Surfaces, SurfaceMap(s) PROVE IInv'
  BY <1>1, <1>4, RefreshStep DEF SurfaceMap, IInv, TypeOK, Quiet
<1>5. ASSUME NEW s \in Surfaces, SurfaceUnmap(s) PROVE IInv'
  BY <1>1, <1>5, RefreshStep DEF SurfaceUnmap, IInv, TypeOK, Quiet
<1>6. ASSUME NEW s \in Surfaces, SurfaceDestroyed(s) PROVE IInv'
  BY <1>1, <1>6, RefreshStep DEF SurfaceDestroyed, IInv, TypeOK, Quiet
<1>7. CASE Tick \/ TimerLocked \/ TimerInhibited \/ TimerFires
  BY <1>7, TimeStep DEF Timer
<1>8. CASE Activity \/ LockKey \/ Unlock
  <2>1. UNCHANGED <<inhibitors, mapped, idle_inhibited>> /\ NoteActivity /\ Event
    BY <1>8 DEF Activity, LockKey, Unlock
  <2>2. /\ session' \in {"unlocked", "locked", "orphaned"}
        /\ launched' \in 0..MaxLaunched
    BY <1>8, IdleLockAssumption DEF Activity, LockKey, Unlock, IInv, TypeOK
  <2> QED
    BY <1>1, <2>1, <2>2, NoteActivityStep
<1>9. CASE ClientLocks \/ ClientFails \/ OtherLocks \/ LockDestroyed
  BY <1>9, ClientStep
<1>10. CASE UNCHANGED vars
  BY <1>10 DEF vars, IInv, TypeOK, CacheCurrent, TimerMeasuresIdleness, Active
<1> QED
  BY <1>2, <1>3, <1>4, <1>5, <1>6, <1>7, <1>8, <1>9, <1>10 DEF Next

\* The invariant holds in every reachable state of the idle lock.
THEOREM Invariance == Spec => []IInv
<1> QED
  BY InitIInv, IInvStep, PTL DEF Spec

\* The inhibitors, the timer and the session keep their types.
THEOREM TypeCorrect == Spec => []TypeOK
<1>1. IInv => TypeOK
  BY DEF IInv
<1> QED
  BY <1>1, Invariance, PTL

\* The cached inhibition flag is never stale.
THEOREM CacheStaysCurrent == Spec => []CacheCurrent
<1>1. IInv => CacheCurrent
  BY DEF IInv
<1> QED
  BY <1>1, Invariance, PTL

\* The types and the cached flag are right in every reachable state.
THEOREM RecordsAgree == Spec => []Consistent
<1>1. IInv => Consistent
  BY DEF IInv, Consistent
<1> QED
  BY <1>1, Invariance, PTL

\* The timer of an unlocked, uninhibited session is exactly its idle time.
THEOREM TimerIsIdleTime == Spec => []TimerMeasuresIdleness
<1>1. IInv => TimerMeasuresIdleness
  BY DEF IInv
<1> QED
  BY <1>1, Invariance, PTL

\* No lock client is started by the timer before the whole timeout has passed.
THEOREM NoEarlyLock == Spec => LockedOnlyWhenIdle
<1>1. IInv /\ [Next]_vars =>
        [fired' /\ ~fired => idle_for = Timeout /\ ~Active /\ session = "unlocked"]_vars
  <2> SUFFICES ASSUME IInv, Next, fired', ~fired
               PROVE  idle_for = Timeout /\ ~Active /\ session = "unlocked"
    BY DEF vars
  <2>1. TimerFires
    BY DEF Next, NewInhibitor, InhibitorDestroyed, SurfaceMap, SurfaceUnmap,
           SurfaceDestroyed, Refresh, NoteActivity, Tick, TimerLocked, TimerInhibited,
           Activity, LockKey, ClientLocks, ClientFails, OtherLocks, LockDestroyed, Unlock
  <2> QED
    BY <2>1, IdleLockAssumption DEF TimerFires, IInv, TypeOK, TimerMeasuresIdleness, Off
<1> QED
  BY <1>1, Invariance, PTL DEF Spec, LockedOnlyWhenIdle

\* The timer's promise is void only after a lock client has failed.
THEOREM OnlyFailureAbandons == Spec => AbandonedByFailure
<1>1. IInv /\ [Next]_vars =>
        [(Abandoned /\ session = "unlocked")' =>
            (Abandoned /\ session = "unlocked") \/ launched' < launched]_vars
  <2> SUFFICES ASSUME IInv, Next, Abandoned', session' = "unlocked"
               PROVE  (Abandoned /\ session = "unlocked") \/ launched' < launched
    BY DEF vars
  <2> USE DEF Abandoned
  <2>1. CASE TimerFires
    BY <2>1, IdleLockAssumption DEF TimerFires, IInv, TypeOK
  <2>2. CASE ClientFails
    BY <2>2, IdleLockAssumption DEF ClientFails, IInv, TypeOK
  <2> QED
    BY <2>1, <2>2
    DEF Next, NewInhibitor, InhibitorDestroyed, SurfaceMap, SurfaceUnmap,
        SurfaceDestroyed, Refresh, NoteActivity, Tick, TimerLocked, TimerInhibited,
        Activity, LockKey, ClientLocks, OtherLocks, LockDestroyed, Unlock
<1> QED
  BY <1>1, Invariance, PTL DEF Spec, AbandonedByFailure
=============================================================================
