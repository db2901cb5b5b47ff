\* Two inhibitors on two surfaces, so that one surface can have both and each
\* can be the last in force; lock clients that may fail.
SPECIFICATION Spec
CONSTANTS
    Inhibitors = {i1, i2}
    Surfaces = {s1, s2}
    Timeout = 3
    MaxLaunched = 2
    MaxEvents = 8
INVARIANTS
    Consistent
    TimerMeasuresIdleness
PROPERTIES
    LockedOnlyWhenIdle
    AbandonedByFailure
    IdleSessionLocks
