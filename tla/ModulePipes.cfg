\* Two modules of one name against full pipes, deaths and timeouts.
SPECIFICATION FairSpec
CONSTANTS
    a = a
    b = b
    Clients = {a, b}
    Scripts <- MCScripts
    Chatter <- MCChatter
    Wants <- MCWants
    Locks <- MCLocks
    Room = 3
    MaxTries = 2
    MaxBroadcasts = 1
INVARIANTS
    Consistent
    StreamWhole
PROPERTIES
    WaitsUntilSeen
    BroadcastEnds
    Delivered
CHECK_DEADLOCK FALSE

