\* One device and one asset, two requests at a time; and three calls of one key, past
\* the end of a record's life. A user that is gone does nothing, and every call ends.
SPECIFICATION Spec
CONSTANTS
    MaxSessions = 3
    Devices = {d1}
    Clients = {u1, u2}
    Media   = {m1}
    User    = user
    None    = none
    c1 = c1
    c2 = c2
    c3 = c3
    Calls <- MCCalls
    Body <- MCBody
    Ttl = 2
    MaxClock = 4
SYMMETRY Interchangeable
INVARIANTS ErasureIsComplete OneLivePerSignIn EndedStaysEnded NoFalseAlarm ObjectsMatchRows
PROPERTY ImplementsAtomicHandling
CHECK_DEADLOCK FALSE
