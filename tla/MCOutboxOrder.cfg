\* "Save and post", while creation times are kept in whole seconds.
SPECIFICATION OSpec
CONSTANTS
    t1 = t1
    t2 = t2
    Entities  = {t1}
    Ops       = {1, 2}
    Types    <- Creations
    Batch     = 2
    MaxSecond = 1
    MaxOthers = 0
INVARIANT NoPostBeforeDraft
CHECK_DEADLOCK FALSE
