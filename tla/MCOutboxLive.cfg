\* A draft created and edited, and a transfer committed, over a network that
\* sometimes delivers.
SPECIFICATION FairOSpec
CONSTANTS
    t1 = t1
    t2 = t2
    Entities  = {t1}
    Ops       = {1, 2}
    Types    <- Edits
    Batch     = 2
    MaxSecond = 0
    MaxOthers = 2
PROPERTIES Settles CatchesUp
CHECK_DEADLOCK FALSE
