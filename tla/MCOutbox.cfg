\* One transaction created, edited, posted and reversed offline, beside another
\* client.
SPECIFICATION OSpec
CONSTANTS
    t1 = t1
    t2 = t2
    Entities  = {t1}
    Ops       = {1, 2, 3}
    Types    <- Lifecycle
    Batch     = 2
    MaxSecond = 0
    MaxOthers = 2
INVARIANTS PendingIsShown SyncedIsReal AcknowledgedWasApplied ActsOnWhatWasShown
PROPERTY AppliedIsNeverRefused
CHECK_DEADLOCK FALSE
