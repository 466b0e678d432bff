\* Two rules on one account whose opening date moves, and batches of one rule.
SPECIFICATION PSpec
CONSTANTS
    Accounts    = {a1}
    Ids        <- SlotIds
    NoId        = none
    Amounts     = {1}
    Openings   <- Overdrawn
    Drafts     <- NoDrafts
    Edits      <- Reopened
    MaxNow      = 1
    Skew        = 0
    MaxVersion  = 2
    Rules       = {r1, r2}
    Terms      <- OneTerm
    Periods     = {1}
    MaxPeriod   = 1
    DraftOf    <- SlotDraft
    BatchLimit  = 1
    MaxEdits    = 3
INVARIANT OccurrenceTellsDraft
PROPERTIES OccurrencesOnlyMoveOn DueIsProcessed
CHECK_DEADLOCK FALSE
