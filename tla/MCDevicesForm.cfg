\* The forms of an account and of a draft, kept open while another device edits what
\* they are about.
SPECIFICATION DSpec
CONSTANTS
    Accounts   = {a1}
    Ids        = {t1}
    NoId       = none
    Amounts    = {1}
    Openings   = {1}
    Drafts    <- AllDrafts
    Edits     <- SomeEdits
    MaxNow     = 0
    Skew       = 0
    MaxVersion = 3
PROPERTIES SavesOnlyWhatChanged
CHECK_DEADLOCK FALSE
