SPECIFICATION DSpec
CONSTANTS
    Accounts   = {a1}
    Ids        = {t1, t2}
    NoId       = none
    Amounts    = {1}
    Openings   = {1}
    Drafts    <- AllDrafts
    Edits     <- SomeEdits
    MaxNow     = 0
    Skew       = 0
    MaxVersion = 3
SYMMETRY Symmetry
INVARIANTS VersionNamesRow VersionNamesAccount
PROPERTIES ActsOnWhatItShows
CHECK_DEADLOCK FALSE
