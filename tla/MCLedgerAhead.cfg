\* Postings may be dated one instant ahead of the clock, as the code allows: the
\* negative-balance policy is then not kept.
SPECIFICATION Spec
CONSTANTS
    Accounts   = {a1}
    Ids        = {t1, t2}
    NoId       = none
    Amounts    = {1}
    Openings   = {1}
    Drafts    <- ClassifiedDrafts
    Edits     <- NoEdits
    MaxNow     = 1
    Skew       = 1
    MaxVersion = 3
SYMMETRY Symmetry
INVARIANT NonNegative
CHECK_DEADLOCK FALSE
