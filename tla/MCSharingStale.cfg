\* Two updates of a share computed from the same version of it.
SPECIFICATION SSpec
CONSTANTS
    Accounts    = {a1}
    Ids         = {e1}
    NoId        = none
    Amounts     = {1, 2}
    Openings    = {2}
    Drafts      <- NoDrafts
    Edits       <- NoEdits
    MaxNow      = 0
    Skew        = 0
    MaxVersion  = 4
    Expenses    = {e1}
    People      = {p1}
    DebtIds     = {d1}
    Shares      = {s1}
    Loans       = {2}
    MaxRevision = 3
    MaxPersonVersion = 2
SYMMETRY Symmetry
PROPERTIES ShareVersionsAdvance
CHECK_DEADLOCK FALSE
