\* Two shares and a refund of one expense, their debts repaid and cancelled, and
\* the updates of one client computed from a stale copy.
SPECIFICATION SSpec
CONSTANTS
    Accounts    = {a1}
    Ids         = {e1, t1, t2}
    NoId        = none
    Amounts     = {1, 2, 3}
    Openings    = {3}
    Drafts      <- NoDrafts
    Edits       <- NoEdits
    MaxNow      = 0
    Skew        = 0
    MaxVersion  = 4
    Expenses    = {e1}
    People      = {p1, p2}
    DebtIds     = {d1, d2}
    Shares      = {s1, s2}
    Loans       = {2}
    MaxRevision = 3
    MaxPersonVersion = 2
SYMMETRY Symmetry
INVARIANTS RecoveryWithinExpense DebtTellsPayments SharesMatchClaims CancelledSharesClaimNothing NetPositionExplained
PROPERTIES TwoDeadSharesFreeze
CHECK_DEADLOCK FALSE
