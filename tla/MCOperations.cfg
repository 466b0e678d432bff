\* Transfers, reconciliations and reallocations against the drafts, postings,
\* reversals and account edits of other clients, as the clock runs.
SPECIFICATION FSpec
CONSTANTS
    a1 = a1
    a2 = a2
    Accounts   = {a1, a2}
    Ids        = {t1, t2, t3}
    NoId       = none
    Amounts    = {1}
    Openings   = {1}
    Drafts     <- OthersDrafts
    Edits      <- OthersEdits
    Targets    = {0, 2}
    Requests   <- OneOfEach
    MaxNow     = 1
    Skew       = 0
    MaxVersion = 3
SYMMETRY Symmetry
INVARIANTS ReversalCoherent MovementsAfterOpening NonNegative QuoteIsCurrent TransfersPaired PeriodAddsUp
PROPERTIES AccountVersionCovers HistoryIsAppendOnly CommitMatchesQuote DatabaseAccepts ImplementsBank
CHECK_DEADLOCK FALSE
