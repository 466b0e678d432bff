\* Three categories moved, archived and retyped by two clients.
SPECIFICATION CSpec
CONSTANTS
    Categories = {c1, c2, c3}
    c1 = c1  c2 = c2  c3 = c3
    n1 = n1  n2 = n2  n3 = n3
    Tags       = {t1}
    TagNames   = {n1}
    None       = none
    Names      = {n1, n2, n3}
    Clients    = {u1, u2}
    Requests  <- Moves
    Postings  <- IncomeOnFirst
    Seeds     <- TwoSeeds
    MaxVersion = 2
INVARIANTS NoCategoryCycle ActiveUnderActive KindAgreesWithHistory
PROPERTY RequestsEnd
CHECK_DEADLOCK FALSE
