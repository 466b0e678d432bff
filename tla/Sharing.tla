------------------------------ MODULE Sharing ------------------------------
(***************************************************************************)
(* Debts, shared expenses and refunds beside the ledger.  A share of a     *)
(* posted expense is a claim on a person, kept as a receivable debt that   *)
(* the person repays; a refund takes back a part of the expense itself.    *)
(* Shares and refunds together may not exceed the expense.                 *)
(*                                                                         *)
(* Shares and refunds are judged under a lock on their expense, repayments *)
(* under a lock on their debt, so each handler is one action, with one     *)
(* exception: the update of a share reads the share before it locks the    *)
(* expense and goes on using that copy, because the session's identity map *)
(* ignores the row that the second, locking read returns.  One client's    *)
(* updates are followed from that first read; every other client's update  *)
(* finds its lock free and works on the current row.                       *)
(*                                                                         *)
(* What the service checks and what the database checks are separate: the  *)
(* constraints of the database are the primed conjuncts that end an        *)
(* action, because their triggers are deferred to the commit.              *)
(***************************************************************************)
EXTENDS Ledger

CONSTANTS
    Expenses,     \* identifiers of the expenses posted before the model starts
    People,       \* identifiers of the user's counterparties
    DebtIds,      \* identifiers of debts, chosen by the clients
    Shares,       \* identifiers of shares, chosen by the clients
    Loans,        \* amounts of debts that no share stands for
    MaxRevision,  \* bound: the last version of a debt or a share
    MaxPersonVersion  \* bound: the last version of a person

ASSUME ExpensesAssumption == Expenses \subseteq Ids
ASSUME LoansAssumption    == Loans \subseteq Amounts
ASSUME LargestAssumption  == \E largest \in Amounts : \A x \in Amounts : x <= largest
ASSUME SharesAssumption   == IsFiniteSet(Shares)
ASSUME RevisionAssumption == MaxRevision \in Nat \ {0} /\ MaxPersonVersion \in Nat \ {0}

VARIABLES
    people,     \* the people table
    debts,      \* the debts table
    payments,   \* the debt_payments table
    shares,     \* the shared_expense_shares table
    parent,     \* the column parent_transaction_id: which expense a refund takes back
    reading     \* the share the followed client has read and not yet updated
book  == <<people, debts, payments, shares, parent>>
svars == <<now, acct, tx, people, debts, payments, shares, parent, reading>>

Revisions  == 1 .. MaxRevision
Directions == {"RECEIVABLE", "PAYABLE"}
Origins    == {"EXISTING", "LEND_NOW", "BORROW_NOW", "SHARED_EXPENSE"}

Person  == [status : {"ACTIVE", "ARCHIVED"}, version : 1 .. MaxPersonVersion]
Debt    == [status : {"OPEN", "PARTIALLY_PAID", "SETTLED", "CANCELLED"},
            person : People, direction : Directions, origin : Origins,
            originTx : Ids \cup {NoId}, amount : Amounts,
            cancelledAt : BOOLEAN, version : Revisions]
Payment == [debt : DebtIds, movement : Ids, amount : Amounts]
Share   == [status : {"ACTIVE", "CANCELLED"}, expense : Ids, person : People,
            debt : DebtIds, amount : Amounts, version : Revisions]

NoPerson  == [status |-> "NONE"]
NoDebt    == [status |-> "NONE"]
NoShare   == [status |-> "NONE"]
NoReading == [share |-> "NONE"]

-----------------------------------------------------------------------------
(* Reading the book *)

TotalOf(installments) == MapThenSumSet(LAMBDA p : p.amount, installments)

Paid(d) == TotalOf({p \in payments : p.debt = d})

ActiveShares(e) == {s \in Shares : shares[s].status = "ACTIVE" /\ shares[s].expense = e}

ActiveShareTotal(e) == MapThenSumSet(LAMBDA s : shares[s].amount, ActiveShares(e))

Refunds(e) == {i \in Ids : parent[i] = e /\ Counts(i)}

RefundTotal(e) == MapThenSumSet(LAMBDA i : tx[i].amount, Refunds(e))

MutSettledByAnyPayment(original, paid) == IF paid > 0 THEN "SETTLED" ELSE "OPEN"

StatusFor(original, paid) ==
    CASE paid = original -> "SETTLED"
      [] paid > 0 /\ paid # original -> "PARTIALLY_PAID"
      [] OTHER -> "OPEN"

RequireExpense(e) == tx[e].status = "POSTED" /\ tx[e].kind = "EXPENSE"

Known(p) == people[p].status = "ACTIVE"

\* An account that takes a movement of the book dated `at`.
AccountTakes(a, effect, amount, at) ==
    /\ NotFuture(at)
    /\ acct[a].status = "ACTIVE"
    /\ at >= acct[a].openedAt
    /\ ProjectedBalanceAllows(a, effect, amount, at)

-----------------------------------------------------------------------------
(* What the database refuses at commit *)

MutCancellationFree(d) ==
    LET debt == debts[d]
    IN  /\ debt.origin = "EXISTING" <=> debt.originTx = NoId
        /\ debt.origin \in {"LEND_NOW", "SHARED_EXPENSE"} => debt.direction = "RECEIVABLE"
        /\ debt.origin = "BORROW_NOW" => debt.direction = "PAYABLE"

\* The checks on one row of debts: its origin, and that it is dated cancelled
\* exactly when its status says so.
DebtRowValid(d) ==
    LET debt == debts[d]
    IN  /\ debt.origin = "EXISTING" <=> debt.originTx = NoId
        /\ debt.origin \in {"LEND_NOW", "SHARED_EXPENSE"} => debt.direction = "RECEIVABLE"
        /\ debt.origin = "BORROW_NOW" => debt.direction = "PAYABLE"
        /\ debt.status = "CANCELLED" <=> debt.cancelledAt

\* One share per person and expense, and one claim per share.
SharesUnique ==
    \A s, q \in Shares :
        shares[s] # NoShare /\ shares[q] # NoShare /\ s # q =>
           /\ shares[s].debt # shares[q].debt
           /\ shares[s].expense = shares[q].expense => shares[s].person # shares[q].person

\* A movement pays one debt.
PaymentsUnique == \A p, q \in payments : p.movement = q.movement => p = q

DebtGroupValid(d) ==
    /\ Paid(d) <= debts[d].amount
    /\ debts[d].status \in {"CANCELLED", StatusFor(debts[d].amount, Paid(d))}
    /\ debts[d].origin \in {"LEND_NOW", "BORROW_NOW"} =>
          /\ Counts(debts[d].originTx)
          /\ tx[debts[d].originTx].amount = debts[d].amount
          /\ tx[debts[d].originTx].kind = IF debts[d].origin = "LEND_NOW"
                                          THEN "LOAN_PRINCIPAL_OUT"
                                          ELSE "LOAN_PRINCIPAL_IN"
    /\ \A p \in payments : p.debt = d =>
          /\ Counts(p.movement)
          /\ tx[p.movement].amount = p.amount
          /\ tx[p.movement].kind = IF debts[d].direction = "RECEIVABLE"
                                   THEN "DEBT_REPAYMENT_IN" ELSE "DEBT_REPAYMENT_OUT"

\* A movement of the book is inserted together with what explains it.
LinkRequired(i) ==
    CASE tx[i].kind \in {"LOAN_PRINCIPAL_OUT", "LOAN_PRINCIPAL_IN"} ->
            \E d \in DebtIds : debts[d] # NoDebt /\ debts[d].originTx = i
      [] tx[i].kind \in {"DEBT_REPAYMENT_IN", "DEBT_REPAYMENT_OUT"} ->
            \E p \in payments : p.movement = i
      [] tx[i].kind = "REFUND" -> parent[i] # NoId /\ tx[parent[i]].kind = "EXPENSE"
      [] OTHER -> TRUE

\* An active share whose debt was cancelled on its own.
Dead(s) == shares[s].status = "ACTIVE" /\ debts[shares[s].debt].status = "CANCELLED"

ClaimMatchesShare(s) ==
    LET debt == debts[shares[s].debt]
    IN  /\ debt.origin = "SHARED_EXPENSE" /\ debt.direction = "RECEIVABLE"
        /\ debt.originTx = shares[s].expense
        /\ debt.person = shares[s].person
        /\ debt.amount = shares[s].amount

MutCapUnchecked(e) ==
    \A s \in Shares : shares[s] # NoShare /\ shares[s].expense = e =>
        ClaimMatchesShare(s) /\ ~Dead(s)

MutClaimsUnchecked(e) ==
    /\ RefundTotal(e) + ActiveShareTotal(e) <= tx[e].amount
    /\ \A s \in Shares : ~(shares[s].status = "ACTIVE" /\ shares[s].expense = e /\ Dead(s))

MutDeadUnchecked(e) ==
    /\ RefundTotal(e) + ActiveShareTotal(e) <= tx[e].amount
    /\ \A s \in Shares : shares[s] # NoShare /\ shares[s].expense = e => ClaimMatchesShare(s)

\* Every share of the expense is judged, whichever of them changed.
ExpenseRecoveryValid(e) ==
    /\ tx[e].kind = "EXPENSE" /\ Counts(e)
    /\ RefundTotal(e) + ActiveShareTotal(e) <= tx[e].amount
    /\ \A s \in Shares : shares[s] # NoShare /\ shares[s].expense = e =>
          ClaimMatchesShare(s) /\ ~Dead(s)

-----------------------------------------------------------------------------
(* People *)

CreatePerson(p) ==
    /\ people[p] = NoPerson
    /\ people' = [people EXCEPT ![p] = [status |-> "ACTIVE", version |-> 1]]
    /\ UNCHANGED <<now, acct, tx, debts, payments, shares, parent, reading>>

\* The fields of no consequence here may change too: an update is never a stutter.
UpdatePerson(p, v, status) ==
    /\ people[p] # NoPerson
    /\ RequireVersion(people[p], v)
    /\ v < MaxPersonVersion
    /\ people' = [people EXCEPT ![p] = [status |-> status, version |-> v + 1]]
    /\ UNCHANGED <<now, acct, tx, debts, payments, shares, parent, reading>>

-----------------------------------------------------------------------------
(* Debts *)

DebtRow(p, direction, origin, originTx, amount) ==
    [status |-> "OPEN", person |-> p, direction |-> direction, origin |-> origin,
     originTx |-> originTx, amount |-> amount, cancelledAt |-> FALSE, version |-> 1]

\* A debt that exists already moves no money.
RecordExisting(d, p, direction, amount) ==
    /\ debts[d] = NoDebt
    /\ Known(p)
    /\ debts' = [debts EXCEPT ![d] = DebtRow(p, direction, "EXISTING", NoId, amount)]
    /\ UNCHANGED <<now, acct, tx, people, payments, shares, parent, reading>>
    /\ DebtRowValid(d)' /\ DebtGroupValid(d)'

CashOrigins ==
    {[origin |-> "LEND_NOW", direction |-> "RECEIVABLE",
      kind |-> "LOAN_PRINCIPAL_OUT", effect |-> "OUTFLOW"],
     [origin |-> "BORROW_NOW", direction |-> "PAYABLE",
      kind |-> "LOAN_PRINCIPAL_IN", effect |-> "INFLOW"]}

\* A loan made now: the principal leaves or reaches the account with the debt.
LendOrBorrow(d, p, cash, amount, a, i, at) ==
    /\ debts[d] = NoDebt
    /\ Known(p)
    /\ AccountTakes(a, cash.effect, amount, at)
    /\ Insert([j \in {i} |-> Movement(cash.kind, cash.effect, a, amount, at)])
    /\ Bump({a})
    /\ debts' = [debts EXCEPT ![d] =
                   DebtRow(p, cash.direction, cash.origin, i, amount)]
    /\ UNCHANGED <<now, people, payments, shares, parent, reading>>
    /\ DebtRowValid(d)' /\ DebtGroupValid(d)' /\ LinkRequired(i)'

AcceptsPayment(d) == debts[d].status \in {"OPEN", "PARTIALLY_PAID"}

Repay(d, amount, a, i, at) ==
    LET incoming == debts[d].direction = "RECEIVABLE"
        kind     == IF incoming THEN "DEBT_REPAYMENT_IN" ELSE "DEBT_REPAYMENT_OUT"
        effect   == IF incoming THEN "INFLOW" ELSE "OUTFLOW"
    IN  /\ AcceptsPayment(d)
        /\ amount <= debts[d].amount - Paid(d)
        /\ AccountTakes(a, effect, amount, at)
        /\ Insert([j \in {i} |-> Movement(kind, effect, a, amount, at)])
        /\ Bump({a})
        /\ payments' = payments \cup {[debt |-> d, movement |-> i, amount |-> amount]}
        /\ debts[d].version < MaxRevision
        /\ debts' = [debts EXCEPT
                       ![d].status  = StatusFor(debts[d].amount, Paid(d) + amount),
                       ![d].version = @ + 1]
        /\ UNCHANGED <<now, people, shares, parent, reading>>
        /\ DebtRowValid(d)' /\ PaymentsUnique'
        /\ DebtGroupValid(d)' /\ LinkRequired(i)'

\* Any debt, the one behind a share included; one cancelled already is cancelled
\* again.
CancelDebt(d, v) ==
    /\ debts[d] # NoDebt
    /\ RequireVersion(debts[d], v)
    /\ debts[d].status # "SETTLED"
    /\ v < MaxRevision
    /\ debts' = [debts EXCEPT ![d].status = "CANCELLED", ![d].cancelledAt = TRUE,
                              ![d].version = v + 1]
    /\ UNCHANGED <<now, acct, tx, people, payments, shares, parent, reading>>
    /\ DebtRowValid(d)' /\ DebtGroupValid(d)'

-----------------------------------------------------------------------------
(* Shares *)

CreateShare(s, d, e, p, amount) ==
    /\ shares[s] = NoShare /\ debts[d] = NoDebt
    /\ RequireExpense(e)
    /\ Known(p)
    /\ amount <= tx[e].amount - RefundTotal(e) - ActiveShareTotal(e)
    /\ debts' = [debts EXCEPT ![d] =
                   DebtRow(p, "RECEIVABLE", "SHARED_EXPENSE", e, amount)]
    /\ shares' = [shares EXCEPT ![s] =
                    [status |-> "ACTIVE", expense |-> e, person |-> p, debt |-> d,
                     amount |-> amount, version |-> 1]]
    /\ UNCHANGED <<now, acct, tx, people, payments, parent, reading>>
    /\ DebtRowValid(d)' /\ SharesUnique'
    /\ ExpenseRecoveryValid(e)' /\ DebtGroupValid(d)'

\* The first read of an update, without a lock.
ReadShare(s) ==
    /\ shares[s] # NoShare
    /\ reading = NoReading
    /\ reading' = [share |-> s, row |-> shares[s]]
    /\ UNCHANGED <<now, acct, tx, book>>

\* `row` is the copy of the share that the first read returned, with its expense
\* and its debt, which never change.
CancelShare(s, e, d, row, v) ==
    /\ RequireExpense(e)
    /\ RequireVersion(row, v)
    /\ Paid(d) = 0
    /\ v < MaxRevision
    /\ debts[d].version < MaxRevision
    /\ shares' = [shares EXCEPT ![s].status = "CANCELLED", ![s].version = v + 1]
    /\ debts' = [debts EXCEPT ![d].status = "CANCELLED", ![d].cancelledAt = TRUE,
                              ![d].version = @ + 1]
    /\ UNCHANGED <<now, acct, tx, people, payments, parent>>
    /\ DebtRowValid(d)'
    /\ ExpenseRecoveryValid(e)' /\ DebtGroupValid(d)'

\* The totals are read from the database, the share's own amount from the copy.
\* Only attributes that differ from the copy are written.
AdjustShare(s, e, d, row, v, amount) ==
    LET others == ActiveShareTotal(e) - row.amount
    IN  /\ RequireExpense(e)
        /\ RequireVersion(row, v)
        /\ amount >= Paid(d)
        /\ amount <= tx[e].amount - RefundTotal(e) - others
        /\ v < MaxRevision
        /\ debts[d].version < MaxRevision
        /\ shares' = [shares EXCEPT ![s].amount = IF amount = row.amount THEN @ ELSE amount,
                                    ![s].version = v + 1]
        /\ debts' = [debts EXCEPT ![d].amount = amount,
                                  ![d].status = StatusFor(amount, Paid(d)),
                                  ![d].version = @ + 1]
        /\ UNCHANGED <<now, acct, tx, people, payments, parent>>
        /\ DebtRowValid(d)'
        /\ ExpenseRecoveryValid(e)' /\ DebtGroupValid(d)'

UpdateShare(s, row, v) ==
    \E e \in Ids, d \in DebtIds :
        /\ e = row.expense /\ d = row.debt
        /\ \/ CancelShare(s, e, d, row, v)
           \/ \E amount \in Amounts : AdjustShare(s, e, d, row, v, amount)

\* The followed client, once the locks it waited for are free.
FinishUpdate(v) ==
    /\ reading # NoReading
    /\ UpdateShare(reading.share, reading.row, v)
    /\ reading' = NoReading

\* Any other client, whose copy is the current row.
UpdateShareAtOnce(s, v) ==
    /\ shares[s] # NoShare
    /\ UpdateShare(s, shares[s], v)
    /\ UNCHANGED reading

\* A refusal, or a broken connection.
AbandonUpdate ==
    /\ reading # NoReading
    /\ reading' = NoReading
    /\ UNCHANGED <<now, acct, tx, book>>

Refund(e, amount, a, i, at) ==
    /\ RequireExpense(e)
    /\ NotFuture(at)
    /\ at >= tx[e].at
    /\ amount <= tx[e].amount - RefundTotal(e)
    /\ ActiveShareTotal(e) <= tx[e].amount - RefundTotal(e) - amount
    /\ AccountTakes(a, "INFLOW", amount, at)
    /\ Insert([j \in {i} |-> Movement("REFUND", "INFLOW", a, amount, at)])
    /\ parent' = [parent EXCEPT ![i] = e]
    /\ Bump({a})
    /\ UNCHANGED <<now, people, debts, payments, shares, reading>>
    /\ ExpenseRecoveryValid(e)' /\ LinkRequired(i)'

-----------------------------------------------------------------------------
(* The specification: the ledger with its accounts open and its expenses posted *)

PostedExpense(a) ==
    [status |-> "POSTED", kind |-> "EXPENSE", effect |-> "OUTFLOW",
     amount |-> Max(Amounts), account |-> a, at |-> 0, classified |-> TRUE,
     reversalOf |-> NoId, version |-> 2]

SInit ==
    /\ now = 0
    /\ \E home \in [Expenses -> Accounts] :
          /\ tx = [i \in Ids |-> IF i \in Expenses THEN PostedExpense(home[i]) ELSE NoRow]
          /\ acct \in [Accounts -> Account]
          /\ \A a \in Accounts :
                /\ acct[a].status = "ACTIVE" /\ acct[a].openedAt = 0
                /\ acct[a].version = 1 + Cardinality({i \in Expenses : home[i] = a})
                /\ acct[a].allowNegative \/ BalanceAt(a, 0) >= 0
    /\ people = [p \in People |-> NoPerson]
    /\ debts = [d \in DebtIds |-> NoDebt]
    /\ payments = {}
    /\ shares = [s \in Shares |-> NoShare]
    /\ parent = [i \in Ids |-> NoId]
    /\ reading = NoReading

LedgerNext == Next /\ UNCHANGED <<book, reading>>

PeopleNext ==
    \E p \in People :
        \/ CreatePerson(p)
        \/ \E v \in 1 .. MaxPersonVersion, status \in {"ACTIVE", "ARCHIVED"} :
              UpdatePerson(p, v, status)

DebtNext ==
    \E d \in DebtIds :
        \/ \E p \in People, direction \in Directions, amount \in Loans :
              RecordExisting(d, p, direction, amount)
        \/ \E p \in People, cash \in CashOrigins, amount \in Loans, a \in Accounts,
              i \in Ids, at \in Times : LendOrBorrow(d, p, cash, amount, a, i, at)
        \/ \E amount \in Amounts, a \in Accounts, i \in Ids, at \in Times :
              Repay(d, amount, a, i, at)
        \/ \E v \in Revisions : CancelDebt(d, v)

ShareNext ==
    \/ \E s \in Shares, d \in DebtIds, e \in Ids, p \in People, amount \in Amounts :
          CreateShare(s, d, e, p, amount)
    \/ \E s \in Shares : ReadShare(s)
    \/ \E v \in Revisions : FinishUpdate(v)
    \/ \E s \in Shares, v \in Revisions : UpdateShareAtOnce(s, v)
    \/ AbandonUpdate

RefundNext ==
    \E e, i \in Ids, amount \in Amounts, a \in Accounts, at \in Times :
        Refund(e, amount, a, i, at)

SNext == LedgerNext \/ PeopleNext \/ DebtNext \/ ShareNext \/ RefundNext

SSpec == SInit /\ [][SNext]_svars

-----------------------------------------------------------------------------
(* Properties *)

\* Every debt and share is well formed, and so is a copy of a share.
STypeOK ==
    /\ debts \in [DebtIds -> Debt \cup {NoDebt}]
    /\ shares \in [Shares -> Share \cup {NoShare}]
    /\ reading = NoReading \/ reading \in [share : Shares, row : Share]

\* What is taken back of an expense, from the shop and from other people, never
\* exceeds it, although an update may count the other shares with a stale amount.
RecoveryWithinExpense ==
    \A e \in Ids : tx[e] # NoRow =>
        MapThenSumSet(LAMBDA i : tx[i].amount, Refunds(e)) + ActiveShareTotal(e)
            <= tx[e].amount

\* A debt tells the truth about its payments: it is settled when they add up to
\* it, however they interleave with adjustments of the share that owns it, and
\* each payment is one movement of money of that amount that pays nothing else.
DebtTellsPayments ==
    /\ \A d \in DebtIds : debts[d].status \notin {"NONE", "CANCELLED"} =>
          /\ Paid(d) <= debts[d].amount
          /\ debts[d].status = "SETTLED" <=> Paid(d) = debts[d].amount
          /\ debts[d].status = "OPEN" <=> Paid(d) = 0
    /\ \A p \in payments : Counts(p.movement) /\ tx[p.movement].amount = p.amount
    /\ \A p, q \in payments : p.movement = q.movement => p = q

\* A share and the claim behind it agree on the person, the expense and the
\* amount, and no two shares have the same claim, whatever copies their updates
\* were computed from.
SharesMatchClaims ==
    /\ \A s \in Shares : shares[s] # NoShare => ClaimMatchesShare(s)
    /\ \A s, q \in Shares :
          shares[s] # NoShare /\ shares[q] # NoShare /\ shares[s].debt = shares[q].debt => s = q

\* The claim of a cancelled share is cancelled, has never been paid and is never
\* paid or reopened, not even by an update that still holds the share as active.
CancelledSharesClaimNothing ==
    \A s \in Shares : shares[s].status = "CANCELLED" =>
        /\ debts[shares[s].debt].status = "CANCELLED"
        /\ Paid(shares[s].debt) = 0

\* Two dead shares of an expense freeze it: the database judges all the shares of
\* an expense whenever one changes, so neither can be cancelled, adjusted or joined
\* by another, and nothing more of the expense is refunded.
TwoDeadSharesFreeze ==
    [][\A e \in Ids :
          Cardinality({s \in ActiveShares(e) : Dead(s)}) >= 2 =>
             /\ ActiveShares(e)' = ActiveShares(e)
             /\ \A s \in ActiveShares(e) : shares'[s] = shares[s]
             /\ Refunds(e)' = Refunds(e)]_svars

\* Every change of a share gives it a new version, so that a client whose version
\* is still the current one has seen the current share.
ShareVersionsAdvance ==
    [][\A s \in Shares : shares[s] # NoShare /\ shares'[s] # shares[s] =>
          shares'[s].version = shares[s].version + 1]_svars
=============================================================================
