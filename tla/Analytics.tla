----------------------------- MODULE Analytics -----------------------------
(***************************************************************************)
(* What the dashboard makes of debts, shares and refunds: money in         *)
(* accounts, net receivables and their sum, the personal net position,     *)
(* beside spending reduced by what other people owe for shared expenses.   *)
(* The period is all time; breakdowns and currencies are left out.         *)
(***************************************************************************)
EXTENDS Sharing, Classification

AllTime == MaxNow + Skew + 1

\* What one report reads of the book.
Facts ==
    [shares |-> {s \in Shares : shares[s].status = "ACTIVE"},
     debts  |-> {d \in DebtIds : debts[d] # NoDebt /\ debts[d].status # "CANCELLED"}]

NetReceivables ==
    MapThenSumSet(LAMBDA d : LET remaining == Max({0, debts[d].amount - Paid(d)})
                             IN  IF debts[d].direction = "RECEIVABLE" THEN remaining
                                                                      ELSE -remaining,
                  Facts.debts)

ShareTotal(e) ==
    MapThenSumSet(LAMBDA s : shares[s].amount, {s \in Facts.shares : shares[s].expense = e})

MutReversalKeepsShare(i) ==
    IF tx[i].kind = "EXPENSE" THEN ShareTotal(i) * ClassificationOf(i).spending ELSE 0

\* The part of a movement's spending that other people bear: an expense's active
\* shares, taken back when the expense is.
ShareAdjustment(i) ==
    IF tx[i].kind \in {"EXPENSE", "REVERSAL"} /\ tx[Original(i)].kind = "EXPENSE"
    THEN ShareTotal(Original(i)) * ClassificationOf(i).spending
    ELSE 0

Kpis ==
    LET gross    == GrossSpending(0, AllTime)
        personal == gross - MapThenSumSet(ShareAdjustment, InPeriod(0, AllTime))
    IN  [moneyInAccounts |-> MoneyInAccounts(AllTime),
         netReceivables  |-> NetReceivables,
         netPosition     |-> MoneyInAccounts(AllTime) + NetReceivables,
         netIncome       |-> Income(0, AllTime) - personal]

-----------------------------------------------------------------------------
(* Properties *)

\* What a debt is worth to the user, repayments included: once cancelled, what it
\* was paid.
Worth(d) == IF debts[d].status = "CANCELLED" THEN Paid(d) ELSE debts[d].amount

\* What the ledger and the shares already account for: the principal that moved, or
\* the part of an expense in force that an active share takes off the spending.
AccountedFor(d) ==
    CASE debts[d].origin = "EXISTING" -> 0
      [] debts[d].origin \in {"LEND_NOW", "BORROW_NOW"} -> debts[d].amount
      [] debts[d].origin = "SHARED_EXPENSE" ->
            IF /\ tx[debts[d].originTx].status = "POSTED"
               /\ \E s \in Shares : shares[s].status = "ACTIVE" /\ shares[s].debt = d
            THEN debts[d].amount ELSE 0

Unexplained(d) ==
    IF debts[d].direction = "RECEIVABLE" THEN Worth(d) - AccountedFor(d)
                                         ELSE AccountedFor(d) - Worth(d)

\* Spending, income and the personal net position tell one story: the position is
\* the opening balances and net income, and beyond them exactly the debts that
\* existed before, what cancelled debts wrote off, and the claims that outlive a
\* reversed expense.  Repayments, loans, refunds, shares and their adjustments
\* leave nothing else over, in whatever order they come.
NetPositionExplained ==
    Kpis.netPosition
      = OpeningTotal(0, AllTime) + Kpis.netIncome
          + MapThenSumSet(Unexplained, {d \in DebtIds : debts[d] # NoDebt})
=============================================================================
