--------------------------- MODULE Classification ---------------------------
(***************************************************************************)
(* How the dashboard counts the ledger: one table gives each kind of       *)
(* movement its weight in spending and in income, and says whether it is   *)
(* cash; a reversal takes back what its original counted.                  *)
(*                                                                         *)
(* The dashboard reads in one repeatable-read transaction, so its sums are *)
(* functions of one state.  Every account is included in the total and has *)
(* the base currency; a period runs from its first instant to the instant  *)
(* before `to`.                                                            *)
(***************************************************************************)
EXTENDS Ledger

Weights(spending, income, flow) ==
    [spending |-> spending, income |-> income, flow |-> flow]

MutFeesAreFree ==
    [kind \in Kinds \ {"REVERSAL"} |->
        CASE kind = "EXPENSE" -> Weights(1, 0, "EXTERNAL")
          [] kind = "INCOME" -> Weights(0, 1, "EXTERNAL")
          [] kind = "REFUND" -> Weights(-1, 0, "EXTERNAL")
          [] kind = "RECONCILIATION_ADJUSTMENT" -> Weights(0, 0, "NON_CASH_ADJUSTMENT")
          [] OTHER -> Weights(0, 0, "INTERNAL")]

Classifications ==
    [kind \in Kinds \ {"REVERSAL"} |->
        CASE kind \in {"EXPENSE", "TRANSFER_FEE"} -> Weights(1, 0, "EXTERNAL")
          [] kind = "INCOME" -> Weights(0, 1, "EXTERNAL")
          [] kind = "REFUND" -> Weights(-1, 0, "EXTERNAL")
          [] kind \in {"LOAN_PRINCIPAL_OUT", "LOAN_PRINCIPAL_IN",
                       "DEBT_REPAYMENT_IN", "DEBT_REPAYMENT_OUT"} -> Weights(0, 0, "EXTERNAL")
          [] kind \in {"TRANSFER_OUT", "TRANSFER_IN"} -> Weights(0, 0, "INTERNAL")
          [] kind = "RECONCILIATION_ADJUSTMENT" -> Weights(0, 0, "NON_CASH_ADJUSTMENT")]

Reversed(class) == [class EXCEPT !.spending = -@, !.income = -@]

\* A reversal is judged by the movement it takes back.
Original(i) == IF tx[i].kind = "REVERSAL" THEN tx[i].reversalOf ELSE i

ClassificationOf(i) ==
    IF tx[i].kind = "REVERSAL" THEN Reversed(Classifications[tx[Original(i)].kind])
                               ELSE Classifications[tx[i].kind]

-----------------------------------------------------------------------------
(* The sums *)

CountedBefore(to) == {i \in Ids : Counts(i) /\ tx[i].at < to}

InPeriod(from, to) == {i \in CountedBefore(to) : from <= tx[i].at}

GrossSpending(from, to) ==
    MapThenSumSet(LAMBDA i : tx[i].amount * ClassificationOf(i).spending, InPeriod(from, to))

Income(from, to) ==
    MapThenSumSet(LAMBDA i : tx[i].amount * ClassificationOf(i).income, InPeriod(from, to))

\* What the period's movements of cash brought in, less what they took out.
CashFlow(from, to) ==
    MapThenSumSet(LAMBDA i : Signed(tx[i]),
        {i \in InPeriod(from, to) : ClassificationOf(i).flow # "NON_CASH_ADJUSTMENT"})

ReconciliationAdjustments(from, to) ==
    MapThenSumSet(LAMBDA i : Signed(tx[i]),
        {i \in InPeriod(from, to) : ClassificationOf(i).flow = "NON_CASH_ADJUSTMENT"})

AccountsOpen(from, to) ==
    {a \in Accounts : Exists(a) /\ from <= acct[a].openedAt /\ acct[a].openedAt < to}

OpeningTotal(from, to) == MapThenSumSet(LAMBDA a : acct[a].opening, AccountsOpen(from, to))

MoneyInAccounts(to) ==
    OpeningTotal(0, to)
      + MapThenSumSet(LAMBDA i : Signed(tx[i]),
            {i \in CountedBefore(to) : tx[i].account \in AccountsOpen(0, to)})

-----------------------------------------------------------------------------
(* Properties *)

\* The dashboard adds up in a ledger of income, expenses, transfers, corrections
\* and their reversals: over every period, what the money in accounts gained is
\* the opening balances of the accounts opened, income less gross spending, and
\* the adjustments.  No movement escapes the table, principal cancels out because
\* both its sides have one date, a fee is spending, a reversal counts when it is
\* dated and not when its original was, and no movement precedes its account.
PeriodAddsUp ==
    \A from, to \in 0 .. MaxNow + Skew + 1 : from < to =>
        /\ MoneyInAccounts(to) - MoneyInAccounts(from)
             = OpeningTotal(from, to) + Income(from, to) - GrossSpending(from, to)
                 + ReconciliationAdjustments(from, to)
        /\ MoneyInAccounts(to) - MoneyInAccounts(from)
             = OpeningTotal(from, to) + CashFlow(from, to)
                 + ReconciliationAdjustments(from, to)
=============================================================================
