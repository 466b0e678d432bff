----------------------- MODULE MCFinancialOperations -----------------------
(* Instances of FinancialOperations for TLC. *)
EXTENDS FinancialOperations, Classification, TLC

CONSTANTS a1, a2

Symmetry == Permutations(Ids)

\* Other clients spend from the first account, and change the negative-balance
\* policy of an account.
OthersDrafts == {d \in Draft : d.classified /\ d.account = a1 /\ d.amount = 1
                               /\ d.kind = "EXPENSE"}
OthersEdits  == {e \in AccountEdit : e.status = "ACTIVE" /\ (e.openedAt = 1 <=> e.allowNegative)}

\* One of each kind: a transfer with a fee from the first account to the second, a
\* reconciliation of the past, and a reallocation that the first account balances.
OneOfEach ==
    {c \in TransferCommands : /\ c.source = a1 /\ c.destination = a2 /\ c.at = 0
                              /\ c.fee # NoFee /\ c.fee.account = a1}
      \cup {c \in ReconciliationCommands : c.account = a1 /\ c.at = 0 /\ c.actual = 0}
      \cup {c \in ReallocationCommands : /\ c.accounts = Accounts /\ c.balancing = a1
                                         /\ c.at = 1 /\ c.requested = [a \in {a2} |-> 2]}
=============================================================================
