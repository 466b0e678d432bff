-------------------------------- MODULE Bank --------------------------------
(***************************************************************************)
(* What the ledger promises its user, without rows, drafts, versions or    *)
(* dates: each account shows one balance, a protected account never goes   *)
(* below zero, an account in use changes only by movements, and moving     *)
(* money between accounts loses nothing but the fee.                       *)
(***************************************************************************)
EXTENDS Integers, FiniteSetsExt, TLAPS

CONSTANTS
    Accounts,
    Amounts    \* positive

VARIABLES
    opened,     \* accounts the user has
    used,       \* accounts some movement has touched
    protected,  \* accounts that do not allow a negative balance
    balance     \* what each account shows
bank == <<opened, used, protected, balance>>

TotalBalance == MapThenSumSet(LAMBDA a : balance[a], Accounts)

\* A protected account is above zero, or at it.
Solvent == \A a \in protected : balance[a] >= 0

BankTypeOK ==
    /\ opened \subseteq Accounts /\ used \subseteq opened /\ protected \subseteq opened
    /\ balance \in [Accounts -> Int]

BankInit ==
    /\ BankTypeOK
    /\ used = {}
    /\ Solvent

-----------------------------------------------------------------------------
\* A new account, with any opening balance its policy accepts.
Open(a) ==
    /\ a \notin opened
    /\ opened' = opened \cup {a}
    /\ protected' \in {protected, protected \cup {a}}
    /\ balance' \in [Accounts -> Int]
    /\ \A b \in Accounts \ {a} : balance'[b] = balance[b]
    /\ a \in protected' => balance'[a] >= 0
    /\ UNCHANGED used

\* A new policy, and while the account is unused a new opening balance.
Amend(a) ==
    /\ a \in opened
    /\ protected' \in {protected \ {a}, protected \cup {a}}
    /\ balance' \in [Accounts -> Int]
    /\ \A b \in Accounts \ {a} : balance'[b] = balance[b]
    /\ a \in used => balance'[a] = balance[a]
    /\ a \in protected' => balance'[a] >= 0
    /\ UNCHANGED <<opened, used>>

Deposit(a, x) ==
    /\ a \in opened
    /\ used' = used \cup {a}
    /\ balance' = [balance EXCEPT ![a] = @ + x]
    /\ UNCHANGED <<opened, protected>>

Withdraw(a, x) ==
    /\ a \in opened
    /\ a \in protected => balance[a] >= x
    /\ used' = used \cup {a}
    /\ balance' = [balance EXCEPT ![a] = @ - x]
    /\ UNCHANGED <<opened, protected>>

\* Money moves among the accounts of S; only the fee leaves them.
Redistribute(S, fee) ==
    /\ S \subseteq opened
    /\ used' = used \cup S
    /\ balance' \in [Accounts -> Int]
    /\ \A b \in Accounts \ S : balance'[b] = balance[b]
    /\ \A a \in S \cap protected : balance'[a] >= 0
    /\ TotalBalance' = TotalBalance - fee
    /\ UNCHANGED <<opened, protected>>

BankNext ==
    \/ \E a \in Accounts : Open(a) \/ Amend(a)
    \/ \E a \in Accounts, x \in Amounts : Deposit(a, x) \/ Withdraw(a, x)
    \/ \E S \in SUBSET Accounts, fee \in Amounts \cup {0} : Redistribute(S, fee)

BankSpec == BankInit /\ [][BankNext]_bank

-----------------------------------------------------------------------------
(* What the bank guarantees, hence what any ledger that implements it shows *)
(* its user.                                                                *)

LEMMA BankTypeStep ==
    ASSUME Amounts \subseteq Nat \ {0}, BankTypeOK, [BankNext]_bank
    PROVE  BankTypeOK'
<1>1. \A x \in Amounts : x \in Int
    OBVIOUS
<1> QED
    BY <1>1
    DEF BankTypeOK, BankNext, bank, Open, Amend, Deposit, Withdraw, Redistribute

LEMMA SolventStep ==
    ASSUME Amounts \subseteq Nat \ {0}, BankTypeOK, Solvent, [BankNext]_bank
    PROVE  Solvent'
<1>1. \A x \in Amounts : x \in Int /\ x > 0
    OBVIOUS
<1>2. CASE UNCHANGED bank
    BY <1>2 DEF Solvent, bank
<1>3. ASSUME NEW a \in Accounts, Open(a) \/ Amend(a)
      PROVE  Solvent'
    BY <1>3 DEF BankTypeOK, Solvent, Open, Amend
<1>4. ASSUME NEW a \in Accounts, NEW x \in Amounts, Deposit(a, x) \/ Withdraw(a, x)
      PROVE  Solvent'
    BY <1>1, <1>4 DEF BankTypeOK, Solvent, Deposit, Withdraw
<1>5. ASSUME NEW S \in SUBSET Accounts, NEW fee \in Amounts \cup {0}, Redistribute(S, fee)
      PROVE  Solvent'
    BY <1>5 DEF BankTypeOK, Solvent, Redistribute
<1> QED
    BY <1>2, <1>3, <1>4, <1>5 DEF BankNext

\* A protected account is never below zero.
THEOREM BankSolvent ==
    ASSUME Amounts \subseteq Nat \ {0}
    PROVE  BankSpec => []Solvent
<1>1. BankInit => BankTypeOK /\ Solvent
    BY DEF BankInit
<1>2. BankTypeOK /\ Solvent /\ [BankNext]_bank => BankTypeOK' /\ Solvent'
    BY BankTypeStep, SolventStep
<1> QED
    BY <1>1, <1>2, PTL DEF BankSpec
=============================================================================
