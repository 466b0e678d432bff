------------------------------- MODULE Ledger -------------------------------
(***************************************************************************)
(* The server's ledger of one user: accounts, and the life of an expense   *)
(* or an income from draft to posted to reversed.                          *)
(*                                                                         *)
(* Each action is a whole handler.  It is atomic because every posting     *)
(* handler holds FOR UPDATE locks on the rows it judges (the transaction,  *)
(* then the account) until it commits, and reads the balance in a          *)
(* statement issued after the lock was granted.  The draft handlers read   *)
(* the account without a lock, and posting judges all they judged again.   *)
(*                                                                         *)
(* A handler that refuses (a DomainError) changes nothing, so a refusal is *)
(* a stuttering step and is not written.                                   *)
(*                                                                         *)
(* A definition named Mut... is not part of the model: it is the next      *)
(* definition with a plausible bug, which the properties must detect.      *)
(***************************************************************************)
EXTENDS Integers, FiniteSets, FiniteSetsExt

CONSTANTS
    Accounts,    \* identifiers of the user's accounts
    Ids,         \* identifiers of transaction rows, chosen by the clients
    NoId,        \* the null of reversal_of_id
    Amounts,     \* amounts of a movement, always positive
    Openings,    \* opening balances
    Drafts,      \* what the clients write into a draft
    Edits,       \* what the clients ask an account to be
    MaxNow,      \* bound: the last instant of the clock
    Skew,        \* how far ahead of the clock a posting may be dated
    MaxVersion   \* bound: the last version a row may reach

ASSUME IdsAssumption     == NoId \notin Ids
ASSUME FiniteAssumption  == IsFiniteSet(Accounts) /\ IsFiniteSet(Ids)
ASSUME AmountsAssumption == Amounts \subseteq Nat \ {0} /\ Openings \subseteq Int
ASSUME BoundsAssumption  == MaxNow \in Nat /\ Skew \in Nat /\ MaxVersion \in Nat \ {0}

CoreKinds == {"EXPENSE", "INCOME"}
Kinds     == CoreKinds \cup {"REVERSAL", "TRANSFER_OUT", "TRANSFER_IN",
                             "TRANSFER_FEE", "RECONCILIATION_ADJUSTMENT", "REFUND",
                             "LOAN_PRINCIPAL_OUT", "LOAN_PRINCIPAL_IN",
                             "DEBT_REPAYMENT_IN", "DEBT_REPAYMENT_OUT"}
Effects   == {"INFLOW", "OUTFLOW"}
Times     == 0 .. MaxNow + Skew
Versions  == 1 .. MaxVersion

\* The rows of the accounts and transactions tables.  `classified` stands for
\* the category, without which a draft exists but cannot be posted.
Account == [status : {"ACTIVE", "ARCHIVED", "CLOSED"}, opening : Openings,
            allowNegative : BOOLEAN, openedAt : Times, version : Versions]
Row     == [status : {"DRAFT", "POSTED", "REVERSED"}, kind : Kinds,
            effect : Effects, amount : Amounts, account : Accounts, at : Times,
            classified : BOOLEAN, reversalOf : Ids \cup {NoId},
            version : Versions]

\* What a request carries.
Draft       == [kind : CoreKinds, amount : Amounts, account : Accounts,
                at : Times, classified : BOOLEAN]
AccountEdit == [status : {"ACTIVE", "ARCHIVED", "CLOSED"}, opening : Openings,
                allowNegative : BOOLEAN, openedAt : Times]

ASSUME RequestsAssumption == Drafts \subseteq Draft /\ Edits \subseteq AccountEdit

NoAccount == [status |-> "NONE"]
NoRow     == [status |-> "NONE"]

VARIABLES now, acct, tx
vars == <<now, acct, tx>>

-----------------------------------------------------------------------------
(* Reading the ledger *)

Exists(a)   == acct[a].status # "NONE"
Counts(i)   == tx[i].status \in {"POSTED", "REVERSED"}
Signed(row) == IF row.effect = "INFLOW" THEN row.amount ELSE -row.amount

\* A reversed original keeps counting: its reversal offsets it.
Movements(a) == {i \in Ids : Counts(i) /\ tx[i].account = a}

BalanceAt(a, t) ==
    acct[a].opening
      + MapThenSumSet(LAMBDA i : Signed(tx[i]), {i \in Movements(a) : tx[i].at <= t})

EffectFor(kind) == IF kind = "EXPENSE" THEN "OUTFLOW" ELSE "INFLOW"
Opposite(effect) == IF effect = "INFLOW" THEN "OUTFLOW" ELSE "INFLOW"

NotFuture(t) == t <= now + Skew

\* An outflow is judged against the balance at the later of now and its own date.
ProjectedBalanceAllows(a, effect, amount, at) ==
    \/ acct[a].allowNegative
    \/ effect = "INFLOW"
    \/ BalanceAt(a, Max({now, at})) - amount >= 0

MutForgetsToBump(accounts) == UNCHANGED acct

\* Every write that changes what an account holds bumps its version.
Bump(accounts) ==
    /\ \A a \in accounts : acct[a].version < MaxVersion
    /\ acct' = [a \in Accounts |->
                  IF a \in accounts
                  THEN [acct[a] EXCEPT !.version = @ + 1]
                  ELSE acct[a]]

MutVersionUnchecked(row, v) == TRUE

\* The guards the handlers share.
RequireVersion(row, v) == v = row.version

MutAnyRowIsDraft(row) == row # NoRow

RequireDraft(row) == row.status = "DRAFT"

MutAnyKindReversible(row) == row.status = "POSTED"

RequireReversible(row) == row.status = "POSTED" /\ row.kind \in CoreKinds

-----------------------------------------------------------------------------
(* Accounts *)

AccountFields == {"status", "opening", "allowNegative", "openedAt"}

MutAlwaysMutable(a) == TRUE

\* Opening balance and date are frozen by the first posting.
FinancialFieldsMutable(a) == Movements(a) = {}

\* An account that will not allow a negative balance must have none now.
NegativePolicyAccepts(a, new) ==
    \/ new.allowNegative
    \/ /\ new.opening >= 0
       /\ BalanceAt(a, now) - acct[a].opening + new.opening >= 0

CreateAccount(a, opening, allowNegative, openedAt) ==
    /\ ~Exists(a)
    /\ allowNegative \/ opening >= 0
    /\ NotFuture(openedAt)
    /\ acct' = [acct EXCEPT ![a] =
                  [status |-> "ACTIVE", opening |-> opening, version |-> 1,
                   allowNegative |-> allowNegative, openedAt |-> openedAt]]
    /\ UNCHANGED <<now, tx>>

\* `new` holds the fields as the request leaves them, `renamed` whether it also
\* changes one of no financial meaning.  A request that changes nothing is a
\* stutter.
UpdateAccount(a, v, new, renamed) ==
    LET old     == acct[a]
        changed == {f \in AccountFields : new[f] # old[f]}
                     \cup (IF renamed THEN {"name"} ELSE {})
    IN  /\ Exists(a)
        /\ RequireVersion(old, v)
        /\ changed # {}
        /\ old.status # "ACTIVE" => changed = {"status"}
        /\ old.status = "CLOSED" => new.status = "ACTIVE"
        /\ changed \cap {"opening", "openedAt"} # {} => FinancialFieldsMutable(a)
        /\ NegativePolicyAccepts(a, new)
        /\ v < MaxVersion
        /\ acct' = [acct EXCEPT ![a] =
                      [status |-> new.status, opening |-> new.opening,
                       allowNegative |-> new.allowNegative,
                       openedAt |-> new.openedAt, version |-> v + 1]]
        /\ UNCHANGED <<now, tx>>

-----------------------------------------------------------------------------
(* Transactions *)

\* What a draft may say: an account of any status, no earlier than its opening.
DraftAllowed(draft) ==
    /\ Exists(draft.account)
    /\ draft.kind \in CoreKinds
    /\ draft.at >= acct[draft.account].openedAt

MutDraftRowRestarts(draft, version) ==
    [status |-> "DRAFT", kind |-> draft.kind, effect |-> EffectFor(draft.kind),
     amount |-> draft.amount, account |-> draft.account, at |-> draft.at,
     classified |-> draft.classified, reversalOf |-> NoId, version |-> 1]

DraftRow(draft, version) ==
    [status |-> "DRAFT", kind |-> draft.kind, effect |-> EffectFor(draft.kind),
     amount |-> draft.amount, account |-> draft.account, at |-> draft.at,
     classified |-> draft.classified, reversalOf |-> NoId, version |-> version]

CreateDraft(i, draft) ==
    /\ tx[i] = NoRow
    /\ DraftAllowed(draft)
    /\ tx' = [tx EXCEPT ![i] = DraftRow(draft, 1)]
    /\ UNCHANGED <<now, acct>>

UpdateDraft(i, v, draft) ==
    /\ RequireDraft(tx[i])
    /\ RequireVersion(tx[i], v)
    /\ DraftAllowed(draft)
    /\ v < MaxVersion
    /\ tx' = [tx EXCEPT ![i] = DraftRow(draft, v + 1)]
    /\ UNCHANGED <<now, acct>>

Post(i, v) ==
    LET row == tx[i]
    IN  /\ RequireDraft(row)
        /\ RequireVersion(row, v)
        /\ row.kind \in CoreKinds
        /\ NotFuture(row.at)
        /\ acct[row.account].status = "ACTIVE"
        /\ row.at >= acct[row.account].openedAt
        /\ row.classified
        /\ ProjectedBalanceAllows(row.account, row.effect, row.amount, row.at)
        /\ v < MaxVersion
        /\ tx' = [tx EXCEPT ![i].status = "POSTED", ![i].version = v + 1]
        /\ Bump({row.account})
        /\ UNCHANGED now

MutReversalAnyDate(row, at) == NotFuture(at)

\* A reversal is never dated before what it reverses.
ReversalDateAllowed(row, at) == NotFuture(at) /\ at >= row.at

\* `r` is the identifier of the reversal, chosen by the client.
Reverse(i, v, r, at) ==
    LET row == tx[i]
    IN  /\ RequireReversible(row)
        /\ RequireVersion(row, v)
        /\ ReversalDateAllowed(row, at)
        /\ acct[row.account].status = "ACTIVE"
        /\ ProjectedBalanceAllows(row.account, Opposite(row.effect), row.amount, at)
        /\ tx[r] = NoRow
        /\ v < MaxVersion
        /\ tx' = [tx EXCEPT
                    ![i] = [row EXCEPT !.status = "REVERSED", !.version = v + 1],
                    ![r] = [row EXCEPT !.status = "POSTED", !.kind = "REVERSAL",
                                       !.effect = Opposite(row.effect), !.at = at,
                                       !.reversalOf = i, !.version = 1]]
        /\ Bump({row.account})
        /\ UNCHANGED now

-----------------------------------------------------------------------------
(* Movements that are born posted: transfers, corrections, debts, refunds *)

Movement(kind, effect, a, amount, at) ==
    [status |-> "POSTED", kind |-> kind, effect |-> effect, amount |-> amount,
     account |-> a, at |-> at, classified |-> FALSE, reversalOf |-> NoId,
     version |-> 1]

\* Rows are inserted under fresh, distinct identifiers.
Insert(rows) ==
    /\ \A i \in DOMAIN rows : tx[i] = NoRow
    /\ \A i \in DOMAIN rows : rows[i].amount \in Amounts
    /\ tx' = [i \in Ids |-> IF i \in DOMAIN rows THEN rows[i] ELSE tx[i]]

-----------------------------------------------------------------------------
(* The specification *)

Tick ==
    /\ now < MaxNow
    /\ now' = now + 1
    /\ UNCHANGED <<acct, tx>>

Init ==
    /\ now = 0
    /\ acct = [a \in Accounts |-> NoAccount]
    /\ tx = [i \in Ids |-> NoRow]

AccountNext ==
    \E a \in Accounts :
        \/ \E opening \in Openings, allowNegative \in BOOLEAN, openedAt \in Times :
              CreateAccount(a, opening, allowNegative, openedAt)
        \/ \E v \in Versions, new \in Edits, renamed \in BOOLEAN :
              UpdateAccount(a, v, new, renamed)

TransactionNext ==
    \E i \in Ids :
        \/ \E draft \in Drafts : CreateDraft(i, draft)
        \/ \E v \in Versions, draft \in Drafts : UpdateDraft(i, v, draft)
        \/ \E v \in Versions : Post(i, v)
        \/ \E v \in Versions, r \in Ids, at \in Times : Reverse(i, v, r, at)

Next == Tick \/ AccountNext \/ TransactionNext

Spec == Init /\ [][Next]_vars

-----------------------------------------------------------------------------
(* Properties *)

\* Every row is well formed.
TypeOK ==
    /\ now \in 0 .. MaxNow
    /\ acct \in [Accounts -> Account \cup {NoAccount}]
    /\ tx \in [Ids -> Row \cup {NoRow}]

\* An account that does not allow a negative balance never shows one: the check
\* that each posting, reversal and account edit makes on its own adds up, for
\* backdated movements and through the passing of time.
NonNegative ==
    \A a \in Accounts :
        Exists(a) /\ ~acct[a].allowNegative => BalanceAt(a, now) >= 0

Reverses(r, o) == tx[r] # NoRow /\ tx[r].reversalOf = o

Offsets(r, o) ==
    /\ tx[r].status = "POSTED" /\ tx[o].status = "REVERSED"
    /\ tx[r].effect = Opposite(tx[o].effect)
    /\ tx[r].amount = tx[o].amount
    /\ tx[r].account = tx[o].account
    /\ tx[r].at >= tx[o].at

\* A movement is marked reversed exactly when one posted row, of the opposite
\* effect and the same amount on the same account, offsets it: the two rows are
\* written by one handler and a reversal is never repeated or reversed.
ReversalCoherent ==
    /\ \A r, o \in Ids : Reverses(r, o) => Offsets(r, o)
    /\ \A o \in Ids : tx[o].status = "REVERSED" => \E r \in Ids : Reverses(r, o)
    /\ \A o, r, q \in Ids : Reverses(r, o) /\ Reverses(q, o) => r = q

\* No movement that counts is dated before its account was opened: the opening
\* date cannot move once something is posted, and what is posted obeys it, even
\* when the draft was written under an earlier opening date.
MovementsAfterOpening ==
    \A i \in Ids : Counts(i) => /\ Exists(tx[i].account)
                                /\ tx[i].at >= acct[tx[i].account].openedAt

\* The version of an account tells everything a posting may be judged by: it
\* grows in every step that changes the account or the movements it holds, and
\* the opening balance never changes under a movement.
AccountVersionCovers ==
    [][\A a \in Accounts : Exists(a) =>
          /\ acct'[a] # acct[a] \/ Movements(a)' # Movements(a)
                => acct'[a].version = acct[a].version + 1
          /\ Movements(a) # {} => acct'[a].opening = acct[a].opening]_vars

\* History is append-only: a row that counts keeps counting, with the same
\* content, and only ever goes from posted to reversed.
HistoryIsAppendOnly ==
    [][\A i \in Ids : Counts(i) =>
          \/ tx'[i] = tx[i]
          \/ /\ tx[i].status = "POSTED"
             /\ tx'[i] = [tx[i] EXCEPT !.status = "REVERSED", !.version = @ + 1]]_vars

-----------------------------------------------------------------------------
(* Refinement *)

Promised == INSTANCE Bank WITH
    opened    <- {a \in Accounts : Exists(a)},
    used      <- {a \in Accounts : Movements(a) # {}},
    protected <- {a \in Accounts : Exists(a) /\ ~acct[a].allowNegative},
    balance   <- [a \in Accounts |-> IF Exists(a) THEN BalanceAt(a, now) ELSE 0]

\* When no posting is dated ahead of the clock, the ledger is a bank: drafts, row
\* versions, backdating and the passing of time are invisible in the balances,
\* and each posting, reversal, transfer or correction is one movement of money
\* that the policy of every account it touches allows.
ImplementsBank == Promised!BankSpec
=============================================================================
