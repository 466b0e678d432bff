--------------------------- MODULE SharingProofs ---------------------------
(***************************************************************************)
(* Proofs about Sharing: shares agree with their claims, a cancelled share *)
(* claims nothing, debts tell what was paid of them, an expense covers     *)
(* what is taken back of it, two dead shares freeze it, and the net        *)
(* position of the dashboard is explained, for every set of people, debts  *)
(* and shares and whatever copy an update was computed from.               *)
(***************************************************************************)
EXTENDS Analytics, LedgerProofs

USE DEF Times, Versions, CoreKinds, Kinds, Effects, RequireDraft, RequireReversible,
        FinancialFieldsMutable, Revisions, Directions, Origins, RequireVersion

-----------------------------------------------------------------------------
(* The inductive invariant *)

\* The debt behind a share exists, so no new debt takes its place.
ClaimsExist == \A s \in Shares : shares[s] # NoShare => debts[shares[s].debt] # NoDebt

\* A cancelled debt is dated: an update that would reopen it meets this.
DebtsDated ==
    \A d \in DebtIds : debts[d] # NoDebt =>
        (debts[d].status = "CANCELLED" <=> debts[d].cancelledAt)

\* The copy may be stale, but never about the expense and the debt.
CopyNamesTheShare ==
    reading # NoReading =>
        /\ shares[reading.share] # NoShare
        /\ reading.row.expense = shares[reading.share].expense
        /\ reading.row.debt = shares[reading.share].debt

BookInv ==
    /\ STypeOK /\ ClaimsExist /\ DebtsDated /\ CopyNamesTheShare
    /\ SharesMatchClaims /\ CancelledSharesClaimNothing

-----------------------------------------------------------------------------
(* Payments *)

LEMMA PaidOf ==
    ASSUME NEW d, {p \in payments : p.debt = d}' = {p \in payments : p.debt = d}
    PROVE  Paid(d)' = Paid(d)
BY DEF Paid

LEMMA PaidUnchanged ==
    ASSUME payments' = payments, NEW d
    PROVE  Paid(d)' = Paid(d)
BY PaidOf

-----------------------------------------------------------------------------
(* One debt changes and no share does *)

LEMMA DebtStep ==
    ASSUME BookInv, shares' = shares, reading' = reading,
           NEW d \in DebtIds, NEW new \in Debt, debts' = [debts EXCEPT ![d] = new],
           new.status = "CANCELLED" <=> new.cancelledAt,
           debts[d] # NoDebt =>
              /\ new.origin = debts[d].origin /\ new.direction = debts[d].direction
              /\ new.originTx = debts[d].originTx /\ new.person = debts[d].person
              /\ new.amount = debts[d].amount
              /\ debts[d].status = "CANCELLED" => new.status = "CANCELLED",
           \A x \in DebtIds : debts[x].status = "CANCELLED" => Paid(x)' = Paid(x)
    PROVE  BookInv'
<1> USE DEF BookInv
<1>1. new # NoDebt
    BY DEF Debt, NoDebt
<1>2. STypeOK' /\ ClaimsExist' /\ DebtsDated' /\ CopyNamesTheShare'
    BY <1>1 DEF STypeOK, ClaimsExist, DebtsDated, CopyNamesTheShare
<1>3. \A s \in Shares : shares[s] # NoShare => shares[s].debt \in DebtIds
    BY DEF STypeOK, Share
<1>4. SharesMatchClaims'
    BY <1>3 DEF STypeOK, ClaimsExist, SharesMatchClaims, ClaimMatchesShare
<1>5. CancelledSharesClaimNothing'
    <2> SUFFICES ASSUME NEW s \in Shares, shares[s].status = "CANCELLED"
                 PROVE  debts'[shares[s].debt].status = "CANCELLED" /\ Paid(shares[s].debt)' = 0
        BY DEF CancelledSharesClaimNothing
    <2>1. shares[s] # NoShare /\ shares[s].debt \in DebtIds
        BY <1>3 DEF NoShare
    <2>2. debts[shares[s].debt].status = "CANCELLED" /\ Paid(shares[s].debt) = 0
        BY DEF CancelledSharesClaimNothing
    <2>3. Paid(shares[s].debt)' = 0
        BY <2>1, <2>2
    <2>4. debts'[shares[s].debt].status = "CANCELLED"
        BY <2>1, <2>2 DEF STypeOK, ClaimsExist
    <2> QED
        BY <2>3, <2>4
<1> QED
    BY <1>2, <1>4, <1>5

LEMMA DebtRowType ==
    ASSUME NEW p \in People, NEW direction \in Directions, NEW origin \in Origins,
           NEW originTx \in Ids \cup {NoId}, NEW amount \in Amounts
    PROVE  /\ DebtRow(p, direction, origin, originTx, amount) \in Debt
           /\ DebtRow(p, direction, origin, originTx, amount).status = "OPEN"
           /\ DebtRow(p, direction, origin, originTx, amount).cancelledAt = FALSE
BY RevisionAssumption DEF RevisionAssumption, DebtRow, Debt

LEMMA DebtNextStep ==
    ASSUME BookInv, DebtNext
    PROVE  BookInv'
<1> USE LoansAssumption DEF LoansAssumption
<1>1. ASSUME NEW d \in DebtIds, NEW p \in People, NEW direction \in Directions,
             NEW amount \in Loans, RecordExisting(d, p, direction, amount)
      PROVE  BookInv'
    <2>1. \A x \in DebtIds : Paid(x)' = Paid(x)
        BY <1>1, PaidUnchanged DEF RecordExisting
    <2> QED
        BY <1>1, <2>1, DebtStep, DebtRowType DEF RecordExisting
<1>2. ASSUME NEW d \in DebtIds, NEW p \in People, NEW cash \in CashOrigins,
             NEW amount \in Loans, NEW a \in Accounts, NEW i \in Ids, NEW at \in Times,
             LendOrBorrow(d, p, cash, amount, a, i, at)
      PROVE  BookInv'
    <2>1. \A x \in DebtIds : Paid(x)' = Paid(x)
        BY <1>2, PaidUnchanged DEF LendOrBorrow
    <2>2. cash.direction \in Directions /\ cash.origin \in Origins
        BY DEF CashOrigins
    <2> QED
        BY <1>2, <2>1, <2>2, DebtStep, DebtRowType DEF LendOrBorrow
<1>3. ASSUME NEW d \in DebtIds, NEW amount \in Amounts, NEW a \in Accounts, NEW i \in Ids,
             NEW at \in Times, Repay(d, amount, a, i, at)
      PROVE  BookInv'
    <2> DEFINE new == [debts[d] EXCEPT
                          !.status = StatusFor(debts[d].amount, Paid(d) + amount),
                          !.version = @ + 1]
    <2>1. debts[d].status \in {"OPEN", "PARTIALLY_PAID"} /\ debts[d] \in Debt /\ debts[d] # NoDebt
        BY <1>3 DEF Repay, AcceptsPayment, BookInv, STypeOK, NoDebt
    <2>2. debts[d].version + 1 \in Revisions
        BY <1>3, <2>1, RevisionAssumption DEF Repay, Debt, RevisionAssumption
    <2>3. StatusFor(debts[d].amount, Paid(d) + amount) \in {"OPEN", "PARTIALLY_PAID", "SETTLED"}
        BY DEF StatusFor
    <2>4. debts' = [debts EXCEPT ![d] = new]
        BY <1>3 DEF Repay
    <2>5. new \in Debt /\ new.status # "CANCELLED"
        BY <2>1, <2>2, <2>3 DEF Debt
    <2>6. ~new.cancelledAt
        <3>1. ~debts[d].cancelledAt
            BY <2>1 DEF BookInv, DebtsDated
        <3> QED
            BY <2>1, <3>1 DEF Debt
    <2>7. \A x \in DebtIds : debts[x].status = "CANCELLED" => Paid(x)' = Paid(x)
        <3> SUFFICES ASSUME NEW x \in DebtIds, debts[x].status = "CANCELLED"
                     PROVE  Paid(x)' = Paid(x)
            OBVIOUS
        <3>1. x # d
            BY <2>1
        <3> QED
            BY <1>3, <3>1, PaidOf DEF Repay
    <2>8. /\ new.origin = debts[d].origin /\ new.direction = debts[d].direction
          /\ new.originTx = debts[d].originTx /\ new.person = debts[d].person
          /\ new.amount = debts[d].amount
        BY <2>1 DEF Debt
    <2>9. shares' = shares /\ reading' = reading
        BY <1>3 DEF Repay
    <2> HIDE DEF new
    <2> QED
        BY <2>1, <2>4, <2>5, <2>6, <2>7, <2>8, <2>9, DebtStep
<1>4. ASSUME NEW d \in DebtIds, NEW v \in Revisions, CancelDebt(d, v)
      PROVE  BookInv'
    <2> DEFINE new == [debts[d] EXCEPT !.status = "CANCELLED", !.cancelledAt = TRUE,
                                       !.version = v + 1]
    <2>1. debts[d] \in Debt /\ v + 1 \in Revisions
        BY <1>4, RevisionAssumption DEF CancelDebt, BookInv, STypeOK, RevisionAssumption
    <2>2. debts' = [debts EXCEPT ![d] = new]
        BY <1>4 DEF CancelDebt
    <2>3. new \in Debt /\ new.status = "CANCELLED" /\ new.cancelledAt
        BY <2>1 DEF Debt
    <2>4. /\ new.origin = debts[d].origin /\ new.direction = debts[d].direction
          /\ new.originTx = debts[d].originTx /\ new.person = debts[d].person
          /\ new.amount = debts[d].amount
        BY <2>1 DEF Debt
    <2>5. \A x \in DebtIds : Paid(x)' = Paid(x)
        BY <1>4, PaidUnchanged DEF CancelDebt
    <2>6. shares' = shares /\ reading' = reading
        BY <1>4 DEF CancelDebt
    <2> HIDE DEF new
    <2> QED
        BY <2>2, <2>3, <2>4, <2>5, <2>6, DebtStep
<1> QED
    BY <1>1, <1>2, <1>3, <1>4 DEF DebtNext

-----------------------------------------------------------------------------
(* Shares *)

LEMMA CreateShareStep ==
    ASSUME BookInv, NEW s \in Shares, NEW d \in DebtIds, NEW e \in Ids, NEW p \in People,
           NEW amount \in Amounts, CreateShare(s, d, e, p, amount)
    PROVE  BookInv'
<1> DEFINE debt  == DebtRow(p, "RECEIVABLE", "SHARED_EXPENSE", e, amount)
           share == [status |-> "ACTIVE", expense |-> e, person |-> p, debt |-> d,
                     amount |-> amount, version |-> 1]
<1>1. /\ debts[d] = NoDebt /\ debts' = [debts EXCEPT ![d] = debt]
      /\ shares[s] = NoShare /\ shares' = [shares EXCEPT ![s] = share]
      /\ reading' = reading /\ payments' = payments
    BY DEF CreateShare
<1>2. debt \in Debt /\ debt.status = "OPEN" /\ debt.cancelledAt = FALSE /\ debt # NoDebt
    <2>1. debt \in Debt /\ debt.status = "OPEN" /\ debt.cancelledAt = FALSE
        <3>1. "RECEIVABLE" \in Directions /\ "SHARED_EXPENSE" \in Origins /\ e \in Ids \cup {NoId}
            OBVIOUS
        <3> HIDE DEF Directions, Origins
        <3> QED
            BY <3>1, DebtRowType
    <2> HIDE DEF debt
    <2> QED
        BY <2>1 DEF NoDebt
<1>3. share \in Share /\ share.status = "ACTIVE" /\ share # NoShare
    BY RevisionAssumption DEF Share, NoShare, RevisionAssumption
<1>4. \A q \in Shares : shares[q] # NoShare =>
         q # s /\ shares[q].debt \in DebtIds /\ shares[q].debt # d
    BY <1>1 DEF BookInv, STypeOK, ClaimsExist, Share
<1>5. shares'[s] = share /\ \A q \in Shares \ {s} : shares'[q] = shares[q]
    BY <1>1 DEF BookInv, STypeOK
<1>6. debts'[d] = debt /\ \A x \in DebtIds \ {d} : debts'[x] = debts[x]
    BY <1>1 DEF BookInv, STypeOK
<1>7. STypeOK' /\ ClaimsExist' /\ DebtsDated'
    <2> HIDE DEF debt, share
    <2>1. STypeOK'
        BY <1>1, <1>2, <1>3 DEF BookInv, STypeOK
    <2>2. share.debt = d
        BY DEF share
    <2>3. ClaimsExist'
        BY <1>2, <1>4, <1>5, <1>6, <2>2 DEF BookInv, ClaimsExist
    <2>4. DebtsDated'
        BY <1>2, <1>6 DEF BookInv, DebtsDated
    <2> QED
        BY <2>1, <2>3, <2>4
<1>8. CopyNamesTheShare'
    <2> HIDE DEF share
    <2>1. reading # NoReading => reading.share \in Shares
        BY DEF BookInv, STypeOK
    <2> QED
        BY <1>1, <1>4, <1>5, <2>1 DEF BookInv, CopyNamesTheShare
<1>9. SharesMatchClaims'
    <2>1. ClaimMatchesShare(s)'
        BY <1>3, <1>5 DEF CreateShare, ExpenseRecoveryValid
    <2>2. \A q \in Shares \ {s} : shares'[q] # NoShare => ClaimMatchesShare(q)'
        BY <1>4, <1>5, <1>6 DEF BookInv, SharesMatchClaims, ClaimMatchesShare
    <2>3. \A q, r \in Shares :
             shares'[q] # NoShare /\ shares'[r] # NoShare /\ shares'[q].debt = shares'[r].debt
                => q = r
        BY DEF CreateShare, SharesUnique
    <2> QED
        BY <2>1, <2>2, <2>3 DEF SharesMatchClaims
<1>10. CancelledSharesClaimNothing'
    <2> SUFFICES ASSUME NEW q \in Shares, shares'[q].status = "CANCELLED",
                        NEW x, x = shares'[q].debt
                 PROVE  debts'[x].status = "CANCELLED" /\ Paid(x)' = 0
        BY DEF CancelledSharesClaimNothing
    <2>1. q # s
        BY <1>5
    <2>2. shares[q].status = "CANCELLED" /\ x = shares[q].debt /\ shares[q] # NoShare
        BY <1>5, <2>1 DEF NoShare
    <2>3. debts[x].status = "CANCELLED" /\ Paid(x) = 0
        BY <2>2 DEF BookInv, CancelledSharesClaimNothing
    <2> QED
        BY <1>1, <1>4, <1>6, <2>2, <2>3, PaidUnchanged
<1> QED
    BY <1>7, <1>8, <1>9, <1>10 DEF BookInv

\* An update of a share writes the share and its debt, which the database has judged.
LEMMA ShareAndDebtStep ==
    ASSUME BookInv, payments' = payments, reading' \in {reading, NoReading},
           NEW s \in Shares, shares[s] # NoShare, NEW d \in DebtIds, d = shares[s].debt,
           NEW share \in Share, shares' = [shares EXCEPT ![s] = share],
           NEW debt \in Debt, debts' = [debts EXCEPT ![d] = debt],
           share.expense = shares[s].expense, share.debt = d,
           debt.status = "CANCELLED" <=> debt.cancelledAt,
           ClaimMatchesShare(s)',
           share.status = "CANCELLED" => debt.status = "CANCELLED" /\ Paid(d) = 0
    PROVE  BookInv'
<1>1. share # NoShare /\ debt # NoDebt
    BY DEF Share, NoShare, Debt, NoDebt
<1>2. shares'[s] = share /\ \A q \in Shares \ {s} : shares'[q] = shares[q]
    BY DEF BookInv, STypeOK
<1>3. debts'[d] = debt /\ \A x \in DebtIds \ {d} : debts'[x] = debts[x]
    BY DEF BookInv, STypeOK
<1>4. \A q \in Shares : shares[q] # NoShare => shares[q].debt \in DebtIds
    BY DEF BookInv, STypeOK, Share
<1>5. \A q \in Shares \ {s} : shares[q] # NoShare => shares[q].debt # d
    BY DEF BookInv, SharesMatchClaims
<1>6. STypeOK' /\ DebtsDated'
    BY <1>1, <1>3 DEF BookInv, STypeOK, DebtsDated, NoReading
<1>7. ClaimsExist'
    BY <1>1, <1>2, <1>3, <1>4, <1>5 DEF BookInv, ClaimsExist
<1>8. CopyNamesTheShare'
    <2>1. reading # NoReading => reading.share \in Shares
        BY DEF BookInv, STypeOK
    <2> QED
        BY <1>1, <1>2, <2>1 DEF BookInv, CopyNamesTheShare
<1>9. SharesMatchClaims'
    <2>1. \A q \in Shares \ {s} : shares'[q] # NoShare => ClaimMatchesShare(q)'
        BY <1>2, <1>3, <1>4, <1>5 DEF BookInv, SharesMatchClaims, ClaimMatchesShare
    <2>2. \A q, r \in Shares :
             shares'[q] # NoShare /\ shares'[r] # NoShare /\ shares'[q].debt = shares'[r].debt
                => q = r
        BY <1>2, <1>5 DEF BookInv, SharesMatchClaims
    <2> QED
        BY <2>1, <2>2 DEF SharesMatchClaims
<1>10. CancelledSharesClaimNothing'
    <2> SUFFICES ASSUME NEW q \in Shares, shares'[q].status = "CANCELLED",
                        NEW x, x = shares'[q].debt
                 PROVE  debts'[x].status = "CANCELLED" /\ Paid(x)' = 0
        BY DEF CancelledSharesClaimNothing
    <2>1. CASE q = s
        BY <1>2, <1>3, <2>1, PaidUnchanged
    <2>2. CASE q # s
        <3>1. shares[q].status = "CANCELLED" /\ x = shares[q].debt /\ shares[q] # NoShare
            BY <1>2, <2>2 DEF NoShare
        <3>2. debts[x].status = "CANCELLED" /\ Paid(x) = 0
            BY <3>1 DEF BookInv, CancelledSharesClaimNothing
        <3> QED
            BY <1>3, <1>4, <1>5, <2>2, <3>1, <3>2, PaidUnchanged
    <2> QED
        BY <2>1, <2>2
<1> QED
    BY <1>6, <1>7, <1>8, <1>9, <1>10 DEF BookInv

\* Whatever copy of the share the update was computed from.
LEMMA UpdateShareStep ==
    ASSUME BookInv, NEW s \in Shares, shares[s] # NoShare,
           NEW row \in Share, row.expense = shares[s].expense, row.debt = shares[s].debt,
           NEW v \in Revisions, UpdateShare(s, row, v), reading' \in {reading, NoReading}
    PROVE  BookInv'
<1> DEFINE e == row.expense
           d == row.debt
<1>1. shares[s] \in Share /\ d \in DebtIds /\ debts[d] \in Debt /\ debts[d] # NoDebt
    BY DEF BookInv, STypeOK, ClaimsExist, Share
<1>2. ASSUME CancelShare(s, e, d, row, v)
      PROVE  BookInv'
    <2> DEFINE share == [shares[s] EXCEPT !.status = "CANCELLED", !.version = v + 1]
               debt  == [debts[d] EXCEPT !.status = "CANCELLED", !.cancelledAt = TRUE,
                                         !.version = @ + 1]
    <2>1. v + 1 \in Revisions /\ debts[d].version + 1 \in Revisions
        BY <1>1, <1>2, RevisionAssumption DEF CancelShare, Debt, RevisionAssumption
    <2>2. share \in Share /\ share.expense = e /\ share.debt = d
        BY <1>1, <2>1 DEF Share
    <2>3. debt \in Debt /\ debt.status = "CANCELLED" /\ debt.cancelledAt
        BY <1>1, <2>1 DEF Debt
    <2>4. shares' = [shares EXCEPT ![s] = share] /\ debts' = [debts EXCEPT ![d] = debt]
        BY <1>2 DEF CancelShare
    <2>5. payments' = payments /\ Paid(d) = 0
        BY <1>2 DEF CancelShare
    <2>6. ClaimMatchesShare(s)'
        <3>1. shares'[s] = share /\ share # NoShare
            BY <2>2, <2>4 DEF BookInv, STypeOK, Share, NoShare
        <3> HIDE DEF share, debt
        <3> QED
            BY <1>2, <2>2, <3>1 DEF CancelShare, ExpenseRecoveryValid
    <2> HIDE DEF share, debt
    <2> QED
        BY <1>1, <2>2, <2>3, <2>4, <2>5, <2>6, ShareAndDebtStep
<1>3. ASSUME NEW amount \in Amounts, AdjustShare(s, e, d, row, v, amount)
      PROVE  BookInv'
    <2> DEFINE share == [shares[s] EXCEPT !.amount = IF amount = row.amount THEN @ ELSE amount,
                                          !.version = v + 1]
               debt  == [debts[d] EXCEPT !.amount = amount,
                                         !.status = StatusFor(amount, Paid(d)),
                                         !.version = @ + 1]
    <2>1. v + 1 \in Revisions /\ debts[d].version + 1 \in Revisions
        <3>1. v \in Revisions /\ debts[d].version \in Revisions
            BY <1>1 DEF Debt
        <3>2. v < MaxRevision /\ debts[d].version < MaxRevision
            BY <1>3 DEF AdjustShare
        <3> QED
            BY <3>1, <3>2, RevisionAssumption DEF Revisions, RevisionAssumption
    <2>2. StatusFor(amount, Paid(d)) \in {"OPEN", "PARTIALLY_PAID", "SETTLED"}
        BY DEF StatusFor
    <2>3. share \in Share /\ share.expense = e /\ share.debt = d
          /\ share.status = shares[s].status
        BY <1>1, <2>1 DEF Share
    <2>4. debt \in Debt /\ debt.status # "CANCELLED" /\ debt.cancelledAt = debts[d].cancelledAt
        BY <1>1, <2>1, <2>2 DEF Debt
    <2>5. shares' = [shares EXCEPT ![s] = share] /\ debts' = [debts EXCEPT ![d] = debt]
        BY <1>3 DEF AdjustShare
    <2>6. payments' = payments
        BY <1>3 DEF AdjustShare
    <2> HIDE DEF share, debt
    <2>7. ClaimMatchesShare(s)'
        <3>1. shares'[s] = share /\ share # NoShare
            BY <2>3, <2>5 DEF BookInv, STypeOK, Share, NoShare
        <3> QED
            BY <1>3, <2>3, <3>1 DEF AdjustShare, ExpenseRecoveryValid
    <2>8. ~debt.cancelledAt
        <3>1. debts'[d] = debt
            BY <1>1, <2>5 DEF BookInv, STypeOK
        <3> QED
            BY <1>3, <2>4, <3>1 DEF AdjustShare, DebtRowValid
    <2>9. shares[s].status # "CANCELLED"
        BY <1>1, <2>4, <2>8 DEF BookInv, DebtsDated, CancelledSharesClaimNothing
    <2> QED
        BY <1>1, <2>3, <2>4, <2>5, <2>6, <2>7, <2>8, <2>9, ShareAndDebtStep
<1> QED
    BY <1>2, <1>3 DEF UpdateShare

-----------------------------------------------------------------------------
(* Every step *)

LEMMA BookUnchanged ==
    ASSUME BookInv, UNCHANGED <<debts, shares, payments>>,
           \/ reading' \in {reading, NoReading}
           \/ \E s \in Shares : shares[s] # NoShare
                                /\ reading' = [share |-> s, row |-> shares[s]]
    PROVE  BookInv'
<1>1. STypeOK' /\ CopyNamesTheShare'
    BY DEF BookInv, STypeOK, CopyNamesTheShare
<1>2. ClaimsExist' /\ DebtsDated' /\ SharesMatchClaims'
    BY DEF BookInv, ClaimsExist, DebtsDated, SharesMatchClaims, ClaimMatchesShare
<1>3. CancelledSharesClaimNothing'
    <2> SUFFICES ASSUME NEW q \in Shares, shares'[q].status = "CANCELLED",
                        NEW x, x = shares'[q].debt
                 PROVE  debts'[x].status = "CANCELLED" /\ Paid(x)' = 0
        BY DEF CancelledSharesClaimNothing
    <2> QED
        BY PaidUnchanged DEF BookInv, CancelledSharesClaimNothing
<1> QED
    BY <1>1, <1>2, <1>3 DEF BookInv

LEMMA BookStep ==
    ASSUME BookInv, [SNext]_svars
    PROVE  BookInv'
<1>1. CASE LedgerNext \/ UNCHANGED svars
    BY <1>1, BookUnchanged DEF LedgerNext, book, svars
<1>2. CASE PeopleNext
    BY <1>2, BookUnchanged DEF PeopleNext, CreatePerson, UpdatePerson
<1>3. CASE DebtNext
    BY <1>3, DebtNextStep
<1>4. CASE ShareNext
    <2>1. ASSUME NEW s \in Shares, NEW d \in DebtIds, NEW e \in Ids, NEW p \in People,
                 NEW amount \in Amounts, CreateShare(s, d, e, p, amount)
          PROVE  BookInv'
        BY <2>1, CreateShareStep
    <2>2. ASSUME NEW s \in Shares, ReadShare(s)
          PROVE  BookInv'
        BY <2>2, BookUnchanged DEF ReadShare, book
    <2>3. ASSUME NEW v \in Revisions, FinishUpdate(v)
          PROVE  BookInv'
        <3>1. /\ reading.share \in Shares /\ reading.row \in Share
              /\ shares[reading.share] # NoShare
              /\ reading.row.expense = shares[reading.share].expense
              /\ reading.row.debt = shares[reading.share].debt
            BY <2>3 DEF FinishUpdate, BookInv, STypeOK, CopyNamesTheShare
        <3> QED
            BY <2>3, <3>1, UpdateShareStep DEF FinishUpdate
    <2>4. ASSUME NEW s \in Shares, NEW v \in Revisions, UpdateShareAtOnce(s, v)
          PROVE  BookInv'
        <3>1. shares[s] \in Share
            BY <2>4 DEF UpdateShareAtOnce, BookInv, STypeOK
        <3> QED
            BY <2>4, <3>1, UpdateShareStep DEF UpdateShareAtOnce
    <2>5. CASE AbandonUpdate
        BY <2>5, BookUnchanged DEF AbandonUpdate, book
    <2> QED
        BY <1>4, <2>1, <2>2, <2>3, <2>4, <2>5 DEF ShareNext
<1>5. CASE RefundNext
    BY <1>5, BookUnchanged DEF RefundNext, Refund
<1> QED
    BY <1>1, <1>2, <1>3, <1>4, <1>5 DEF SNext

LEMMA BookInit ==
    ASSUME SInit
    PROVE  BookInv
BY DEF SInit, BookInv, STypeOK, ClaimsExist, DebtsDated, CopyNamesTheShare,
       SharesMatchClaims, CancelledSharesClaimNothing, NoShare, NoDebt

\* A share and its claim always agree, although an update may work on a stale copy.
THEOREM SharesAgree == SSpec => []SharesMatchClaims
<1>1. BookInv => SharesMatchClaims
    BY DEF BookInv
<1> QED
    BY <1>1, BookInit, BookStep, PTL DEF SSpec

\* The claim of a cancelled share is never paid and never reopened.
THEOREM CancelledIsFinal == SSpec => []CancelledSharesClaimNothing
<1>1. BookInv => CancelledSharesClaimNothing
    BY DEF BookInv
<1> QED
    BY <1>1, BookInit, BookStep, PTL DEF SSpec

\* Debts, shares and copies of shares are well formed.
THEOREM BookTyped == SSpec => []STypeOK
<1>1. BookInv => STypeOK
    BY DEF BookInv
<1> QED
    BY <1>1, BookInit, BookStep, PTL DEF SSpec
-----------------------------------------------------------------------------
(* Totals of the book as sums *)

RowAmounts   == [i \in Ids |-> tx[i].amount]
ShareAmounts == [s \in Shares |-> shares[s].amount]

RefundsAreSums ==
    \A e : /\ IsFiniteSet(Refunds(e)) /\ \A i \in Refunds(e) : RowAmounts[i] \in Int
           /\ RefundTotal(e) = Sum(RowAmounts, Refunds(e))

SharesAreSums ==
    \A e : /\ IsFiniteSet(ActiveShares(e))
           /\ \A s \in ActiveShares(e) : ShareAmounts[s] \in Int
           /\ ActiveShareTotal(e) = Sum(ShareAmounts, ActiveShares(e))

LEMMA AmountType == \A x \in Amounts : x \in Int /\ x > 0 /\ x >= 0
BY AmountsAssumption DEF AmountsAssumption

LEMMA RowAmount ==
    ASSUME TypeOK, NEW i \in Ids, tx[i] # NoRow
    PROVE  tx[i].amount \in Int /\ tx[i].amount > 0
<1>1. tx[i].amount \in Amounts
    BY DEF TypeOK, Row
<1> QED
    BY <1>1, AmountType

LEMMA RefundsAreSummed == TypeOK => RefundsAreSums
<1> SUFFICES ASSUME TypeOK, NEW e
             PROVE  /\ IsFiniteSet(Refunds(e)) /\ \A i \in Refunds(e) : RowAmounts[i] \in Int
                    /\ RefundTotal(e) = Sum(RowAmounts, Refunds(e))
    BY DEF RefundsAreSums
<1> DEFINE S == Refunds(e)
           w == RowAmounts
           FoldsRows(h) == h = [s \in SUBSET S |->
                                  IF s = {} THEN 0
                                  ELSE tx[CHOOSE x \in s : TRUE].amount
                                         + h[s \ {CHOOSE x \in s : TRUE}]]
           fold == CHOOSE h : FoldsRows(h)
<1>1. IsFiniteSet(S)
    BY FiniteAssumption, FS_Subset DEF Refunds, FiniteAssumption
<1>2. \A i \in S : w[i] = tx[i].amount
    BY DEF Refunds, RowAmounts
<1>3. \A i \in S : w[i] \in Int
    BY <1>2, RowAmount DEF Refunds, Counts, NoRow
<1>4. RefundTotal(e) = fold[S]
    BY DEF RefundTotal, MapThenSumSet, MapThenFoldSet
<1>5. \A s \in SUBSET S : s # {} => (CHOOSE x \in s : TRUE) \in S
    OBVIOUS
<1> HIDE DEF w, S
<1>6. \A h : FoldsRows(h) <=> Folds(h, w, S)
    BY <1>2, <1>5 DEF Folds
<1>7. FoldsRows(fold)
    <2> HIDE DEF FoldsRows
    <2>1. \E h : FoldsRows(h)
        BY <1>1, <1>3, <1>6, FoldSums
    <2> QED
        BY <2>1
<1> HIDE DEF fold, FoldsRows
<1>8. fold[S] = Sum(w, S)
    BY <1>1, <1>3, <1>6, <1>7, FoldSums
<1> QED
    BY <1>1, <1>3, <1>4, <1>8 DEF w, S

LEMMA RefundsAreSummedNext == TypeOK' => RefundsAreSums'
BY RefundsAreSummed, PTL

LEMMA SharesAreSummed == STypeOK => SharesAreSums
<1> SUFFICES ASSUME STypeOK, NEW e
             PROVE  /\ IsFiniteSet(ActiveShares(e))
                    /\ \A s \in ActiveShares(e) : ShareAmounts[s] \in Int
                    /\ ActiveShareTotal(e) = Sum(ShareAmounts, ActiveShares(e))
    BY DEF SharesAreSums
<1> DEFINE S == ActiveShares(e)
           w == ShareAmounts
           FoldsRows(h) == h = [s \in SUBSET S |->
                                  IF s = {} THEN 0
                                  ELSE shares[CHOOSE x \in s : TRUE].amount
                                         + h[s \ {CHOOSE x \in s : TRUE}]]
           fold == CHOOSE h : FoldsRows(h)
<1>1. IsFiniteSet(S)
    BY SharesAssumption, FS_Subset DEF ActiveShares, SharesAssumption
<1>2. \A s \in S : w[s] = shares[s].amount
    BY DEF ActiveShares, ShareAmounts
<1>3. \A s \in S : w[s] \in Int
    <2> SUFFICES ASSUME NEW s \in S
                 PROVE  shares[s].amount \in Int
        BY <1>2
    <2>1. shares[s].amount \in Amounts
        BY DEF STypeOK, ActiveShares, NoShare, Share
    <2> QED
        BY <2>1, AmountType
<1>4. ActiveShareTotal(e) = fold[S]
    BY DEF ActiveShareTotal, MapThenSumSet, MapThenFoldSet
<1>5. \A s \in SUBSET S : s # {} => (CHOOSE x \in s : TRUE) \in S
    OBVIOUS
<1> HIDE DEF w, S
<1>6. \A h : FoldsRows(h) <=> Folds(h, w, S)
    BY <1>2, <1>5 DEF Folds
<1>7. FoldsRows(fold)
    <2> HIDE DEF FoldsRows
    <2>1. \E h : FoldsRows(h)
        BY <1>1, <1>3, <1>6, FoldSums
    <2> QED
        BY <2>1
<1> HIDE DEF fold, FoldsRows
<1>8. fold[S] = Sum(w, S)
    BY <1>1, <1>3, <1>6, <1>7, FoldSums
<1> QED
    BY <1>1, <1>3, <1>4, <1>8 DEF w, S

LEMMA SharesAreSummedNext == STypeOK' => SharesAreSums'
BY SharesAreSummed, PTL

\* The library's total of some payments is the sum of their amounts.
LEMMA TotalIsSum ==
    ASSUME NEW P, IsFiniteSet(P), NEW w, \A p \in P : w[p] = p.amount /\ w[p] \in Int
    PROVE  TotalOf(P) = Sum(w, P)
<1> DEFINE FoldsRows(h) == h = [s \in SUBSET P |->
                                  IF s = {} THEN 0
                                  ELSE (CHOOSE x \in s : TRUE).amount
                                         + h[s \ {CHOOSE x \in s : TRUE}]]
           fold == CHOOSE h : FoldsRows(h)
<1>1. TotalOf(P) = fold[P]
    BY DEF TotalOf, MapThenSumSet, MapThenFoldSet
<1>2. \A s \in SUBSET P : s # {} => (CHOOSE x \in s : TRUE) \in P
    OBVIOUS
<1>3. \A h : FoldsRows(h) <=> Folds(h, w, P)
    BY <1>2 DEF Folds
<1>4. FoldsRows(fold)
    <2> HIDE DEF FoldsRows
    <2>1. \E h : FoldsRows(h)
        BY <1>3, FoldSums
    <2> QED
        BY <2>1
<1> HIDE DEF fold, FoldsRows
<1>5. fold[P] = Sum(w, P)
    BY <1>3, <1>4, FoldSums
<1> QED
    BY <1>1, <1>5

\* What was paid of a debt is the sum of its payments, so it is never negative.
LEMMA PaidType ==
    ASSUME IsFiniteSet(payments), NEW d, \A p \in payments : p.amount \in Amounts
    PROVE  Paid(d) \in Int /\ Paid(d) >= 0
<1>1. PICK P, w : P = {p \in payments : p.debt = d} /\ w = [p \in P |-> p.amount]
    OBVIOUS
<1>2. IsFiniteSet(P) /\ \A p \in P : w[p] = p.amount /\ w[p] \in Int /\ w[p] >= 0
    BY <1>1, FS_Subset, AmountType
<1>3. Paid(d) = Sum(w, P)
    BY <1>1, <1>2, TotalIsSum DEF Paid
<1>4. P \in SUBSET P
    OBVIOUS
<1>5. Sum(w, P) \in Int /\ Sum(w, P) >= 0
    BY <1>2, <1>4, SumBasics, SumNonNegative
<1> QED
    BY <1>3, <1>5

-----------------------------------------------------------------------------
(* The ledger under the book *)

\* What counts keeps counting, for the same amount.
Kept == \A i \in Ids : Counts(i) => Counts(i)' /\ tx'[i].amount = tx[i].amount

LEMMA MovementInserted ==
    ASSUME TypeOK, NEW kind \in Kinds, NEW effect \in Effects, NEW a \in Accounts,
           NEW amount, NEW at \in Times, NEW i \in Ids, acct[a].status = "ACTIVE",
           Insert([j \in {i} |-> Movement(kind, effect, a, amount, at)]), Bump({a}), now' = now
    PROVE  /\ TypeOK' /\ Kept
           /\ tx[i] = NoRow /\ Counts(i)'
           /\ \A j \in Ids \ {i} : tx'[j] = tx[j]
<1> DEFINE row == Movement(kind, effect, a, amount, at)
<1>1. tx[i] = NoRow /\ amount \in Amounts /\ tx' = [tx EXCEPT ![i] = row]
    <2>1. row.amount = amount
        BY DEF Movement
    <2>2. tx[i] = NoRow /\ row.amount \in Amounts
          /\ tx' = [j \in Ids |-> IF j \in {i} THEN row ELSE tx[j]]
        BY DEF Insert
    <2> HIDE DEF row
    <2> QED
        BY <2>1, <2>2 DEF TypeOK
<1>2. row \in Row /\ row.status = "POSTED"
    BY <1>1, BoundsAssumption DEF Movement, Row, BoundsAssumption
<1> HIDE DEF row
<1>3. tx' \in [Ids -> Row \cup {NoRow}] /\ tx'[i] = row
      /\ \A j \in Ids \ {i} : tx'[j] = tx[j]
    BY <1>1, <1>2 DEF TypeOK
<1>4. acct' \in [Accounts -> Account \cup {NoAccount}]
    BY BumpType, BoundsAssumption DEF Exists
<1> QED
    BY <1>1, <1>2, <1>3, <1>4 DEF TypeOK, Kept, Counts, NoRow

\* The movement of money of a loan or of a repayment.
Moved(a, i, amount, at) ==
    /\ acct[a].status = "ACTIVE" /\ now' = now /\ Bump({a})
    /\ \E kind \in Kinds, effect \in Effects :
          Insert([j \in {i} |-> Movement(kind, effect, a, amount, at)])

LEMMA MovedKeeps ==
    ASSUME TypeOK, NEW a \in Accounts, NEW amount, NEW at \in Times, NEW i \in Ids,
           Moved(a, i, amount, at)
    PROVE  /\ TypeOK' /\ Kept
           /\ tx[i] = NoRow /\ Counts(i)'
           /\ \A j \in Ids \ {i} : tx'[j] = tx[j]
<1>1. PICK kind \in Kinds, effect \in Effects :
         Insert([j \in {i} |-> Movement(kind, effect, a, amount, at)])
    BY DEF Moved
<1>2. acct[a].status = "ACTIVE" /\ now' = now /\ Bump({a})
    BY DEF Moved
<1> HIDE DEF Kinds, Effects, Times
<1> QED
    BY <1>1, <1>2, MovementInserted

LEMMA LoanMoves ==
    ASSUME NEW d \in DebtIds, NEW p \in People, NEW cash \in CashOrigins, NEW amount,
           NEW a \in Accounts, NEW i \in Ids, NEW at \in Times,
           LendOrBorrow(d, p, cash, amount, a, i, at)
    PROVE  Moved(a, i, amount, at)
<1>1. PICK kind, effect : kind = cash.kind /\ effect = cash.effect
    OBVIOUS
<1>2. kind \in Kinds /\ effect \in Effects
    BY <1>1 DEF CashOrigins
<1>3. Insert([j \in {i} |-> Movement(kind, effect, a, amount, at)])
    BY <1>1 DEF LendOrBorrow
<1> HIDE DEF Kinds, Effects
<1> QED
    BY <1>2, <1>3 DEF LendOrBorrow, AccountTakes, Moved

LEMMA RepaymentMoves ==
    ASSUME NEW d \in DebtIds, NEW amount, NEW a \in Accounts, NEW i \in Ids, NEW at \in Times,
           Repay(d, amount, a, i, at)
    PROVE  Moved(a, i, amount, at)
<1>1. PICK incoming : incoming = (debts[d].direction = "RECEIVABLE")
    OBVIOUS
<1>2. PICK kind, effect :
         /\ kind = IF incoming THEN "DEBT_REPAYMENT_IN" ELSE "DEBT_REPAYMENT_OUT"
         /\ effect = IF incoming THEN "INFLOW" ELSE "OUTFLOW"
    OBVIOUS
<1>3. Insert([j \in {i} |-> Movement(kind, effect, a, amount, at)])
    BY <1>1, <1>2 DEF Repay
<1>4. kind \in Kinds /\ effect \in Effects
    BY <1>2
<1> HIDE DEF Kinds, Effects
<1> QED
    BY <1>3, <1>4 DEF Repay, AccountTakes, Moved

LEMMA UpdateShareStays ==
    ASSUME NEW s, NEW row, NEW v, UpdateShare(s, row, v)
    PROVE  now' = now /\ acct' = acct /\ tx' = tx /\ payments' = payments
<1>1. ASSUME NEW e, NEW d, CancelShare(s, e, d, row, v)
      PROVE  now' = now /\ acct' = acct /\ tx' = tx /\ payments' = payments
    BY <1>1 DEF CancelShare
<1>2. ASSUME NEW e, NEW d, NEW amount, AdjustShare(s, e, d, row, v, amount)
      PROVE  now' = now /\ acct' = acct /\ tx' = tx /\ payments' = payments
    BY <1>2 DEF AdjustShare
<1> QED
    BY <1>1, <1>2 DEF UpdateShare

LEMMA LedgerKept ==
    ASSUME TypeOK, [SNext]_svars
    PROVE  TypeOK' /\ Kept
<1>1. ASSUME UNCHANGED <<now, acct, tx>>
      PROVE  TypeOK' /\ Kept
    BY <1>1 DEF TypeOK, Kept, Counts
<1>2. CASE LedgerNext
    <2>1. TypeOK'
        BY <1>2, TypeStep DEF LedgerNext
    <2>2. ASSUME NEW i \in Ids, Counts(i)
          PROVE  Counts(i)' /\ tx'[i].amount = tx[i].amount
        <3>1. RowMoves(i) /\ tx[i] \in Row
            BY <1>2, <2>2, RowStep DEF LedgerNext, TypeOK, Counts, NoRow
        <3> QED
            BY <2>2, <3>1 DEF RowMoves, Counts, Row
    <2> QED
        BY <2>1, <2>2 DEF Kept
<1>3. CASE PeopleNext \/ UNCHANGED svars
    BY <1>1, <1>3 DEF PeopleNext, CreatePerson, UpdatePerson, svars
<1>6. CASE ShareNext
    <2>1. ASSUME NEW s, NEW row, NEW v, UpdateShare(s, row, v)
          PROVE  UNCHANGED <<now, acct, tx>>
        BY <2>1, UpdateShareStays
    <2>2. UNCHANGED <<now, acct, tx>>
        BY <1>6, <2>1 DEF ShareNext, CreateShare, ReadShare, FinishUpdate, UpdateShareAtOnce,
                          AbandonUpdate
    <2> QED
        BY <1>1, <2>2
<1>4. CASE DebtNext
    <2>1. ASSUME NEW d \in DebtIds, NEW p \in People, NEW direction \in Directions,
                 NEW amount \in Loans, RecordExisting(d, p, direction, amount)
          PROVE  TypeOK' /\ Kept
        BY <1>1, <2>1 DEF RecordExisting
    <2>2. ASSUME NEW d \in DebtIds, NEW p \in People, NEW cash \in CashOrigins,
                 NEW amount \in Loans, NEW a \in Accounts, NEW i \in Ids, NEW at \in Times,
                 LendOrBorrow(d, p, cash, amount, a, i, at)
          PROVE  TypeOK' /\ Kept
        BY <2>2, LoanMoves, MovedKeeps
    <2>3. ASSUME NEW d \in DebtIds, NEW amount \in Amounts, NEW a \in Accounts, NEW i \in Ids,
                 NEW at \in Times, Repay(d, amount, a, i, at)
          PROVE  TypeOK' /\ Kept
        BY <2>3, RepaymentMoves, MovedKeeps
    <2>4. ASSUME NEW d \in DebtIds, NEW v \in Revisions, CancelDebt(d, v)
          PROVE  TypeOK' /\ Kept
        BY <1>1, <2>4 DEF CancelDebt
    <2> QED
        BY <1>4, <2>1, <2>2, <2>3, <2>4 DEF DebtNext
<1>5. CASE RefundNext
    BY <1>5, MovementInserted DEF RefundNext, Refund, AccountTakes
<1> QED
    BY <1>2, <1>3, <1>4, <1>5, <1>6 DEF SNext

LEMMA LedgerTypedInit ==
    ASSUME SInit
    PROVE  TypeOK
<1>1. now \in 0 .. MaxNow
    BY BoundsAssumption DEF SInit, BoundsAssumption
<1>2. acct \in [Accounts -> Account]
    BY DEF SInit
<1>3. PICK home \in [Expenses -> Accounts] :
         /\ tx = [i \in Ids |-> IF i \in Expenses THEN PostedExpense(home[i]) ELSE NoRow]
         /\ \A a \in Accounts :
               acct[a].version = 1 + Cardinality({i \in Expenses : home[i] = a})
    BY DEF SInit
<1>4. Max(Amounts) \in Amounts
    BY LargestAssumption DEF LargestAssumption, Max
<1>5. ASSUME NEW i \in Expenses
      PROVE  PostedExpense(home[i]) \in Row
    <2>1. PICK S : S = {j \in Expenses : home[j] = home[i]}
        OBVIOUS
    <2>2. IsFiniteSet(S) /\ S # {}
        BY <2>1, ExpensesAssumption, FiniteAssumption, FS_Subset
        DEF ExpensesAssumption, FiniteAssumption
    <2>3. Cardinality(S) \in Nat /\ Cardinality(S) # 0
        BY <2>2, FS_CardinalityType, FS_EmptySet
    <2>4. home[i] \in Accounts
        OBVIOUS
    <2>5. 1 + Cardinality(S) \in 1 .. MaxVersion
        BY <1>2, <1>3, <2>1, <2>4 DEF Account
    <2>6. 2 \in 1 .. MaxVersion
        BY <2>3, <2>5, BoundsAssumption DEF BoundsAssumption
    <2>7. 0 \in Times
        BY BoundsAssumption DEF BoundsAssumption
    <2> QED
        BY <1>4, <2>4, <2>6, <2>7 DEF PostedExpense, Row
<1> QED
    BY <1>1, <1>2, <1>3, <1>5 DEF TypeOK

-----------------------------------------------------------------------------
(* Payments of debts *)

\* A payment is a movement that counts, of the same amount, and pays one debt; an
\* open debt has the status that its payments give it.
DebtInv ==
    /\ IsFiniteSet(payments)
    /\ \A p \in payments :
          /\ p.movement \in Ids /\ p.amount \in Amounts
          /\ Counts(p.movement) /\ tx[p.movement].amount = p.amount
    /\ PaymentsUnique
    /\ \A d \in DebtIds : debts[d].status \notin {"NONE", "CANCELLED"} =>
          /\ Paid(d) <= debts[d].amount
          /\ debts[d].status = StatusFor(debts[d].amount, Paid(d))

LEMMA PaymentsKept ==
    ASSUME DebtInv, Kept, payments' = payments,
           \A d \in DebtIds : debts'[d] = debts[d] \/ DebtGroupValid(d)'
    PROVE  DebtInv'
<1>1. \A p \in payments : Counts(p.movement)' /\ tx'[p.movement].amount = p.amount
    BY DEF DebtInv, Kept
<1>2. PaymentsUnique'
    BY DEF DebtInv, PaymentsUnique
<1>3. ASSUME NEW d \in DebtIds, debts'[d].status \notin {"NONE", "CANCELLED"}
      PROVE  /\ Paid(d)' <= debts'[d].amount
             /\ debts'[d].status = StatusFor(debts'[d].amount, Paid(d)')
    <2>1. Paid(d)' = Paid(d)
        BY PaidUnchanged
    <2>2. CASE DebtGroupValid(d)'
        BY <1>3, <2>2 DEF DebtGroupValid, StatusFor
    <2>3. CASE debts'[d] = debts[d]
        BY <1>3, <2>1, <2>3 DEF DebtInv
    <2> QED
        BY <2>2, <2>3
<1> QED
    BY <1>1, <1>2, <1>3 DEF DebtInv, StatusFor

LEMMA RepayTells ==
    ASSUME TypeOK, STypeOK, DebtInv, NEW d \in DebtIds, NEW amount \in Amounts,
           NEW a \in Accounts, NEW i \in Ids, NEW at \in Times, Repay(d, amount, a, i, at)
    PROVE  DebtInv'
<1>1. /\ payments' = payments \cup {[debt |-> d, movement |-> i, amount |-> amount]}
      /\ PaymentsUnique' /\ DebtGroupValid(d)'
      /\ \A x \in DebtIds \ {d} : debts'[x] = debts[x]
    BY DEF Repay, STypeOK
<1>2. Kept
    BY RepaymentMoves, MovedKeeps
<1>3. IsFiniteSet(payments')
    <2>1. PICK p : p = [debt |-> d, movement |-> i, amount |-> amount]
        OBVIOUS
    <2>2. IsFiniteSet(payments \cup {p})
        BY FS_AddElement DEF DebtInv
    <2> QED
        BY <1>1, <2>1, <2>2
<1>4. /\ Counts(i)' /\ tx'[i].amount = amount
    <2>1. \E kind, effect : tx'[i] = Movement(kind, effect, a, amount, at)
        BY DEF Repay, Insert
    <2> QED
        BY <2>1 DEF Movement, Counts
<1>5. ASSUME NEW p \in payments'
      PROVE  /\ p.movement \in Ids /\ p.amount \in Amounts
             /\ Counts(p.movement)' /\ tx'[p.movement].amount = p.amount
    BY <1>1, <1>2, <1>4, <1>5 DEF DebtInv, Kept
<1>6. ASSUME NEW x \in DebtIds, debts'[x].status \notin {"NONE", "CANCELLED"}
      PROVE  /\ Paid(x)' <= debts'[x].amount
             /\ debts'[x].status = StatusFor(debts'[x].amount, Paid(x)')
    <2>1. CASE x = d
        BY <1>1, <1>6, <2>1 DEF DebtGroupValid, StatusFor
    <2>2. CASE x # d
        <3>1. Paid(x)' = Paid(x)
            BY <1>1, <2>2, PaidOf
        <3> QED
            BY <1>1, <1>6, <2>2, <3>1 DEF DebtInv
    <2> QED
        BY <2>1, <2>2
<1> QED
    BY <1>1, <1>3, <1>5, <1>6 DEF DebtInv, StatusFor

LEMMA DebtsTellStep ==
    ASSUME TypeOK, BookInv, DebtInv, [SNext]_svars
    PROVE  DebtInv'
<1>1. Kept /\ STypeOK
    BY LedgerKept DEF BookInv
<1>2. CASE LedgerNext \/ PeopleNext \/ RefundNext \/ UNCHANGED svars
    <2>1. payments' = payments /\ debts' = debts
        BY <1>2 DEF LedgerNext, book, PeopleNext, CreatePerson, UpdatePerson, RefundNext, Refund,
                    svars
    <2> QED
        BY <1>1, <2>1, PaymentsKept
<1>3. CASE DebtNext
    <2>1. ASSUME NEW d \in DebtIds, NEW amount \in Amounts, NEW a \in Accounts, NEW i \in Ids,
                 NEW at \in Times, Repay(d, amount, a, i, at)
          PROVE  DebtInv'
        BY <1>1, <2>1, RepayTells
    <2>2. ASSUME NEW d \in DebtIds, payments' = payments, DebtGroupValid(d)',
                 \A x \in DebtIds \ {d} : debts'[x] = debts[x]
          PROVE  DebtInv'
        BY <1>1, <2>2, PaymentsKept
    <2>3. ASSUME NEW d \in DebtIds, NEW p \in People, NEW direction \in Directions,
                 NEW amount \in Loans, RecordExisting(d, p, direction, amount)
          PROVE  DebtInv'
        BY <1>1, <2>2, <2>3 DEF RecordExisting, STypeOK
    <2>4. ASSUME NEW d \in DebtIds, NEW p \in People, NEW cash \in CashOrigins,
                 NEW amount \in Loans, NEW a \in Accounts, NEW i \in Ids, NEW at \in Times,
                 LendOrBorrow(d, p, cash, amount, a, i, at)
          PROVE  DebtInv'
        BY <1>1, <2>2, <2>4 DEF LendOrBorrow, STypeOK
    <2>5. ASSUME NEW d \in DebtIds, NEW v \in Revisions, CancelDebt(d, v)
          PROVE  DebtInv'
        BY <1>1, <2>2, <2>5 DEF CancelDebt, STypeOK
    <2> QED
        BY <1>3, <2>1, <2>3, <2>4, <2>5 DEF DebtNext
<1>4. CASE ShareNext
    <2>1. ASSUME NEW d \in DebtIds, payments' = payments, DebtGroupValid(d)',
                 \A x \in DebtIds \ {d} : debts'[x] = debts[x]
          PROVE  DebtInv'
        BY <1>1, <2>1, PaymentsKept
    <2>2. ASSUME NEW s, NEW row, NEW v, UpdateShare(s, row, v)
          PROVE  DebtInv'
        <3>1. ASSUME NEW e, NEW d \in DebtIds, CancelShare(s, e, d, row, v)
              PROVE  DebtInv'
            BY <1>1, <2>1, <3>1 DEF CancelShare, STypeOK
        <3>2. ASSUME NEW e, NEW d \in DebtIds, NEW amount, AdjustShare(s, e, d, row, v, amount)
              PROVE  DebtInv'
            BY <1>1, <2>1, <3>2 DEF AdjustShare, STypeOK
        <3> QED
            BY <2>2, <3>1, <3>2 DEF UpdateShare
    <2>3. ASSUME payments' = payments, debts' = debts
          PROVE  DebtInv'
        BY <1>1, <2>3, PaymentsKept
    <2>4. ASSUME NEW s \in Shares, NEW d \in DebtIds, NEW e \in Ids, NEW p \in People,
                 NEW amount \in Amounts, CreateShare(s, d, e, p, amount)
          PROVE  DebtInv'
        BY <1>1, <2>1, <2>4 DEF CreateShare, STypeOK
    <2> QED
        BY <1>4, <2>2, <2>3, <2>4
        DEF ShareNext, ReadShare, FinishUpdate, UpdateShareAtOnce, AbandonUpdate, book
<1> QED
    BY <1>2, <1>3, <1>4 DEF SNext

LEMMA DebtInvTells ==
    ASSUME STypeOK, DebtInv
    PROVE  DebtTellsPayments
<1>1. ASSUME NEW d \in DebtIds, debts[d].status \notin {"NONE", "CANCELLED"}
      PROVE  /\ Paid(d) <= debts[d].amount
             /\ debts[d].status = "SETTLED" <=> Paid(d) = debts[d].amount
             /\ debts[d].status = "OPEN" <=> Paid(d) = 0
    <2>1. Paid(d) \in Int /\ Paid(d) >= 0
        BY PaidType DEF DebtInv
    <2>2. debts[d].amount \in Int /\ debts[d].amount > 0
        BY <1>1, AmountType DEF STypeOK, Debt, NoDebt
    <2>3. Paid(d) <= debts[d].amount /\ debts[d].status = StatusFor(debts[d].amount, Paid(d))
        BY <1>1 DEF DebtInv
    <2> QED
        BY <2>1, <2>2, <2>3 DEF StatusFor
<1> QED
    BY <1>1 DEF DebtInv, DebtTellsPayments, PaymentsUnique

LEMMA DebtInvInit ==
    ASSUME SInit
    PROVE  DebtInv
BY FS_EmptySet DEF SInit, DebtInv, PaymentsUnique, NoDebt

\* Whatever payments, adjustments and cancellations interleave, the status of an open
\* debt tells what was paid of it, and no movement of money pays twice.
THEOREM DebtsTellPayments == SSpec => []DebtTellsPayments
<1>1. BookInv /\ DebtInv => DebtTellsPayments
    BY DebtInvTells DEF BookInv
<1>2. SInit => TypeOK /\ BookInv /\ DebtInv
    BY LedgerTypedInit, BookInit, DebtInvInit
<1>3. TypeOK /\ BookInv /\ DebtInv /\ [SNext]_svars => (TypeOK /\ BookInv /\ DebtInv)'
    BY LedgerKept, BookStep, DebtsTellStep
<1> QED
    BY <1>1, <1>2, <1>3, PTL DEF SSpec

-----------------------------------------------------------------------------
(* What is taken back of an expense *)

\* Refunds and shares are of rows that count, and an expense covers what is taken back
\* of it: nothing is taken back of a row that does not count yet.
RecoveryInv ==
    /\ parent \in [Ids -> Ids \cup {NoId}]
    /\ \A i \in Ids : parent[i] # NoId => Counts(i) /\ Counts(parent[i])
    /\ \A s \in Shares : shares[s] # NoShare => Counts(shares[s].expense)
    /\ \A e \in Ids : Counts(e) => RefundTotal(e) + ActiveShareTotal(e) <= tx[e].amount

LEMMA NothingTaken ==
    ASSUME TypeOK, STypeOK, NEW e
    PROVE  /\ Refunds(e) = {} => RefundTotal(e) = 0
           /\ ActiveShares(e) = {} => ActiveShareTotal(e) = 0
<1>1. ASSUME NEW w
      PROVE  Sum(w, {}) = 0
    <2>1. IsFiniteSet({})
        BY FS_EmptySet
    <2>2. \A x \in {} : w[x] \in Int
        OBVIOUS
    <2> QED
        BY <2>1, <2>2, SumBasics
<1> QED
    BY <1>1, RefundsAreSummed, SharesAreSummed DEF RefundsAreSums, SharesAreSums

\* The refunds of e, and their amounts, are what they were.
LEMMA RefundsKept ==
    ASSUME TypeOK, TypeOK', Kept, NEW e, Refunds(e)' = Refunds(e)
    PROVE  RefundTotal(e)' = RefundTotal(e)
<1>1. PICK S : S = Refunds(e)
    OBVIOUS
<1>2. /\ IsFiniteSet(S) /\ \A i \in S : RowAmounts[i] \in Int
      /\ RefundTotal(e) = Sum(RowAmounts, S)
    BY <1>1, RefundsAreSummed DEF RefundsAreSums
<1>3. RefundTotal(e)' = Sum(RowAmounts', S)
    BY <1>1, RefundsAreSummedNext DEF RefundsAreSums
<1>4. \A i \in S : RowAmounts'[i] = RowAmounts[i]
    BY <1>1 DEF Kept, Refunds, RowAmounts
<1>5. PICK v, w : v = RowAmounts' /\ w = RowAmounts
    OBVIOUS
<1>6. Sum(v, S) = Sum(w, S)
    BY <1>2, <1>4, <1>5, SumAgree
<1> QED
    BY <1>2, <1>3, <1>5, <1>6

LEMMA SharesKept ==
    ASSUME STypeOK, STypeOK', NEW e, ActiveShares(e)' = ActiveShares(e),
           \A s \in ActiveShares(e) : shares'[s].amount = shares[s].amount
    PROVE  ActiveShareTotal(e)' = ActiveShareTotal(e)
<1>1. PICK S : S = ActiveShares(e)
    OBVIOUS
<1>2. /\ IsFiniteSet(S) /\ \A s \in S : ShareAmounts[s] \in Int
      /\ ActiveShareTotal(e) = Sum(ShareAmounts, S)
    BY <1>1, SharesAreSummed DEF SharesAreSums
<1>3. ActiveShareTotal(e)' = Sum(ShareAmounts', S)
    BY <1>1, SharesAreSummedNext DEF SharesAreSums
<1>4. \A s \in S : ShareAmounts'[s] = ShareAmounts[s]
    BY <1>1 DEF ActiveShares, ShareAmounts
<1>5. PICK v, w : v = ShareAmounts' /\ w = ShareAmounts
    OBVIOUS
<1>6. Sum(v, S) = Sum(w, S)
    BY <1>2, <1>4, <1>5, SumAgree
<1> QED
    BY <1>2, <1>3, <1>5, <1>6

\* The expenses not judged in a step, whose refunds and shares it leaves alone.
LEMMA RecoveryKept ==
    ASSUME TypeOK, TypeOK', STypeOK, STypeOK', Kept, RecoveryInv, NEW e \in Ids, Counts(e)',
           Refunds(e)' = Refunds(e), ActiveShares(e)' = ActiveShares(e),
           \A s \in ActiveShares(e) : shares'[s].amount = shares[s].amount
    PROVE  RefundTotal(e)' + ActiveShareTotal(e)' <= tx'[e].amount
<1>1. RefundTotal(e)' = RefundTotal(e) /\ ActiveShareTotal(e)' = ActiveShareTotal(e)
    BY RefundsKept, SharesKept
<1>2. CASE Counts(e)
    BY <1>1, <1>2 DEF RecoveryInv, Kept
<1>3. CASE ~Counts(e)
    <2>1. Refunds(e) = {} /\ ActiveShares(e) = {}
        BY <1>3, IdsAssumption DEF RecoveryInv, Refunds, ActiveShares, NoShare, IdsAssumption
    <2>2. RefundTotal(e) = 0 /\ ActiveShareTotal(e) = 0
        BY <2>1, NothingTaken
    <2>3. tx'[e].amount > 0 /\ tx'[e].amount \in Int
        <3>1. tx'[e].amount \in Amounts
            BY DEF TypeOK, Counts, Row, NoRow
        <3> QED
            BY <3>1, AmountType
    <2> QED
        BY <1>1, <2>2, <2>3
<1> QED
    BY <1>2, <1>3

\* A step of the ledger, of people or of debts.
LEMMA RecoveryUntouched ==
    ASSUME TypeOK, TypeOK', STypeOK, STypeOK', Kept, RecoveryInv,
           shares' = shares, parent' = parent
    PROVE  RecoveryInv'
<1>1. \A i \in Ids : parent[i] # NoId => Counts(i)' /\ Counts(parent[i])'
    BY DEF RecoveryInv, Kept
<1>2. \A s \in Shares : shares[s] # NoShare => Counts(shares[s].expense)'
    BY DEF RecoveryInv, Kept, STypeOK, Share
<1>3. ASSUME NEW e \in Ids, Counts(e)'
      PROVE  RefundTotal(e)' + ActiveShareTotal(e)' <= tx'[e].amount
    <2>1. Refunds(e)' = Refunds(e)
        BY <1>3, IdsAssumption DEF Refunds, RecoveryInv, Kept, IdsAssumption
    <2>2. ActiveShares(e)' = ActiveShares(e)
        BY DEF ActiveShares
    <2> QED
        BY <1>3, <2>1, <2>2, RecoveryKept
<1> QED
    BY <1>1, <1>2, <1>3 DEF RecoveryInv

\* A step that writes a share of the expense e, which the database judges.
LEMMA ShareWritten ==
    ASSUME TypeOK, STypeOK, STypeOK', RecoveryInv, NEW s \in Shares, NEW e \in Ids,
           shares[s] = NoShare \/ shares[s].expense = e, shares'[s].expense = e,
           \A q \in Shares \ {s} : shares'[q] = shares[q],
           UNCHANGED <<now, acct, tx, parent>>, ExpenseRecoveryValid(e)'
    PROVE  RecoveryInv'
<1>1. TypeOK' /\ Kept
    BY DEF TypeOK, Kept, Counts
<1>2. \A i : Counts(i)' <=> Counts(i)
    BY DEF Counts
<1>3. Counts(e)' /\ RefundTotal(e)' + ActiveShareTotal(e)' <= tx'[e].amount
    BY DEF ExpenseRecoveryValid
<1>4. \A q \in Shares : (shares[q] # NoShare => Counts(shares[q].expense))'
    <2> SUFFICES ASSUME NEW q \in Shares, shares'[q] # NoShare, NEW x, x = shares'[q].expense
                 PROVE  Counts(x)'
        OBVIOUS
    <2>1. CASE q = s
        BY <1>3, <2>1
    <2>2. CASE q # s
        BY <1>2, <2>2 DEF RecoveryInv
    <2> QED
        BY <2>1, <2>2
<1>5. ASSUME NEW x \in Ids, x # e, Counts(x)'
      PROVE  RefundTotal(x)' + ActiveShareTotal(x)' <= tx'[x].amount
    <2>1. Refunds(x)' = Refunds(x)
        BY <1>2 DEF Refunds
    <2>2. ActiveShares(x)' = ActiveShares(x)
          /\ \A q \in ActiveShares(x) : shares'[q].amount = shares[q].amount
        BY <1>5 DEF ActiveShares, NoShare
    <2> QED
        BY <1>1, <1>5, <2>1, <2>2, RecoveryKept
<1> QED
    BY <1>2, <1>3, <1>4, <1>5 DEF RecoveryInv

LEMMA RefundRecovers ==
    ASSUME TypeOK, STypeOK, STypeOK', RecoveryInv, NEW e \in Ids, NEW amount \in Amounts,
           NEW a \in Accounts, NEW i \in Ids, NEW at \in Times, Refund(e, amount, a, i, at)
    PROVE  RecoveryInv'
<1>1. Moved(a, i, amount, at)
    <2>1. Insert([j \in {i} |-> Movement("REFUND", "INFLOW", a, amount, at)])
        BY DEF Refund
    <2>2. \E kind \in Kinds, effect \in Effects :
             Insert([j \in {i} |-> Movement(kind, effect, a, amount, at)])
        <3>1. "REFUND" \in Kinds /\ "INFLOW" \in Effects
            OBVIOUS
        <3> HIDE DEF Kinds, Effects
        <3> QED
            BY <2>1, <3>1
    <2> QED
        BY <2>2 DEF Refund, AccountTakes, Moved
<1>2. /\ TypeOK' /\ Kept /\ tx[i] = NoRow /\ Counts(i)'
      /\ \A j \in Ids \ {i} : tx'[j] = tx[j]
    BY <1>1, MovedKeeps
<1>3. /\ shares' = shares /\ parent' = [parent EXCEPT ![i] = e] /\ Counts(e)'
      /\ RefundTotal(e)' + ActiveShareTotal(e)' <= tx'[e].amount
    BY DEF Refund, ExpenseRecoveryValid
<1>4. parent[i] = NoId
    BY <1>2 DEF RecoveryInv, Counts, NoRow
<1>5. \A j \in Ids \ {i} : Counts(j)' <=> Counts(j)
    BY <1>2 DEF Counts
<1>6. /\ parent' \in [Ids -> Ids \cup {NoId}]
      /\ \A j \in Ids : (parent[j] # NoId => Counts(j) /\ Counts(parent[j]))'
    <2>1. parent' \in [Ids -> Ids \cup {NoId}]
        BY <1>3 DEF RecoveryInv
    <2>2. ASSUME NEW j \in Ids, NEW x, x = parent'[j], x # NoId
          PROVE  Counts(j)' /\ Counts(x)'
        <3>1. CASE j = i
            BY <1>2, <1>3, <2>2, <3>1 DEF RecoveryInv
        <3>2. CASE j # i
            <4>1. x = parent[j] /\ x \in Ids
                BY <1>3, <2>2, <3>2 DEF RecoveryInv
            <4> QED
                BY <1>2, <2>2, <4>1 DEF RecoveryInv, Kept
        <3> QED
            BY <3>1, <3>2
    <2> QED
        BY <2>1, <2>2
<1>7. \A s \in Shares : (shares[s] # NoShare => Counts(shares[s].expense))'
    <2> SUFFICES ASSUME NEW s \in Shares, shares[s] # NoShare, NEW x, x = shares[s].expense
                 PROVE  Counts(x)'
        BY <1>3
    <2>1. Counts(x) /\ x \in Ids
        BY DEF RecoveryInv, STypeOK, Share
    <2> QED
        BY <1>2, <2>1 DEF Kept
<1>8. ASSUME NEW x \in Ids, x # e, Counts(x)'
      PROVE  RefundTotal(x)' + ActiveShareTotal(x)' <= tx'[x].amount
    <2>1. Refunds(x)' = Refunds(x)
        BY <1>3, <1>4, <1>5, <1>8, IdsAssumption DEF Refunds, RecoveryInv, IdsAssumption
    <2>2. ActiveShares(x)' = ActiveShares(x)
        BY <1>3 DEF ActiveShares
    <2> QED
        BY <1>2, <1>3, <1>8, <2>1, <2>2, RecoveryKept
<1> QED
    BY <1>3, <1>6, <1>7, <1>8 DEF RecoveryInv

LEMMA RecoveryStep ==
    ASSUME TypeOK, BookInv, RecoveryInv, [SNext]_svars
    PROVE  RecoveryInv'
<1>1. TypeOK' /\ Kept /\ STypeOK /\ STypeOK'
    BY LedgerKept, BookStep DEF BookInv
<1>2. ASSUME shares' = shares, parent' = parent
      PROVE  RecoveryInv'
    BY <1>1, <1>2, RecoveryUntouched
<1>3. CASE LedgerNext \/ PeopleNext \/ UNCHANGED svars
    BY <1>2, <1>3 DEF LedgerNext, book, PeopleNext, CreatePerson, UpdatePerson, svars
<1>4. CASE DebtNext
    <2>1. ASSUME NEW d, NEW p, NEW direction, NEW amount,
                 RecordExisting(d, p, direction, amount)
          PROVE  shares' = shares /\ parent' = parent
        BY <2>1 DEF RecordExisting
    <2>2. ASSUME NEW d, NEW p, NEW cash, NEW amount, NEW a, NEW i, NEW at,
                 LendOrBorrow(d, p, cash, amount, a, i, at)
          PROVE  shares' = shares /\ parent' = parent
        BY <2>2 DEF LendOrBorrow
    <2>3. ASSUME NEW d, NEW amount, NEW a, NEW i, NEW at, Repay(d, amount, a, i, at)
          PROVE  shares' = shares /\ parent' = parent
        BY <2>3 DEF Repay
    <2>4. ASSUME NEW d, NEW v, CancelDebt(d, v)
          PROVE  shares' = shares /\ parent' = parent
        BY <2>4 DEF CancelDebt
    <2> QED
        BY <1>2, <1>4, <2>1, <2>2, <2>3, <2>4 DEF DebtNext
<1>5. CASE RefundNext
    <2>1. PICK e \in Ids, i \in Ids, amount \in Amounts, a \in Accounts, at \in Times :
             Refund(e, amount, a, i, at)
        BY <1>5 DEF RefundNext
    <2> QED
        BY <1>1, <2>1, RefundRecovers
<1>6. CASE ShareNext
    <2>1. ASSUME NEW s \in Shares, NEW d \in DebtIds, NEW e \in Ids, NEW p \in People,
                 NEW amount \in Amounts, CreateShare(s, d, e, p, amount)
          PROVE  RecoveryInv'
        <3>1. /\ shares[s] = NoShare /\ shares'[s].expense = e
              /\ \A q \in Shares \ {s} : shares'[q] = shares[q]
              /\ UNCHANGED <<now, acct, tx, parent>> /\ ExpenseRecoveryValid(e)'
            BY <1>1, <2>1 DEF CreateShare, STypeOK
        <3> QED
            BY <1>1, <3>1, ShareWritten
    <2>2. ASSUME NEW s \in Shares, NEW row \in Share, NEW v, shares[s] # NoShare,
                 row.expense = shares[s].expense, UpdateShare(s, row, v)
          PROVE  RecoveryInv'
        <3>1. PICK e \in Ids : e = row.expense
            BY DEF Share
        <3>2. shares[s] \in Share
            BY <1>1, <2>2 DEF STypeOK
        <3>3. ASSUME NEW d, CancelShare(s, e, d, row, v)
              PROVE  RecoveryInv'
            <4>1. /\ shares'[s].expense = e
                  /\ \A q \in Shares \ {s} : shares'[q] = shares[q]
                  /\ UNCHANGED <<now, acct, tx, parent>> /\ ExpenseRecoveryValid(e)'
                BY <1>1, <2>2, <3>1, <3>2, <3>3 DEF CancelShare, STypeOK, Share
            <4> QED
                BY <1>1, <2>2, <3>1, <4>1, ShareWritten
        <3>4. ASSUME NEW d, NEW amount, AdjustShare(s, e, d, row, v, amount)
              PROVE  RecoveryInv'
            <4>1. /\ shares'[s].expense = e
                  /\ \A q \in Shares \ {s} : shares'[q] = shares[q]
                  /\ UNCHANGED <<now, acct, tx, parent>> /\ ExpenseRecoveryValid(e)'
                BY <1>1, <2>2, <3>1, <3>2, <3>4 DEF AdjustShare, STypeOK, Share
            <4> QED
                BY <1>1, <2>2, <3>1, <4>1, ShareWritten
        <3> QED
            BY <2>2, <3>1, <3>3, <3>4 DEF UpdateShare
    <2>3. ASSUME NEW v \in Revisions, FinishUpdate(v)
          PROVE  RecoveryInv'
        <3>1. /\ reading.share \in Shares /\ reading.row \in Share
              /\ shares[reading.share] # NoShare
              /\ reading.row.expense = shares[reading.share].expense
            BY <2>3 DEF FinishUpdate, BookInv, STypeOK, CopyNamesTheShare
        <3> QED
            BY <2>2, <2>3, <3>1 DEF FinishUpdate
    <2>4. ASSUME NEW s \in Shares, NEW v \in Revisions, UpdateShareAtOnce(s, v)
          PROVE  RecoveryInv'
        <3>1. shares[s] \in Share
            BY <1>1, <2>4 DEF UpdateShareAtOnce, STypeOK
        <3> QED
            BY <2>2, <2>4, <3>1 DEF UpdateShareAtOnce
    <2>5. ASSUME (\E s \in Shares : ReadShare(s)) \/ AbandonUpdate
          PROVE  RecoveryInv'
        BY <1>2, <2>5 DEF ReadShare, AbandonUpdate, book
    <2> QED
        BY <1>6, <2>1, <2>3, <2>4, <2>5 DEF ShareNext
<1> QED
    BY <1>3, <1>4, <1>5, <1>6 DEF SNext

LEMMA RecoveryInvRecovers ==
    ASSUME TypeOK, STypeOK, RecoveryInv
    PROVE  RecoveryWithinExpense
<1>1. ASSUME NEW e \in Ids, tx[e] # NoRow
      PROVE  RefundTotal(e) + ActiveShareTotal(e) <= tx[e].amount
    <2>1. CASE Counts(e)
        BY <2>1 DEF RecoveryInv
    <2>2. CASE ~Counts(e)
        <3>1. Refunds(e) = {} /\ ActiveShares(e) = {}
            BY <2>2, IdsAssumption DEF RecoveryInv, Refunds, ActiveShares, NoShare, IdsAssumption
        <3>2. RefundTotal(e) = 0 /\ ActiveShareTotal(e) = 0
            BY <3>1, NothingTaken
        <3>3. tx[e].amount \in Int /\ tx[e].amount > 0
            BY <1>1, RowAmount
        <3> QED
            BY <3>2, <3>3
    <2> QED
        BY <2>1, <2>2
<1> QED
    BY <1>1 DEF RecoveryWithinExpense, RefundTotal

LEMMA RecoveryInit ==
    ASSUME SInit, TypeOK, STypeOK
    PROVE  RecoveryInv
<1>1. /\ parent = [i \in Ids |-> NoId]
      /\ shares = [s \in Shares |-> NoShare]
    BY DEF SInit
<1>2. ASSUME NEW e \in Ids, Counts(e)
      PROVE  RefundTotal(e) + ActiveShareTotal(e) <= tx[e].amount
    <2>1. Refunds(e) = {} /\ ActiveShares(e) = {}
        BY <1>1, IdsAssumption DEF Refunds, ActiveShares, NoShare, IdsAssumption
    <2>2. RefundTotal(e) = 0 /\ ActiveShareTotal(e) = 0
        BY <2>1, NothingTaken
    <2>3. tx[e].amount \in Int /\ tx[e].amount > 0
        BY <1>2, RowAmount DEF Counts, NoRow
    <2> QED
        BY <2>2, <2>3
<1> QED
    BY <1>1, <1>2 DEF RecoveryInv

\* Refunds and active shares never take back more than the expense, whatever copies the
\* updates of shares were computed from and whether or not the expense is reversed.
THEOREM RecoveryBounded == SSpec => []RecoveryWithinExpense
<1>1. TypeOK /\ BookInv /\ RecoveryInv => RecoveryWithinExpense
    BY RecoveryInvRecovers DEF BookInv
<1>2. SInit => TypeOK /\ BookInv /\ RecoveryInv
    BY LedgerTypedInit, BookInit, RecoveryInit DEF BookInv
<1>3. TypeOK /\ BookInv /\ RecoveryInv /\ [SNext]_svars => (TypeOK /\ BookInv /\ RecoveryInv)'
    BY LedgerKept, BookStep, RecoveryStep
<1> QED
    BY <1>1, <1>2, <1>3, PTL DEF SSpec

-----------------------------------------------------------------------------
(* Dead shares *)

\* What the property says of one expense that has two dead shares.
Frozen(e) ==
    /\ ActiveShares(e)' = ActiveShares(e)
    /\ \A s \in ActiveShares(e) : shares'[s] = shares[s]
    /\ Refunds(e)' = Refunds(e)

DeadShares(e) == {s \in ActiveShares(e) : Dead(s)}

LEMMA TwoMembers ==
    ASSUME NEW S, IsFiniteSet(S), Cardinality(S) >= 2
    PROVE  \E x, y \in S : x # y
<1>1. S # {}
    BY FS_EmptySet
<1>2. PICK x \in S : TRUE
    BY <1>1
<1>3. S # {x}
    BY FS_Singleton
<1> QED
    BY <1>2, <1>3

LEMMA RefundsStay ==
    ASSUME Kept, RecoveryInv, parent' = parent, NEW e \in Ids
    PROVE  Refunds(e)' = Refunds(e)
BY IdsAssumption DEF Refunds, RecoveryInv, Kept, IdsAssumption

LEMMA FrozenStep ==
    ASSUME TypeOK, BookInv, RecoveryInv, [SNext]_svars, NEW e \in Ids,
           Cardinality(DeadShares(e)) >= 2
    PROVE  Frozen(e)
<1>1. Kept /\ STypeOK
    BY LedgerKept DEF BookInv
<1>2. ASSUME shares' = shares, parent' = parent
      PROVE  Frozen(e)
    BY <1>1, <1>2, RefundsStay DEF Frozen, ActiveShares
\* A share of another expense.
<1>3. ASSUME NEW s \in Shares, NEW d \in DebtIds, NEW x \in Ids, parent' = parent,
             \/ shares[s] = NoShare /\ debts[d] = NoDebt
             \/ shares[s] # NoShare /\ d = shares[s].debt /\ shares[s].expense = x,
             shares'[s].expense = x,
             \A q \in Shares \ {s} : shares'[q] = shares[q],
             \A y \in DebtIds \ {d} : debts'[y] = debts[y],
             \A q \in Shares : shares'[q].status = "ACTIVE" /\ shares'[q].expense = x
                               => debts'[shares'[q].debt].status # "CANCELLED"
      PROVE  Frozen(e)
    \* Judging the shares of e would meet the dead one that this step leaves alone.
    <2>1. x # e
        <3>1. SUFFICES ASSUME x = e
                       PROVE  FALSE
            OBVIOUS
        <3>2. IsFiniteSet(DeadShares(e))
            BY SharesAssumption, FS_Subset DEF DeadShares, SharesAssumption, ActiveShares
        <3>3. PICK q \in DeadShares(e) : q # s
            BY <3>2, TwoMembers
        <3>4. /\ q \in Shares /\ shares[q] # NoShare /\ shares[q].expense = e
              /\ shares[q].status = "ACTIVE" /\ debts[shares[q].debt].status = "CANCELLED"
            BY <3>3 DEF DeadShares, ActiveShares, Dead, NoShare
        <3>5. shares[q].debt \in DebtIds /\ debts[shares[q].debt] # NoDebt
            BY <1>1, <3>4 DEF STypeOK, Share, NoDebt
        <3>6. shares[q].debt # d
            BY <1>3, <3>3, <3>4, <3>5 DEF BookInv, SharesMatchClaims
        <3>7. shares'[q] = shares[q] /\ debts'[shares[q].debt] = debts[shares[q].debt]
            BY <1>3, <3>3, <3>4, <3>5, <3>6
        <3>8. ~(shares'[q].status = "ACTIVE" /\ shares'[q].expense = x
                /\ debts'[shares'[q].debt].status = "CANCELLED")
            BY <1>3, <3>4
        <3> QED
            BY <3>1, <3>4, <3>7, <3>8
    <2>2. s \notin ActiveShares(e)
        BY <1>3, <2>1 DEF ActiveShares, NoShare
    <2>3. ActiveShares(e)' = ActiveShares(e)
        BY <1>3, <2>1, <2>2 DEF ActiveShares
    <2>4. \A q \in ActiveShares(e) : shares'[q] = shares[q]
        BY <1>3, <2>2 DEF ActiveShares
    <2>5. Refunds(e)' = Refunds(e)
        BY <1>1, <1>3, RefundsStay
    <2> QED
        BY <2>3, <2>4, <2>5 DEF Frozen
<1>4. CASE LedgerNext \/ PeopleNext \/ UNCHANGED svars
    BY <1>2, <1>4 DEF LedgerNext, book, PeopleNext, CreatePerson, UpdatePerson, svars
<1>5. CASE DebtNext
    <2>1. ASSUME NEW d, NEW p, NEW direction, NEW amount,
                 RecordExisting(d, p, direction, amount)
          PROVE  shares' = shares /\ parent' = parent
        BY <2>1 DEF RecordExisting
    <2>2. ASSUME NEW d, NEW p, NEW cash, NEW amount, NEW a, NEW i, NEW at,
                 LendOrBorrow(d, p, cash, amount, a, i, at)
          PROVE  shares' = shares /\ parent' = parent
        BY <2>2 DEF LendOrBorrow
    <2>3. ASSUME NEW d, NEW amount, NEW a, NEW i, NEW at, Repay(d, amount, a, i, at)
          PROVE  shares' = shares /\ parent' = parent
        BY <2>3 DEF Repay
    <2>4. ASSUME NEW d, NEW v, CancelDebt(d, v)
          PROVE  shares' = shares /\ parent' = parent
        BY <2>4 DEF CancelDebt
    <2> QED
        BY <1>2, <1>5, <2>1, <2>2, <2>3, <2>4 DEF DebtNext
<1>6. CASE RefundNext
    <2>1. PICK x \in Ids, i \in Ids, amount \in Amounts, a \in Accounts, at \in Times :
             Refund(x, amount, a, i, at)
        BY <1>6 DEF RefundNext
    <2>2. shares' = shares /\ debts' = debts /\ ExpenseRecoveryValid(x)'
          /\ parent' = [parent EXCEPT ![i] = x] /\ tx[i] = NoRow
          /\ \A j \in Ids \ {i} : tx'[j] = tx[j]
        BY <2>1 DEF Refund, Insert
    <2>3. x # e
        <3>1. ASSUME x = e
              PROVE  \A q \in ActiveShares(e) : ~Dead(q)
            BY <2>2, <3>1 DEF ExpenseRecoveryValid, ActiveShares, Dead, NoShare
        <3>2. x = e => DeadShares(e) = {}
            BY <3>1 DEF DeadShares
        <3> QED
            BY <3>2, FS_EmptySet
    <2>4. parent[i] = NoId
        BY <2>2 DEF RecoveryInv, Counts, NoRow
    <2>5. \A j \in Ids \ {i} : Counts(j)' <=> Counts(j)
        BY <2>2 DEF Counts
    <2>6. Refunds(e)' = Refunds(e)
        BY <2>2, <2>3, <2>4, <2>5, IdsAssumption DEF Refunds, RecoveryInv, IdsAssumption
    <2> QED
        BY <2>2, <2>6 DEF Frozen, ActiveShares
<1>7. CASE ShareNext
    <2>1. ASSUME NEW s \in Shares, NEW d \in DebtIds, NEW x \in Ids, NEW p \in People,
                 NEW amount \in Amounts, CreateShare(s, d, x, p, amount)
          PROVE  Frozen(e)
        <3>1. /\ shares[s] = NoShare /\ debts[d] = NoDebt /\ shares'[s].expense = x
              /\ \A q \in Shares \ {s} : shares'[q] = shares[q]
              /\ \A y \in DebtIds \ {d} : debts'[y] = debts[y]
              /\ parent' = parent
            BY <1>1, <2>1 DEF CreateShare, STypeOK
        <3>2. ExpenseRecoveryValid(x)'
            BY <2>1 DEF CreateShare
        <3>3. \A q \in Shares : shares'[q].status = "ACTIVE" /\ shares'[q].expense = x
                                => debts'[shares'[q].debt].status # "CANCELLED"
            BY <3>2 DEF ExpenseRecoveryValid, Dead, NoShare
        <3> QED
            BY <1>3, <3>1, <3>3
    <2>2. ASSUME NEW s \in Shares, NEW row \in Share, NEW v, shares[s] # NoShare,
                 row.expense = shares[s].expense, row.debt = shares[s].debt,
                 UpdateShare(s, row, v)
          PROVE  Frozen(e)
        <3>1. PICK x \in Ids, d \in DebtIds : x = row.expense /\ d = row.debt
            BY DEF Share
        <3>2. shares[s] \in Share
            BY <1>1, <2>2 DEF STypeOK
        <3>3. ASSUME CancelShare(s, x, d, row, v)
              PROVE  Frozen(e)
            <4>1. shares'[s].expense = x
                BY <1>1, <2>2, <3>1, <3>2, <3>3 DEF CancelShare, STypeOK, Share
            <4>2. /\ \A q \in Shares \ {s} : shares'[q] = shares[q]
                  /\ \A y \in DebtIds \ {d} : debts'[y] = debts[y]
                  /\ parent' = parent
                BY <1>1, <3>3 DEF CancelShare, STypeOK
            <4>3. ExpenseRecoveryValid(x)'
                BY <3>3 DEF CancelShare
            <4>4. \A q \in Shares : shares'[q].status = "ACTIVE" /\ shares'[q].expense = x
                                    => debts'[shares'[q].debt].status # "CANCELLED"
                BY <4>3 DEF ExpenseRecoveryValid, Dead, NoShare
            <4> QED
                BY <1>3, <2>2, <3>1, <4>1, <4>2, <4>4
        <3>4. ASSUME NEW amount, AdjustShare(s, x, d, row, v, amount)
              PROVE  Frozen(e)
            <4>1. shares'[s].expense = x
                BY <1>1, <2>2, <3>1, <3>2, <3>4 DEF AdjustShare, STypeOK, Share
            <4>2. /\ \A q \in Shares \ {s} : shares'[q] = shares[q]
                  /\ \A y \in DebtIds \ {d} : debts'[y] = debts[y]
                  /\ parent' = parent
                BY <1>1, <3>4 DEF AdjustShare, STypeOK
            <4>3. ExpenseRecoveryValid(x)'
                BY <3>4 DEF AdjustShare
            <4>4. \A q \in Shares : shares'[q].status = "ACTIVE" /\ shares'[q].expense = x
                                    => debts'[shares'[q].debt].status # "CANCELLED"
                BY <4>3 DEF ExpenseRecoveryValid, Dead, NoShare
            <4> QED
                BY <1>3, <2>2, <3>1, <4>1, <4>2, <4>4
        <3> QED
            BY <2>2, <3>1, <3>3, <3>4 DEF UpdateShare
    <2>3. ASSUME NEW v \in Revisions, FinishUpdate(v)
          PROVE  Frozen(e)
        <3>1. /\ reading.share \in Shares /\ reading.row \in Share
              /\ shares[reading.share] # NoShare
              /\ reading.row.expense = shares[reading.share].expense
              /\ reading.row.debt = shares[reading.share].debt
            BY <2>3 DEF FinishUpdate, BookInv, STypeOK, CopyNamesTheShare
        <3> QED
            BY <2>2, <2>3, <3>1 DEF FinishUpdate
    <2>4. ASSUME NEW s \in Shares, NEW v \in Revisions, UpdateShareAtOnce(s, v)
          PROVE  Frozen(e)
        <3>1. shares[s] \in Share
            BY <1>1, <2>4 DEF UpdateShareAtOnce, STypeOK
        <3> QED
            BY <2>2, <2>4, <3>1 DEF UpdateShareAtOnce
    <2>5. ASSUME (\E s \in Shares : ReadShare(s)) \/ AbandonUpdate
          PROVE  Frozen(e)
        BY <1>2, <2>5 DEF ReadShare, AbandonUpdate, book
    <2> QED
        BY <1>7, <2>1, <2>3, <2>4, <2>5 DEF ShareNext
<1> QED
    BY <1>4, <1>5, <1>6, <1>7 DEF SNext

\* Two shares whose claims were cancelled on their own freeze their expense.
THEOREM DeadSharesFreeze == SSpec => TwoDeadSharesFreeze
<1> DEFINE Freezes(e) ==
      Cardinality({s \in ActiveShares(e) : Dead(s)}) >= 2 =>
         /\ ActiveShares(e)' = ActiveShares(e)
         /\ \A s \in ActiveShares(e) : shares'[s] = shares[s]
         /\ Refunds(e)' = Refunds(e)
<1>1. TypeOK /\ BookInv /\ RecoveryInv /\ [SNext]_svars => \A e \in Ids : Freezes(e)
    BY FrozenStep DEF Frozen, DeadShares
<1>2. SInit => TypeOK /\ BookInv /\ RecoveryInv
    BY LedgerTypedInit, BookInit, RecoveryInit DEF BookInv
<1>3. TypeOK /\ BookInv /\ RecoveryInv /\ [SNext]_svars => (TypeOK /\ BookInv /\ RecoveryInv)'
    BY LedgerKept, BookStep, RecoveryStep
<1> QED
    BY <1>1, <1>2, <1>3, PTL DEF SSpec, TwoDeadSharesFreeze

-----------------------------------------------------------------------------
(* The net position *)

Recorded == {d \in DebtIds : debts[d] # NoDebt}

\* What the active shares of an expense take off the spending.
TakenOff == [e \in Ids |-> ActiveShareTotal(e)]

\* What a movement leaves in the accounts that the dashboard's income and spending do
\* not tell: the principal of loans and repayments, and the part of an expense that
\* its shares take off the spending, until the expense is reversed.
CarriedOf ==
    [i \in Ids |->
        IF ~Counts(i) THEN 0
        ELSE IF tx[i].kind \in Principal THEN Signed(tx[i])
        ELSE IF tx[i].kind = "EXPENSE" THEN -TakenOff[i]
        ELSE IF tx[i].kind = "REVERSAL" /\ tx[tx[i].reversalOf].kind = "EXPENSE"
        THEN TakenOff[tx[i].reversalOf]
        ELSE 0]

Towards(d, amount) == IF debts[d].direction = "RECEIVABLE" THEN amount ELSE -amount

\* What a debt is expected to bring back of that.
DueOf ==
    [d \in DebtIds |->
        IF debts[d] = NoDebt THEN 0 ELSE Towards(d, AccountedFor(d) - Paid(d))]

\* Together they leave nothing.
Balanced == Sum(CarriedOf, Ids) + Sum(DueOf, Recorded) = 0

NoAdjustments == \A i \in Ids : tx[i] # NoRow => tx[i].kind # "RECONCILIATION_ADJUSTMENT"

Grounded == KindsTellEffects /\ MovementsAfterOpening /\ NoAdjustments

LEMMA ShareTotalType ==
    ASSUME STypeOK, NEW e
    PROVE  ActiveShareTotal(e) \in Int /\ ShareTotal(e) = ActiveShareTotal(e)
<1>1. /\ IsFiniteSet(ActiveShares(e)) /\ \A s \in ActiveShares(e) : ShareAmounts[s] \in Int
      /\ ActiveShareTotal(e) = Sum(ShareAmounts, ActiveShares(e))
    BY SharesAreSummed DEF SharesAreSums
<1>2. ActiveShares(e) \in SUBSET ActiveShares(e)
    OBVIOUS
<1>3. ActiveShareTotal(e) \in Int
    BY <1>1, <1>2, SumBasics
<1>4. {s \in Facts.shares : shares[s].expense = e} = ActiveShares(e)
    BY DEF Facts, ActiveShares
<1> QED
    BY <1>3, <1>4 DEF ShareTotal, ActiveShareTotal

LEMMA CarriedType ==
    ASSUME TypeOK, STypeOK, KindsTellEffects
    PROVE  \A i \in Ids : CarriedOf[i] \in Int
<1> SUFFICES ASSUME NEW i \in Ids
             PROVE  CarriedOf[i] \in Int
    OBVIOUS
<1>1. \A e \in Ids : TakenOff[e] \in Int
    BY ShareTotalType DEF TakenOff
<1>2. Counts(i) /\ tx[i].kind = "REVERSAL" => tx[i].reversalOf \in Ids
    BY CountedRow DEF KindsTellEffects, KindTellsEffect
<1>3. Counts(i) => Signed(tx[i]) \in Int
    BY CountedRow
<1> QED
    BY <1>1, <1>2, <1>3 DEF CarriedOf

LEMMA DebtType ==
    ASSUME STypeOK, DebtInv, NEW d \in DebtIds, debts[d] # NoDebt
    PROVE  /\ debts[d] \in Debt /\ debts[d].amount \in Int
           /\ AccountedFor(d) \in Int /\ Paid(d) \in Int
<1>1. debts[d] \in Debt /\ debts[d].amount \in Int
    BY AmountType DEF STypeOK, Debt
<1>2. Paid(d) \in Int
    BY PaidType DEF DebtInv
<1>3. debts[d].origin \in Origins
    BY <1>1 DEF Debt
<1>4. AccountedFor(d) \in Int
    BY <1>1, <1>3 DEF AccountedFor
<1> QED
    BY <1>1, <1>2, <1>4

LEMMA DueType ==
    ASSUME STypeOK, DebtInv
    PROVE  \A d \in DebtIds : DueOf[d] \in Int
BY DebtType DEF DueOf, Towards

\* The remaining folds of the report are sums too.
ReceivableOf ==
    [d \in DebtIds |-> IF debts[d].status = "CANCELLED" THEN 0
                       ELSE Towards(d, debts[d].amount - Paid(d))]
UnexplainedOf == [d \in DebtIds |-> Unexplained(d)]
SharedOf == [i \in Ids |-> ShareAdjustment(i)]

LEMMA ReceivableTells ==
    ASSUME STypeOK, DebtInv, NEW d \in DebtIds, debts[d] # NoDebt
    PROVE  /\ ReceivableOf[d] \in Int /\ UnexplainedOf[d] \in Int
           /\ ReceivableOf[d] = UnexplainedOf[d] + DueOf[d]
           /\ debts[d].status = "CANCELLED" => ReceivableOf[d] = 0
           /\ debts[d].status # "CANCELLED" =>
                 ReceivableOf[d] = LET remaining == Max({0, debts[d].amount - Paid(d)})
                                   IN  IF debts[d].direction = "RECEIVABLE"
                                       THEN remaining ELSE -remaining
<1>1. PICK n \in Int, x \in Int, p \in Int :
         n = debts[d].amount /\ x = AccountedFor(d) /\ p = Paid(d)
    BY DebtType
<1>2. debts[d].status # "CANCELLED" => p <= n
    BY <1>1, DebtType DEF DebtInv, Debt
<1>3. Max({0, n - p}) = IF 0 >= n - p THEN 0 ELSE n - p
    BY LaterOf
<1>4. debts[d].status # "CANCELLED" => Max({0, n - p}) = n - p
    BY <1>2, <1>3
<1> QED
    BY <1>1, <1>2, <1>4
    DEF ReceivableOf, UnexplainedOf, Unexplained, Worth, DueOf, Towards

LEMMA ReceivableSums ==
    ASSUME STypeOK, DebtInv, NEW S \in SUBSET Recorded, IsFiniteSet(S),
           \A d \in S : debts[d].status # "CANCELLED"
    PROVE  MapThenSumSet(LAMBDA d : LET remaining == Max({0, debts[d].amount - Paid(d)})
                             IN  IF debts[d].direction = "RECEIVABLE" THEN remaining
                                                                      ELSE -remaining, S)
             = Sum(ReceivableOf, S)
<1> DEFINE term(d) == LET remaining == Max({0, debts[d].amount - Paid(d)})
                      IN  IF debts[d].direction = "RECEIVABLE" THEN remaining ELSE -remaining
           FoldsRows(h) == h = [s \in SUBSET S |->
                                  IF s = {} THEN 0
                                  ELSE term(CHOOSE x \in s : TRUE)
                                         + h[s \ {CHOOSE x \in s : TRUE}]]
           fold == CHOOSE h : FoldsRows(h)
<1>1. \A d \in S : ReceivableOf[d] \in Int /\ ReceivableOf[d] = term(d)
    BY ReceivableTells DEF Recorded
<1>2. MapThenSumSet(LAMBDA d : LET remaining == Max({0, debts[d].amount - Paid(d)})
                             IN  IF debts[d].direction = "RECEIVABLE" THEN remaining
                                                                      ELSE -remaining, S)
         = fold[S]
    BY DEF MapThenSumSet, MapThenFoldSet
<1>3. \A s \in SUBSET S : s # {} => (CHOOSE x \in s : TRUE) \in S
    OBVIOUS
<1> HIDE DEF term
<1>4. \A h : FoldsRows(h) <=> Folds(h, ReceivableOf, S)
    BY <1>1, <1>3 DEF Folds
<1> HIDE DEF FoldsRows
<1>5. FoldsRows(fold)
    <2>1. \E h : FoldsRows(h)
        BY <1>1, <1>4, FoldSums
    <2> QED
        BY <2>1
<1> HIDE DEF fold
<1> QED
    BY <1>1, <1>2, <1>4, <1>5, FoldSums

LEMMA UnexplainedSums ==
    ASSUME STypeOK, DebtInv, IsFiniteSet(Recorded)
    PROVE  MapThenSumSet(Unexplained, Recorded) = Sum(UnexplainedOf, Recorded)
<1> DEFINE S == Recorded
           FoldsRows(h) == h = [s \in SUBSET S |->
                                  IF s = {} THEN 0
                                  ELSE Unexplained(CHOOSE x \in s : TRUE)
                                         + h[s \ {CHOOSE x \in s : TRUE}]]
           fold == CHOOSE h : FoldsRows(h)
<1>1. \A d \in S : UnexplainedOf[d] \in Int /\ UnexplainedOf[d] = Unexplained(d)
    BY ReceivableTells DEF Recorded, UnexplainedOf
<1>2. MapThenSumSet(Unexplained, S) = fold[S]
    BY DEF MapThenSumSet, MapThenFoldSet
<1>3. \A s \in SUBSET S : s # {} => (CHOOSE x \in s : TRUE) \in S
    OBVIOUS
<1> HIDE DEF S
<1>4. \A h : FoldsRows(h) <=> Folds(h, UnexplainedOf, S)
    BY <1>1, <1>3 DEF Folds
<1> HIDE DEF FoldsRows
<1>6. IsFiniteSet(S)
    BY DEF S
<1>5. FoldsRows(fold)
    <2>1. \E h : FoldsRows(h)
        BY <1>1, <1>4, <1>6, FoldSums
    <2> QED
        BY <2>1
<1> HIDE DEF fold
<1>7. MapThenSumSet(Unexplained, S) = Sum(UnexplainedOf, S)
    BY <1>1, <1>2, <1>4, <1>5, <1>6, FoldSums
<1> QED
    BY <1>7 DEF S

\* A share of an expense is taken off the spending, and put back by the reversal.
LEMMA SharedTells ==
    ASSUME TypeOK, STypeOK, KindsTellEffects, NEW i \in Ids, Counts(i)
    PROVE  /\ SharedOf[i] \in Int /\ SignedOf[i] \in Int
           /\ CarriedOf[i] = (IF tx[i].kind \in Principal THEN SignedOf[i] ELSE 0) - SharedOf[i]
<1>1. PICK e : e = tx[i].reversalOf
    OBVIOUS
<1>2. PICK m \in Int, n \in Int : m = ActiveShareTotal(i) /\ n = ActiveShareTotal(e)
    BY ShareTotalType
<1>3. ShareTotal(i) = m /\ ShareTotal(e) = n
    BY <1>2, ShareTotalType
<1>10. TakenOff[i] = m /\ (e \in Ids => TakenOff[e] = n)
    BY <1>2 DEF TakenOff
<1>4. m * 1 = m /\ n * (-1) = -n
    BY <1>2
<1>5. tx[i] # NoRow /\ tx[i].kind \in Kinds /\ Signed(tx[i]) \in Int
    BY CountedRow DEF Row
<1>6. SignedOf[i] = Signed(tx[i])
    BY DEF SignedOf
<1>7. CASE tx[i].kind = "EXPENSE"
    <2>1. Original(i) = i /\ ClassificationOf(i).spending = 1
        BY <1>7 DEF Original, ClassificationOf, Classifications, Weights
    <2>2. SharedOf[i] = m
        BY <1>3, <1>4, <1>7, <2>1 DEF SharedOf, ShareAdjustment
    <2>3. CarriedOf[i] = -m
        BY <1>10, <1>7 DEF CarriedOf, Principal
    <2> QED
        BY <1>2, <1>5, <1>6, <1>7, <2>2, <2>3 DEF Principal
<1>8. CASE tx[i].kind = "REVERSAL"
    <2>1. Original(i) = e /\ e \in Ids /\ tx[e].kind \in CoreKinds
        BY <1>1, <1>5, <1>8 DEF Original, KindsTellEffects, KindTellsEffect
    <2>2. CASE tx[e].kind = "EXPENSE"
        <3>1. ClassificationOf(i).spending = -1
            BY <1>8, <2>1, <2>2 DEF ClassificationOf, Classifications, Weights, Reversed
        <3>2. SharedOf[i] = -n
            BY <1>3, <1>4, <1>8, <2>1, <2>2, <3>1 DEF SharedOf, ShareAdjustment
        <3>3. CarriedOf[i] = n
            BY <1>1, <1>10, <1>8, <2>1, <2>2 DEF CarriedOf, Principal
        <3> QED
            BY <1>2, <1>5, <1>6, <1>8, <3>2, <3>3 DEF Principal
    <2>3. CASE tx[e].kind = "INCOME"
        <3>1. SharedOf[i] = 0
            BY <1>8, <2>1, <2>3 DEF SharedOf, ShareAdjustment
        <3>2. CarriedOf[i] = 0
            BY <1>1, <1>8, <2>3 DEF CarriedOf, Principal
        <3> QED
            BY <1>5, <1>6, <1>8, <3>1, <3>2 DEF Principal
    <2> QED
        BY <2>1, <2>2, <2>3
<1>9. CASE tx[i].kind \notin {"EXPENSE", "REVERSAL"}
    <2>1. SharedOf[i] = 0
        BY <1>9 DEF SharedOf, ShareAdjustment
    <2>2. CarriedOf[i] = IF tx[i].kind \in Principal THEN Signed(tx[i]) ELSE 0
        BY <1>9 DEF CarriedOf
    <2> QED
        BY <1>5, <1>6, <2>1, <2>2
<1> QED
    BY <1>7, <1>8, <1>9

LEMMA SharedSums ==
    ASSUME TypeOK, STypeOK, KindsTellEffects, NEW S \in SUBSET {i \in Ids : Counts(i)}
    PROVE  MapThenSumSet(ShareAdjustment, S) = Sum(SharedOf, S)
<1> DEFINE FoldsRows(h) == h = [s \in SUBSET S |->
                                  IF s = {} THEN 0
                                  ELSE ShareAdjustment(CHOOSE x \in s : TRUE)
                                         + h[s \ {CHOOSE x \in s : TRUE}]]
           fold == CHOOSE h : FoldsRows(h)
<1>1. IsFiniteSet(S) /\ \A i \in S : SharedOf[i] \in Int /\ SharedOf[i] = ShareAdjustment(i)
    BY SharedTells, FiniteAssumption, FS_Subset DEF FiniteAssumption, SharedOf
<1>2. MapThenSumSet(ShareAdjustment, S) = fold[S]
    BY DEF MapThenSumSet, MapThenFoldSet
<1>3. \A s \in SUBSET S : s # {} => (CHOOSE x \in s : TRUE) \in S
    OBVIOUS
<1>4. \A h : FoldsRows(h) <=> Folds(h, SharedOf, S)
    BY <1>1, <1>3 DEF Folds
<1> HIDE DEF FoldsRows
<1>5. FoldsRows(fold)
    <2>1. \E h : FoldsRows(h)
        BY <1>1, <1>4, FoldSums
    <2> QED
        BY <2>1
<1> HIDE DEF fold
<1> QED
    BY <1>1, <1>2, <1>4, <1>5, FoldSums

\* What debts are worth beyond what explains it is what they are due.
LEMMA ReceivablesExplained ==
    ASSUME STypeOK, DebtInv, IsFiniteSet(Recorded)
    PROVE  LET unexplained == MapThenSumSet(Unexplained, Recorded)
           IN  /\ NetReceivables = unexplained + Sum(DueOf, Recorded)
               /\ unexplained \in Int /\ Sum(DueOf, Recorded) \in Int
<1> DEFINE D == Recorded
           F == {d \in D : debts[d].status # "CANCELLED"}
<1>1. F = Facts.debts /\ F \in SUBSET D /\ IsFiniteSet(F)
    BY FS_Subset DEF Facts, Recorded
<1>2. NetReceivables = Sum(ReceivableOf, F)
    <2>1. /\ Facts.debts \in SUBSET Recorded /\ IsFiniteSet(Facts.debts)
          /\ \A d \in Facts.debts : debts[d].status # "CANCELLED"
        BY <1>1
    <2>2. NetReceivables = Sum(ReceivableOf, Facts.debts)
        BY <2>1, ReceivableSums DEF NetReceivables
    <2> QED
        BY <1>1, <2>2
<1>3. \A d \in D : /\ ReceivableOf[d] \in Int /\ UnexplainedOf[d] \in Int /\ DueOf[d] \in Int
                   /\ ReceivableOf[d] = UnexplainedOf[d] + DueOf[d]
    BY ReceivableTells, DueType DEF Recorded
<1>4. \A d \in D \ F : ReceivableOf[d] = 0
    BY ReceivableTells DEF Recorded
<1>5. MapThenSumSet(Unexplained, Recorded) = Sum(UnexplainedOf, D)
    BY UnexplainedSums
<1>6. IsFiniteSet(D)
    OBVIOUS
<1> HIDE DEF D, F
<1>7. Sum(ReceivableOf, D) = Sum(ReceivableOf, F)
    BY <1>1, <1>3, <1>4, <1>6, SumZeros
<1>8. Sum(ReceivableOf, D) = Sum(UnexplainedOf, D) + Sum(DueOf, D)
    BY <1>3, <1>6, SumPlus
<1>9. Sum(UnexplainedOf, D) \in Int /\ Sum(DueOf, D) \in Int
    <2>1. D \in SUBSET D
        OBVIOUS
    <2> QED
        BY <1>3, <1>6, <2>1, SumBasics
<1> QED
    BY <1>2, <1>5, <1>7, <1>8, <1>9 DEF D

LEMMA MoneyExplained ==
    ASSUME TypeOK, STypeOK, Grounded
    PROVE  /\ MoneyInAccounts(AllTime)
                = OpeningTotal(0, AllTime) + Kpis.netIncome + Sum(CarriedOf, Ids)
           /\ OpeningTotal(0, AllTime) \in Int /\ Kpis.netIncome \in Int
           /\ Sum(CarriedOf, Ids) \in Int
<1> DEFINE C == {i \in Ids : Counts(i)}
           P == {i \in C : tx[i].kind \in Principal}
<1>1. AllTime \in Int /\ 0 <= AllTime
      /\ \A i \in C : tx[i].at \in Int /\ tx[i].at < AllTime /\ 0 <= tx[i].at
    <2>1. \A i \in C : tx[i].at \in Times
        BY CountedRow DEF Row
    <2> QED
        BY <2>1, BoundsAssumption DEF AllTime, BoundsAssumption
<1>2. CountedBefore(AllTime) = C /\ InPeriod(0, AllTime) = C
    BY <1>1 DEF CountedBefore, InPeriod
<1>3. {i \in C : ClassificationOf(i).flow = "NON_CASH_ADJUSTMENT"} = {}
    <2> SUFFICES ASSUME NEW i \in C
                 PROVE  ClassificationOf(i).flow # "NON_CASH_ADJUSTMENT"
        OBVIOUS
    <2>1. tx[i].kind \in Kinds \ {"RECONCILIATION_ADJUSTMENT"} /\ tx[i] # NoRow
        BY CountedRow DEF Row, Grounded, NoAdjustments
    <2>2. CASE tx[i].kind = "REVERSAL"
        <3>1. tx[Original(i)].kind \in CoreKinds
            BY <2>1, <2>2 DEF Original, Grounded, KindsTellEffects, KindTellsEffect
        <3> QED
            BY <2>2, <3>1 DEF ClassificationOf, Classifications, Weights, Reversed
    <2>3. CASE tx[i].kind # "REVERSAL"
        BY <2>1, <2>3 DEF ClassificationOf, Classifications, Weights
    <2> QED
        BY <2>2, <2>3
<1>4. C \in SUBSET {i \in Ids : Counts(i)} /\ C \in SUBSET Ids /\ IsFiniteSet(C)
      /\ P \in SUBSET C /\ C \in SUBSET C
    BY FiniteAssumption, FS_Subset DEF FiniteAssumption
<1>5. /\ Sum(SignedOf, C) = Sum(IncomeOf, C) - Sum(SpendingOf, C)
                              + Sum(SignedOf, {}) + Sum(SignedOf, P)
      /\ \A T \in SUBSET C : Sum(SignedOf, T) \in Int /\ Sum(IncomeOf, T) \in Int
                             /\ Sum(SpendingOf, T) \in Int
    <2>1. KindsTellEffects
        BY DEF Grounded
    <2>2. PICK A : A = {i \in C : ClassificationOf(i).flow = "NON_CASH_ADJUSTMENT"}
        OBVIOUS
    <2>3. P = {i \in C : tx[i].kind \in Principal} /\ C \in SUBSET {i \in Ids : Counts(i)}
        BY <1>4
    <2> HIDE DEF C, P, Times, Versions, Kinds, CoreKinds, Effects
    <2>4. /\ \A T \in SUBSET C : Sum(SignedOf, T) \in Int /\ Sum(IncomeOf, T) \in Int
                                /\ Sum(SpendingOf, T) \in Int
          /\ Sum(SignedOf, C) = Sum(IncomeOf, C) - Sum(SpendingOf, C)
                                  + Sum(SignedOf, A) + Sum(SignedOf, P)
        BY <2>1, <2>2, <2>3, SumsExplained
    <2> QED
        BY <1>3, <2>2, <2>4
<1>6. \A i \in C : SharedOf[i] \in Int /\ SignedOf[i] \in Int
                   /\ CarriedOf[i] = (IF i \in P THEN SignedOf[i] ELSE 0) - SharedOf[i]
    BY SharedTells DEF Grounded
<1>7. MoneyInAccounts(AllTime) = OpeningTotal(0, AllTime) + Sum(SignedOf, C)
      /\ OpeningTotal(0, AllTime) \in Int
    BY <1>1, <1>2, MoneyIsSum, OpeningTotals DEF Grounded
<1>8. Income(0, AllTime) = Sum(IncomeOf, C) /\ GrossSpending(0, AllTime) = Sum(SpendingOf, C)
    BY <1>2, <1>4, IncomeSums, SpendingSums DEF Income, GrossSpending, Grounded
<1>9. MapThenSumSet(ShareAdjustment, InPeriod(0, AllTime)) = Sum(SharedOf, C)
    BY <1>2, <1>4, SharedSums DEF Grounded
<1>10. \A i \in Ids \ C : CarriedOf[i] = 0
    BY DEF CarriedOf
<1>11. \A i \in C : CarriedOf[i] \in Int
    BY CarriedType DEF Grounded
<1>12. Kpis.netIncome = Sum(IncomeOf, C) - (Sum(SpendingOf, C) - Sum(SharedOf, C))
    BY <1>8, <1>9 DEF Kpis
<1> DEFINE prin == [i \in C |-> IF i \in P THEN SignedOf[i] ELSE 0]
<1>13. /\ \A i \in C : prin[i] \in Int /\ CarriedOf[i] \in Int /\ SharedOf[i] \in Int
                       /\ prin[i] = CarriedOf[i] + SharedOf[i]
       /\ \A i \in P : prin[i] = SignedOf[i] /\ SignedOf[i] \in Int
       /\ \A i \in C \ P : prin[i] = 0
    BY <1>6, <1>11
<1> HIDE DEF C, P, prin
<1>14. Sum(prin, C) = Sum(CarriedOf, C) + Sum(SharedOf, C)
    BY <1>4, <1>13, SumPlus
<1>15. Sum(prin, C) = Sum(SignedOf, P)
    <2>1. Sum(prin, C) = Sum(prin, P)
        BY <1>4, <1>13, SumZeros
    <2>2. IsFiniteSet(P)
        BY <1>4, FS_Subset
    <2>3. Sum(prin, P) = Sum(SignedOf, P)
        BY <1>13, <2>2, SumAgree
    <2> QED
        BY <2>1, <2>3
<1>16. Sum(CarriedOf, Ids) = Sum(CarriedOf, C)
    BY <1>4, <1>10, <1>11, FiniteAssumption, SumZeros DEF FiniteAssumption
<1>17. Sum(CarriedOf, C) \in Int /\ Sum(SharedOf, C) \in Int
    BY <1>4, <1>13, SumBasics
<1>18. Sum(SignedOf, {}) = 0
    BY <1>4, <1>6, SumBasics
<1>19. /\ Sum(SignedOf, P) \in Int /\ Sum(IncomeOf, C) \in Int /\ Sum(SpendingOf, C) \in Int
       /\ Sum(SignedOf, C) \in Int
    BY <1>4, <1>5
<1>20. Sum(SignedOf, C) = Kpis.netIncome + Sum(CarriedOf, Ids)
    BY <1>5, <1>12, <1>14, <1>15, <1>16, <1>17, <1>18, <1>19
<1>21. Kpis.netIncome \in Int
    BY <1>12, <1>17, <1>19
<1> QED
    BY <1>7, <1>16, <1>17, <1>20, <1>21

LEMMA BalancedExplains ==
    ASSUME TypeOK, STypeOK, DebtInv, IsFiniteSet(Recorded), Grounded, Balanced
    PROVE  NetPositionExplained
<1>1. Kpis.netPosition = MoneyInAccounts(AllTime) + NetReceivables
    BY DEF Kpis
<1>2. Recorded = {d \in DebtIds : debts[d] # NoDebt}
    BY DEF Recorded
<1>3. PICK u \in Int : u = MapThenSumSet(Unexplained, Recorded)
    BY ReceivablesExplained
<1>4. /\ NetReceivables = u + Sum(DueOf, Recorded) /\ Sum(DueOf, Recorded) \in Int
      /\ MoneyInAccounts(AllTime)
           = OpeningTotal(0, AllTime) + Kpis.netIncome + Sum(CarriedOf, Ids)
      /\ OpeningTotal(0, AllTime) \in Int /\ Kpis.netIncome \in Int
      /\ Sum(CarriedOf, Ids) \in Int
      /\ Sum(CarriedOf, Ids) + Sum(DueOf, Recorded) = 0
    BY <1>3, ReceivablesExplained, MoneyExplained DEF Balanced
<1>5. Kpis.netPosition = OpeningTotal(0, AllTime) + Kpis.netIncome + u
    BY <1>1, <1>4
<1> QED
    BY <1>2, <1>3, <1>5 DEF NetPositionExplained

-----------------------------------------------------------------------------
(* What the book writes into the ledger *)

BookKinds ==
    {[kind |-> "LOAN_PRINCIPAL_OUT", effect |-> "OUTFLOW"],
     [kind |-> "LOAN_PRINCIPAL_IN", effect |-> "INFLOW"],
     [kind |-> "DEBT_REPAYMENT_IN", effect |-> "INFLOW"],
     [kind |-> "DEBT_REPAYMENT_OUT", effect |-> "OUTFLOW"],
     [kind |-> "REFUND", effect |-> "INFLOW"]}

BookMove(i, a, amount, at, m) ==
    /\ acct[a].status = "ACTIVE" /\ at >= acct[a].openedAt /\ now' = now /\ Bump({a})
    /\ Insert([j \in {i} |-> Movement(m.kind, m.effect, a, amount, at)])

BookMoves ==
    \E i \in Ids, a \in Accounts, amount \in Amounts, at \in Times, m \in BookKinds :
        BookMove(i, a, amount, at, m)

LEMMA LoanIsMove ==
    ASSUME NEW d \in DebtIds, NEW p \in People, NEW cash \in CashOrigins, NEW amount \in Loans,
           NEW a \in Accounts, NEW i \in Ids, NEW at \in Times,
           LendOrBorrow(d, p, cash, amount, a, i, at)
    PROVE  \E m \in BookKinds : /\ m.kind = cash.kind /\ m.effect = cash.effect
                                /\ BookMove(i, a, amount, at, m)
<1>1. PICK m \in BookKinds : m.kind = cash.kind /\ m.effect = cash.effect
    BY DEF CashOrigins, BookKinds
<1>2. Insert([j \in {i} |-> Movement(m.kind, m.effect, a, amount, at)])
    BY <1>1 DEF LendOrBorrow
<1> QED
    BY <1>1, <1>2 DEF LendOrBorrow, AccountTakes, BookMove

LEMMA RepaymentIsMove ==
    ASSUME NEW d \in DebtIds, NEW amount \in Amounts, NEW a \in Accounts, NEW i \in Ids,
           NEW at \in Times, Repay(d, amount, a, i, at)
    PROVE  \E m \in BookKinds :
              /\ m.kind \in {"DEBT_REPAYMENT_IN", "DEBT_REPAYMENT_OUT"}
              /\ m.effect = IF debts[d].direction = "RECEIVABLE" THEN "INFLOW" ELSE "OUTFLOW"
              /\ BookMove(i, a, amount, at, m)
<1>1. PICK incoming \in BOOLEAN : incoming = (debts[d].direction = "RECEIVABLE")
    OBVIOUS
<1>2. PICK m \in BookKinds :
         /\ m.kind = IF incoming THEN "DEBT_REPAYMENT_IN" ELSE "DEBT_REPAYMENT_OUT"
         /\ m.effect = IF incoming THEN "INFLOW" ELSE "OUTFLOW"
    BY DEF BookKinds
<1>3. Insert([j \in {i} |-> Movement(m.kind, m.effect, a, amount, at)])
    BY <1>1, <1>2 DEF Repay
<1>4. BookMove(i, a, amount, at, m)
    BY <1>3 DEF Repay, AccountTakes, BookMove
<1> QED
    BY <1>1, <1>2, <1>4

LEMMA RefundIsMove ==
    ASSUME NEW e \in Ids, NEW amount \in Amounts, NEW a \in Accounts, NEW i \in Ids,
           NEW at \in Times, Refund(e, amount, a, i, at)
    PROVE  \E m \in BookKinds : m.kind = "REFUND" /\ BookMove(i, a, amount, at, m)
<1>1. PICK m \in BookKinds : m.kind = "REFUND" /\ m.effect = "INFLOW"
    BY DEF BookKinds
<1>2. Insert([j \in {i} |-> Movement(m.kind, m.effect, a, amount, at)])
    BY <1>1 DEF Refund
<1> QED
    BY <1>1, <1>2 DEF Refund, AccountTakes, BookMove

LEMMA ShareNextStays ==
    ASSUME ShareNext
    PROVE  UNCHANGED <<now, acct, tx>> /\ payments' = payments
<1>1. ASSUME NEW s, NEW row, NEW v, UpdateShare(s, row, v)
      PROVE  UNCHANGED <<now, acct, tx>> /\ payments' = payments
    BY <1>1, UpdateShareStays
<1> QED
    BY <1>1 DEF ShareNext, CreateShare, ReadShare, FinishUpdate, UpdateShareAtOnce,
                AbandonUpdate, book

\* Each step is one of the ledger, leaves it alone, or writes one movement of the book.
LEMMA LedgerOrBook ==
    ASSUME [SNext]_svars
    PROVE  LedgerNext \/ UNCHANGED <<now, acct, tx>> \/ BookMoves
<1> USE LoansAssumption DEF LoansAssumption
<1>1. CASE PeopleNext \/ UNCHANGED svars
    BY <1>1 DEF PeopleNext, CreatePerson, UpdatePerson, svars
<1>2. CASE ShareNext
    BY <1>2, ShareNextStays
<1>3. CASE DebtNext
    <2>1. ASSUME NEW d \in DebtIds, NEW p \in People, NEW direction \in Directions,
                 NEW amount \in Loans, RecordExisting(d, p, direction, amount)
          PROVE  UNCHANGED <<now, acct, tx>>
        BY <2>1 DEF RecordExisting
    <2>2. ASSUME NEW d \in DebtIds, NEW p \in People, NEW cash \in CashOrigins,
                 NEW amount \in Loans, NEW a \in Accounts, NEW i \in Ids, NEW at \in Times,
                 LendOrBorrow(d, p, cash, amount, a, i, at)
          PROVE  BookMoves
        <3> HIDE DEF Times
        <3> QED
            BY <2>2, LoanIsMove DEF BookMoves
    <2>3. ASSUME NEW d \in DebtIds, NEW amount \in Amounts, NEW a \in Accounts, NEW i \in Ids,
                 NEW at \in Times, Repay(d, amount, a, i, at)
          PROVE  BookMoves
        <3> HIDE DEF Times
        <3> QED
            BY <2>3, RepaymentIsMove DEF BookMoves
    <2>4. ASSUME NEW d \in DebtIds, NEW v \in Revisions, CancelDebt(d, v)
          PROVE  UNCHANGED <<now, acct, tx>>
        BY <2>4 DEF CancelDebt
    <2> QED
        BY <1>3, <2>1, <2>2, <2>3, <2>4 DEF DebtNext
<1>4. CASE RefundNext
    <2>1. PICK e \in Ids, i \in Ids, amount \in Amounts, a \in Accounts, at \in Times :
             Refund(e, amount, a, i, at)
        BY <1>4 DEF RefundNext
    <2> HIDE DEF Times
    <2> QED
        BY <2>1, RefundIsMove DEF BookMoves
<1> QED
    BY <1>1, <1>2, <1>3, <1>4 DEF SNext

LEMMA MoveTells ==
    ASSUME TypeOK, NEW i \in Ids, NEW a \in Accounts, NEW amount \in Amounts, NEW at \in Times,
           NEW m \in BookKinds, BookMove(i, a, amount, at, m)
    PROVE  /\ tx[i] = NoRow /\ Counts(i)' /\ TypeOK'
           /\ \A j \in Ids \ {i} : tx'[j] = tx[j]
           /\ tx'[i].kind = m.kind /\ tx'[i].effect = m.effect /\ tx'[i].amount = amount
           /\ tx'[i].account = a /\ tx'[i].at = at /\ tx'[i].status = "POSTED"
           /\ acct'[a].openedAt = acct[a].openedAt /\ Exists(a) /\ Exists(a)'
           /\ at >= acct[a].openedAt
           /\ \A b \in Accounts \ {a} : acct'[b] = acct[b]
<1>1. m.kind \in Kinds /\ m.effect \in Effects
    BY DEF BookKinds
<1>2. acct[a].status = "ACTIVE" /\ Exists(a) /\ Bump({a}) /\ at >= acct[a].openedAt
    BY DEF BookMove, Exists
<1>3. /\ TypeOK' /\ tx[i] = NoRow /\ Counts(i)'
      /\ \A j \in Ids \ {i} : tx'[j] = tx[j]
    <2>1. PICK k \in Kinds, f \in Effects : k = m.kind /\ f = m.effect
        BY <1>1
    <2>2. PICK rows : rows = [j \in {i} |-> Movement(k, f, a, amount, at)]
        OBVIOUS
    <2>3. Insert(rows) /\ acct[a].status = "ACTIVE" /\ Bump({a}) /\ now' = now
        BY <1>2, <2>1, <2>2 DEF BookMove
    <2> HIDE DEF Kinds, Effects, Times
    <2>4. TypeOK' /\ Kept /\ tx[i] = NoRow /\ Counts(i)'
          /\ \A j \in Ids \ {i} : tx'[j] = tx[j]
        BY <2>2, <2>3, MovementInserted
    <2> QED
        BY <2>4
<1>4. tx'[i] = Movement(m.kind, m.effect, a, amount, at)
    BY DEF BookMove, Insert
<1>5. /\ acct'[a].openedAt = acct[a].openedAt /\ acct'[a].status = acct[a].status
      /\ \A b \in Accounts \ {a} : acct'[b] = acct[b]
    BY <1>2, BumpEffect
<1> QED
    BY <1>2, <1>3, <1>4, <1>5 DEF Movement, Exists

LEMMA GroundedStep ==
    ASSUME TypeOK, Grounded, [SNext]_svars
    PROVE  Grounded'
<1>1. CASE LedgerNext
    <2>1. [Next]_vars
        BY <1>1 DEF LedgerNext
    <2>2. KindsTellEffects' /\ MovementsAfterOpening'
        BY <2>1, LedgerKeepsKinds, OpeningStep DEF Grounded
    <2>3. \A i \in Ids : tx'[i] # NoRow =>
             tx'[i].kind \in CoreKinds \cup {"REVERSAL"} \/ tx'[i] = tx[i]
        BY <2>1, LedgerKeepsKinds DEF Grounded
    <2>4. NoAdjustments'
        BY <2>3 DEF Grounded, NoAdjustments
    <2> QED
        BY <2>2, <2>4 DEF Grounded
<1>2. CASE UNCHANGED <<now, acct, tx>>
    BY <1>2 DEF Grounded, KindsTellEffects, KindTellsEffect, MovementsAfterOpening, NoAdjustments,
                Exists, Counts
<1>3. ASSUME NEW i \in Ids, NEW a \in Accounts, NEW amount \in Amounts, NEW at \in Times,
             NEW m \in BookKinds, BookMove(i, a, amount, at, m)
      PROVE  Grounded'
    <2>1. /\ tx[i] = NoRow
          /\ \A j \in Ids \ {i} : tx'[j] = tx[j]
          /\ tx'[i].kind = m.kind /\ tx'[i].effect = m.effect
          /\ tx'[i].account = a /\ tx'[i].at = at
          /\ acct'[a].openedAt = acct[a].openedAt /\ Exists(a)'
          /\ at >= acct[a].openedAt
          /\ \A b \in Accounts \ {a} : acct'[b] = acct[b]
        <3> HIDE DEF Times
        <3> QED
            BY <1>3, MoveTells
    <2>2. KindsTellEffects'
        <3>1. KindTellsEffect(i)'
            BY <2>1 DEF KindTellsEffect, BookKinds, Inflows, Outflows
        <3>2. \A o \in Ids : tx[o].status = "REVERSED" => tx'[o] = tx[o]
            BY <2>1 DEF NoRow
        <3> QED
            BY <2>1, <3>1, <3>2, KindsKept DEF Grounded
    <2>3. NoAdjustments'
        BY <2>1 DEF Grounded, NoAdjustments, BookKinds
    <2>4. MovementsAfterOpening'
        <3> SUFFICES ASSUME NEW j \in Ids, Counts(j)', NEW b, b = tx'[j].account
                     PROVE  Exists(b)' /\ tx'[j].at >= acct'[b].openedAt
            BY DEF MovementsAfterOpening
        <3>1. CASE j = i
            BY <2>1, <3>1
        <3>2. CASE j # i
            <4>1. Counts(j) /\ b = tx[j].account /\ tx'[j].at = tx[j].at
                BY <2>1, <3>2 DEF Counts
            <4>2. b \in Accounts
                BY <4>1, CountedRow DEF Row
            <4>3. Exists(b) /\ tx[j].at >= acct[b].openedAt
                BY <4>1 DEF Grounded, MovementsAfterOpening
            <4> QED
                BY <2>1, <4>1, <4>2, <4>3 DEF Exists
        <3> QED
            BY <3>1, <3>2
    <2> QED
        BY <2>2, <2>3, <2>4 DEF Grounded
<1> QED
    BY <1>1, <1>2, <1>3, LedgerOrBook DEF BookMoves

LEMMA GroundedInit ==
    ASSUME SInit
    PROVE  Grounded
<1>1. PICK home \in [Expenses -> Accounts] :
         tx = [i \in Ids |-> IF i \in Expenses THEN PostedExpense(home[i]) ELSE NoRow]
    BY DEF SInit
<1>2. \A i \in Ids : tx[i] # NoRow =>
         i \in Expenses /\ tx[i] = PostedExpense(home[i]) /\ home[i] \in Accounts
    BY <1>1
<1>3. \A i \in Ids : tx[i] # NoRow =>
         tx[i].kind = "EXPENSE" /\ tx[i].effect = "OUTFLOW" /\ tx[i].at = 0
         /\ tx[i].account \in Accounts
    <2> SUFFICES ASSUME NEW i \in Ids, tx[i] # NoRow, NEW a, a = home[i], a \in Accounts,
                        tx[i] = PostedExpense(a)
                 PROVE  tx[i].kind = "EXPENSE" /\ tx[i].effect = "OUTFLOW" /\ tx[i].at = 0
                        /\ tx[i].account = a
        BY <1>2
    <2> QED
        BY DEF PostedExpense
<1>4. \A a \in Accounts : acct[a].status = "ACTIVE" /\ acct[a].openedAt = 0
    BY DEF SInit
<1> QED
    BY <1>3, <1>4 DEF Grounded, KindsTellEffects, KindTellsEffect, MovementsAfterOpening,
                      NoAdjustments, Inflows, Outflows, Counts, NoRow, Exists

-----------------------------------------------------------------------------
(* Nothing is left over: the parts of a step *)

\* Payments are of debts that exist, and shares of expenses.
Linked ==
    /\ IsFiniteSet(Recorded)
    /\ \A p \in payments : p.debt \in DebtIds /\ debts[p.debt] # NoDebt
    /\ \A s \in Shares : shares[s] # NoShare => tx[shares[s].expense].kind = "EXPENSE"

BooksInv == TypeOK /\ BookInv /\ DebtInv /\ RecoveryInv /\ Grounded /\ Linked

Claimed(d) == \E s \in Shares : shares[s].status = "ACTIVE" /\ shares[s].debt = d

LEMMA AccountedTells ==
    ASSUME NEW d \in DebtIds, debts[d] \in Debt
    PROVE  AccountedFor(d) = IF debts[d].origin \in {"LEND_NOW", "BORROW_NOW"}
                                \/ /\ debts[d].origin = "SHARED_EXPENSE"
                                   /\ tx[debts[d].originTx].status = "POSTED" /\ Claimed(d)
                             THEN debts[d].amount ELSE 0
<1>1. debts[d].origin \in Origins
    BY DEF Debt
<1> QED
    BY <1>1 DEF AccountedFor, Claimed

LEMMA AccountedTellsNext ==
    ASSUME NEW d \in DebtIds, debts'[d] \in Debt
    PROVE  AccountedFor(d)' = IF debts'[d].origin \in {"LEND_NOW", "BORROW_NOW"}
                                 \/ /\ debts'[d].origin = "SHARED_EXPENSE"
                                    /\ tx'[debts'[d].originTx].status = "POSTED" /\ Claimed(d)'
                              THEN debts'[d].amount ELSE 0
<1>1. debts'[d].origin \in Origins
    BY DEF Debt
<1> QED
    BY <1>1 DEF AccountedFor, Claimed

\* A claimed debt is a part of an expense that counts.
LEMMA ClaimIsOfExpense ==
    ASSUME BooksInv, NEW d \in DebtIds, Claimed(d)
    PROVE  /\ debts[d].originTx \in Ids /\ Counts(debts[d].originTx)
           /\ debts[d].origin = "SHARED_EXPENSE"
<1>1. PICK s \in Shares : shares[s].status = "ACTIVE" /\ shares[s].debt = d
    BY DEF Claimed
<1>2. shares[s] # NoShare
    BY <1>1 DEF NoShare
<1>3. PICK e : e = shares[s].expense
    OBVIOUS
<1>4. Counts(e) /\ e \in Ids /\ debts[d].originTx = e
    BY <1>1, <1>2, <1>3
    DEF BooksInv, BookInv, RecoveryInv, SharesMatchClaims, ClaimMatchesShare, STypeOK, Share
<1>5. debts[d].origin = "SHARED_EXPENSE"
    BY <1>1, <1>2 DEF BooksInv, BookInv, SharesMatchClaims, ClaimMatchesShare
<1> QED
    BY <1>4, <1>5

\* A debt of which no payment and no claim changes is due what it was.
LEMMA DueStays ==
    ASSUME BooksInv, STypeOK', NEW d \in DebtIds, debts[d] # NoDebt, debts'[d] # NoDebt,
           debts'[d].origin = debts[d].origin, debts'[d].direction = debts[d].direction,
           debts'[d].originTx = debts[d].originTx, debts'[d].amount = debts[d].amount,
           Paid(d)' = Paid(d), Claimed(d)' <=> Claimed(d),
           Claimed(d) => tx'[debts[d].originTx].status = tx[debts[d].originTx].status
    PROVE  DueOf'[d] = DueOf[d]
<1>1. debts[d] \in Debt /\ debts'[d] \in Debt
    BY DEF BooksInv, BookInv, STypeOK
<1>2. AccountedFor(d)' = AccountedFor(d)
    BY <1>1, AccountedTells, AccountedTellsNext
<1> QED
    BY <1>2 DEF DueOf, Towards

\* A row that was and is, whose shares and whose original's shares stay.
LEMMA CarriedStays ==
    ASSUME TypeOK, KindsTellEffects, NEW i \in Ids, Counts(i)' <=> Counts(i),
           Counts(i) => /\ tx'[i].kind = tx[i].kind /\ tx'[i].effect = tx[i].effect
                        /\ tx'[i].amount = tx[i].amount /\ tx'[i].reversalOf = tx[i].reversalOf
                        /\ TakenOff'[i] = TakenOff[i],
           \A o \in Ids : tx[o].status = "REVERSED" =>
              tx'[o].kind = tx[o].kind /\ TakenOff'[o] = TakenOff[o]
    PROVE  CarriedOf'[i] = CarriedOf[i]
<1>1. CASE ~Counts(i)
    BY <1>1 DEF CarriedOf
<1>2. CASE Counts(i)
    <2>1. Signed(tx'[i]) = Signed(tx[i])
        BY <1>2 DEF Signed
    <2>2. tx[i].kind = "REVERSAL" =>
             tx[i].reversalOf \in Ids /\ tx[tx[i].reversalOf].status = "REVERSED"
        BY <1>2, CountedRow DEF KindsTellEffects, KindTellsEffect
    <2> QED
        BY <1>2, <2>1, <2>2 DEF CarriedOf
<1> QED
    BY <1>1, <1>2

LEMMA TakenOffStays ==
    ASSUME STypeOK, STypeOK', shares' = shares
    PROVE  TakenOff' = TakenOff
<1>1. ASSUME NEW e \in Ids
      PROVE  ActiveShareTotal(e)' = ActiveShareTotal(e)
    <2>1. ActiveShares(e)' = ActiveShares(e)
        BY DEF ActiveShares
    <2> QED
        BY <2>1, SharesKept
<1> QED
    BY <1>1 DEF TakenOff

CarriedAreInt == \A i \in Ids : CarriedOf[i] \in Int
DuesAreInt == \A d \in DebtIds : DueOf[d] \in Int

LEMMA BooksAreInt == BooksInv => CarriedAreInt /\ DuesAreInt
BY CarriedType, DueType DEF BooksInv, BookInv, Grounded, CarriedAreInt, DuesAreInt

LEMMA BooksAreIntNext == BooksInv' => CarriedAreInt' /\ DuesAreInt'
BY BooksAreInt, PTL

\* One movement is new, or its shares change.
LEMMA CarriedShifts ==
    ASSUME BooksInv, BooksInv', NEW i \in Ids,
           \A j \in Ids \ {i} : CarriedOf'[j] = CarriedOf[j]
    PROVE  /\ Sum(CarriedOf, Ids)' = Sum(CarriedOf, Ids) + CarriedOf'[i] - CarriedOf[i]
           /\ Sum(CarriedOf, Ids) \in Int
<1>1. PICK v, w : v = CarriedOf' /\ w = CarriedOf
    OBVIOUS
<1>2. \A j \in Ids : v[j] \in Int /\ w[j] \in Int
    BY <1>1, BooksAreInt, BooksAreIntNext DEF CarriedAreInt
<1>3. Sum(v, Ids) = Sum(w, Ids) + v[i] - w[i] /\ Sum(w, Ids) \in Int
    BY <1>1, <1>2, FiniteAssumption, SumShifts DEF FiniteAssumption
<1> QED
    BY <1>1, <1>3

LEMMA CarriedKept ==
    ASSUME BooksInv, BooksInv', \A j \in Ids : CarriedOf'[j] = CarriedOf[j]
    PROVE  Sum(CarriedOf, Ids)' = Sum(CarriedOf, Ids)
<1>1. PICK v, w : v = CarriedOf' /\ w = CarriedOf
    OBVIOUS
<1>2. \A j \in Ids : v[j] = w[j] /\ w[j] \in Int
    BY <1>1, BooksAreInt DEF CarriedAreInt
<1>3. Sum(v, Ids) = Sum(w, Ids)
    BY <1>1, <1>2, FiniteAssumption, SumAgree DEF FiniteAssumption
<1> QED
    BY <1>1, <1>3

\* One debt is written, for the first time or again.
LEMMA DueShifts ==
    ASSUME BooksInv, BooksInv', NEW d \in DebtIds, debts'[d] # NoDebt,
           \A x \in DebtIds \ {d} : debts'[x] = debts[x],
           \A x \in Recorded \ {d} : DueOf'[x] = DueOf[x]
    PROVE  /\ Sum(DueOf, Recorded)' = Sum(DueOf, Recorded) + DueOf'[d] - DueOf[d]
           /\ Sum(DueOf, Recorded) \in Int
<1>1. PICK v, w, S, R : v = DueOf' /\ w = DueOf /\ S = Recorded \cup {d} /\ R = Recorded
    OBVIOUS
<1>2. Recorded' = S /\ IsFiniteSet(R) /\ IsFiniteSet(S) /\ R \in SUBSET S
    <2>1. Recorded' = Recorded \cup {d}
        BY DEF Recorded
    <2>2. IsFiniteSet(R \cup {d})
        BY <1>1, FS_AddElement DEF BooksInv, Linked
    <2> QED
        BY <1>1, <2>1, <2>2 DEF BooksInv, Linked
<1>3. \A x \in S : v[x] \in Int /\ w[x] \in Int
    BY <1>1, BooksAreInt, BooksAreIntNext DEF DuesAreInt, Recorded
<1>4. \A x \in S \ {d} : v[x] = w[x]
    BY <1>1
<1>5. d \in S
    BY <1>1
<1>6. Sum(v, S) = Sum(w, S) + v[d] - w[d]
    BY <1>2, <1>3, <1>4, <1>5, SumShifts
<1>7. Sum(w, S) = Sum(w, R) /\ Sum(w, R) \in Int
    <2>1. \A x \in S \ R : w[x] = 0
        BY <1>1 DEF Recorded, DueOf
    <2>2. R \in SUBSET R /\ \A x \in R : w[x] \in Int
        BY <1>2, <1>3
    <2> QED
        BY <1>2, <2>1, <2>2, SumZeros, SumBasics
<1>8. Sum(DueOf, Recorded)' = Sum(v, S)
    BY <1>1, <1>2
<1> QED
    BY <1>1, <1>6, <1>7, <1>8

LEMMA DueKept ==
    ASSUME BooksInv, BooksInv', debts' = debts, \A x \in Recorded : DueOf'[x] = DueOf[x]
    PROVE  Sum(DueOf, Recorded)' = Sum(DueOf, Recorded)
<1>1. PICK v, w, R : v = DueOf' /\ w = DueOf /\ R = Recorded
    OBVIOUS
<1>2. Recorded' = R /\ IsFiniteSet(R)
    BY <1>1 DEF Recorded, BooksInv, Linked
<1>3. \A x \in R : w[x] \in Int /\ v[x] = w[x]
    BY <1>1, BooksAreInt DEF DuesAreInt, Recorded
<1>4. Sum(v, R) = Sum(w, R)
    BY <1>2, <1>3, SumAgree
<1> QED
    BY <1>1, <1>2, <1>4

\* A step of the ledger or of a refund: no movement that counts changes, and what
\* becomes one carries nothing.
LEMMA NothingMoves ==
    ASSUME BooksInv, BooksInv', Balanced, UNCHANGED <<debts, shares, payments>>,
           \A i \in Ids : Counts(i) => tx'[i] = tx[i],
           \A i \in Ids : ~Counts(i) /\ Counts(i)' => CarriedOf'[i] = 0
    PROVE  Balanced'
<1>1. STypeOK /\ STypeOK' /\ TypeOK /\ KindsTellEffects
    BY DEF BooksInv, BookInv, Grounded
<1>2. TakenOff' = TakenOff
    BY <1>1, TakenOffStays
<1>3. \A o \in Ids : tx[o].status = "REVERSED" =>
         tx'[o].kind = tx[o].kind /\ TakenOff'[o] = TakenOff[o]
    BY <1>2 DEF Counts
<1>4. ASSUME NEW i \in Ids
      PROVE  CarriedOf'[i] = CarriedOf[i]
    <2>1. CASE Counts(i)
        BY <1>1, <1>2, <1>3, <2>1, CarriedStays DEF Counts
    <2>2. CASE ~Counts(i)
        BY <2>2 DEF CarriedOf
    <2> QED
        BY <2>1, <2>2
<1>5. ASSUME NEW d \in Recorded
      PROVE  DueOf'[d] = DueOf[d]
    <2>1. d \in DebtIds /\ debts[d] # NoDebt
        BY DEF Recorded
    <2>2. Paid(d)' = Paid(d)
        BY PaidUnchanged
    <2>3. Claimed(d)' <=> Claimed(d)
        BY DEF Claimed
    <2>4. Claimed(d) => tx'[debts[d].originTx].status = tx[debts[d].originTx].status
        BY <2>1, ClaimIsOfExpense
    <2> QED
        BY <1>1, <2>1, <2>2, <2>3, <2>4, DueStays
<1>6. Sum(CarriedOf, Ids)' = Sum(CarriedOf, Ids)
    BY <1>4, CarriedKept
<1>7. Sum(DueOf, Recorded)' = Sum(DueOf, Recorded)
    BY <1>5, DueKept
<1> QED
    BY <1>6, <1>7 DEF Balanced

\* A posted row has no shares yet.
LEMMA NoneTakenOff ==
    ASSUME BooksInv, NEW i \in Ids, ~Counts(i)
    PROVE  TakenOff[i] = 0
<1>1. ActiveShares(i) = {}
    BY DEF ActiveShares, NoShare, BooksInv, RecoveryInv
<1> QED
    BY <1>1, NothingTaken DEF BooksInv, BookInv, TakenOff

LEMMA PostMoves ==
    ASSUME BooksInv, BooksInv', Balanced, UNCHANGED <<debts, shares, payments>>,
           NEW i \in Ids, NEW v \in Versions, Post(i, v)
    PROVE  Balanced'
<1>1. /\ tx[i] \in Row /\ tx[i] # NoRow /\ tx[i].status = "DRAFT" /\ tx[i].kind \in CoreKinds
      /\ ~Counts(i)
    BY DEF Post, BooksInv, TypeOK, NoRow, Counts
<1>2. tx'[i].kind = tx[i].kind /\ \A k \in Ids \ {i} : tx'[k] = tx[k]
    BY <1>1 DEF Post, BooksInv, TypeOK, Row
<1>3. TakenOff'[i] = 0
    BY <1>1, NoneTakenOff, TakenOffStays DEF BooksInv, BookInv
<1>4. CarriedOf'[i] = 0
    BY <1>1, <1>2, <1>3 DEF CarriedOf, Principal
<1>5. \A j \in Ids : Counts(j) => tx'[j] = tx[j]
    BY <1>1, <1>2
<1>6. \A j \in Ids : ~Counts(j) /\ Counts(j)' => CarriedOf'[j] = 0
    BY <1>2, <1>4 DEF Counts
<1> QED
    BY <1>5, <1>6, NothingMoves

\* The claims on an expense outlive it: what its reversal puts back on the spending
\* is what the debts of its shares are due.
LEMMA ClaimsOfExpense ==
    ASSUME BooksInv, NEW i \in Ids, NEW K,
           K = {d \in Recorded : Claimed(d) /\ debts[d].originTx = i},
           NEW w, \A d \in K : w[d] = debts[d].amount
    PROVE  /\ TakenOff[i] = Sum(w, K) /\ IsFiniteSet(K) /\ K \in SUBSET Recorded
           /\ \A d \in K : w[d] \in Int
<1> DEFINE S == ActiveShares(i)
           p == [s \in S |-> shares[s].debt]
           u == ShareAmounts
<1>1. /\ IsFiniteSet(S) /\ \A s \in S : u[s] \in Int
      /\ ActiveShareTotal(i) = Sum(u, S)
    BY SharesAreSummed DEF SharesAreSums, BooksInv, BookInv
<1>2. \A s \in S : /\ s \in Shares /\ shares[s] # NoShare /\ shares[s].status = "ACTIVE"
                   /\ shares[s].expense = i /\ shares[s].debt \in DebtIds
                   /\ debts[shares[s].debt] # NoDebt
                   /\ debts[shares[s].debt].originTx = i
                   /\ debts[shares[s].debt].amount = shares[s].amount
    BY DEF ActiveShares, NoShare, BooksInv, BookInv, STypeOK, Share, ClaimsExist,
           SharesMatchClaims, ClaimMatchesShare
<1>3. K = {p[s] : s \in S}
    <2>1. \A s \in S : p[s] \in K
        BY <1>2 DEF Recorded, Claimed
    <2>2. \A d \in K : \E s \in S : d = p[s]
        <3> SUFFICES ASSUME NEW d \in K
                     PROVE  \E s \in S : d = p[s]
            OBVIOUS
        <3>1. PICK s \in Shares : shares[s].status = "ACTIVE" /\ shares[s].debt = d
            BY DEF Claimed
        <3>2. shares[s] # NoShare
            BY <3>1 DEF NoShare
        <3>3. shares[s].expense = i
            BY <3>1, <3>2 DEF BooksInv, BookInv, SharesMatchClaims, ClaimMatchesShare
        <3> QED
            BY <3>1, <3>3 DEF ActiveShares
    <2> QED
        BY <2>1, <2>2
<1>4. IsFiniteSet(K) /\ K \in SUBSET Recorded
    BY FS_Subset DEF BooksInv, Linked
<1>5. \A d \in K : w[d] \in Int
    BY DebtType DEF BooksInv, BookInv, Recorded
<1>6. p \in [S -> K]
    BY <1>3
<1>7. \A s \in S : u[s] = w[p[s]] /\ w[p[s]] \in Int
    BY <1>2, <1>5, <1>6 DEF ShareAmounts
<1>8. \A s, q \in S : p[s] = p[q] => s = q
    BY <1>2 DEF BooksInv, BookInv, SharesMatchClaims
<1> HIDE DEF S, p, u
<1>9. Sum(u, S) = Sum(w, {p[s] : s \in S})
    BY <1>1, <1>4, <1>6, <1>7, <1>8, SumRenamed
<1>10. Sum(u, S) = Sum(w, K)
    BY <1>3, <1>9
<1> QED
    BY <1>1, <1>4, <1>5, <1>10 DEF TakenOff, S

LEMMA ReverseMoves ==
    ASSUME BooksInv, BooksInv', Balanced, UNCHANGED <<debts, shares, payments>>,
           NEW i \in Ids, NEW v \in Versions, NEW r \in Ids, NEW at \in Times,
           Reverse(i, v, r, at)
    PROVE  Balanced'
<1>1. /\ tx[i] \in Row /\ tx[r] = NoRow /\ i # r
      /\ tx[i].status = "POSTED" /\ tx[i].kind \in CoreKinds
    BY DEF Reverse, BooksInv, TypeOK, NoRow
<1>2. /\ tx'[i].kind = tx[i].kind /\ tx'[i].effect = tx[i].effect /\ tx'[i].amount = tx[i].amount
      /\ tx'[i].reversalOf = tx[i].reversalOf /\ tx'[i].status = "REVERSED"
      /\ tx'[r].kind = "REVERSAL" /\ tx'[r].reversalOf = i /\ tx'[r].status = "POSTED"
      /\ \A k \in Ids \ {i, r} : tx'[k] = tx[k]
    BY <1>1 DEF Reverse, BooksInv, TypeOK, Row
<1>3. STypeOK /\ STypeOK' /\ TypeOK /\ KindsTellEffects
    BY DEF BooksInv, BookInv, Grounded
<1>4. TakenOff' = TakenOff
    BY <1>3, TakenOffStays
<1>5. ASSUME NEW j \in Ids \ {r}
      PROVE  CarriedOf'[j] = CarriedOf[j]
    <2>1. \A o \in Ids : tx[o].status = "REVERSED" => tx'[o].kind = tx[o].kind
        BY <1>1, <1>2 DEF NoRow
    <2>2. Counts(j)' <=> Counts(j)
        BY <1>1, <1>2 DEF Counts
    <2>3. Counts(j) => /\ tx'[j].kind = tx[j].kind /\ tx'[j].effect = tx[j].effect
                       /\ tx'[j].amount = tx[j].amount /\ tx'[j].reversalOf = tx[j].reversalOf
        BY <1>2
    <2> QED
        BY <1>3, <1>4, <2>1, <2>2, <2>3, CarriedStays
<1> DEFINE K == {d \in Recorded : Claimed(d) /\ debts[d].originTx = i}
           w == [d \in DebtIds |-> debts[d].amount]
           back == [d \in Recorded |-> IF d \in K THEN w[d] ELSE 0]
<1>6. \A d \in K : w[d] = debts[d].amount
    BY DEF Recorded
<1>7. /\ TakenOff[i] = Sum(w, K) /\ IsFiniteSet(K) /\ K \in SUBSET Recorded
      /\ \A d \in K : w[d] \in Int
    <2> HIDE DEF w
    <2> QED
        BY <1>6, ClaimsOfExpense
<1>8. CarriedOf[r] = 0 /\ CarriedOf'[r] = TakenOff[i]
    <2>1. ~Counts(r) /\ Counts(r)'
        BY <1>1, <1>2 DEF Counts, NoRow
    <2>2. CarriedOf'[r] = IF tx[i].kind = "EXPENSE" THEN TakenOff[i] ELSE 0
        BY <1>2, <1>4, <2>1 DEF CarriedOf, Principal
    <2>3. tx[i].kind # "EXPENSE" => TakenOff[i] = 0
        <3>1. tx[i].kind # "EXPENSE" => ActiveShares(i) = {}
            BY DEF ActiveShares, NoShare, BooksInv, Linked
        <3> QED
            BY <3>1, NothingTaken DEF BooksInv, BookInv, TakenOff
    <2> QED
        BY <2>1, <2>2, <2>3 DEF CarriedOf
<1>9. Sum(CarriedOf, Ids)' = Sum(CarriedOf, Ids) + TakenOff[i] /\ Sum(CarriedOf, Ids) \in Int
    <2>1. /\ Sum(CarriedOf, Ids)' = Sum(CarriedOf, Ids) + CarriedOf'[r] - CarriedOf[r]
          /\ Sum(CarriedOf, Ids) \in Int /\ CarriedOf'[r] \in Int
        BY <1>5, CarriedShifts, BooksAreIntNext DEF CarriedAreInt
    <2> QED
        BY <1>8, <2>1
<1>10. \A d \in Recorded : /\ DueOf[d] \in Int /\ DueOf'[d] \in Int /\ back[d] \in Int
                           /\ DueOf[d] = DueOf'[d] + back[d]
    <2> SUFFICES ASSUME NEW d \in Recorded
                 PROVE  /\ DueOf[d] \in Int /\ DueOf'[d] \in Int /\ back[d] \in Int
                        /\ DueOf[d] = DueOf'[d] + back[d]
        OBVIOUS
    <2>1. d \in DebtIds /\ debts[d] # NoDebt /\ debts[d] \in Debt /\ debts[d].amount \in Int
        BY DebtType DEF Recorded, BooksInv, BookInv
    <2>2. DueOf[d] \in Int /\ DueOf'[d] \in Int
        BY <2>1, BooksAreInt, BooksAreIntNext DEF DuesAreInt
    <2>3. Paid(d)' = Paid(d) /\ (Claimed(d)' <=> Claimed(d))
        BY PaidUnchanged DEF Claimed
    <2>4. CASE d \notin K
        <3>1. Claimed(d) => /\ debts[d].originTx # i /\ debts[d].originTx \in Ids
                            /\ Counts(debts[d].originTx)
            BY <2>1, <2>4, ClaimIsOfExpense
        <3>2. Claimed(d) => tx'[debts[d].originTx].status = tx[debts[d].originTx].status
            BY <1>1, <1>2, <3>1 DEF Counts, NoRow
        <3>3. DueOf'[d] = DueOf[d]
            BY <1>3, <2>1, <2>3, <3>2, DueStays
        <3> QED
            BY <2>2, <2>4, <3>3
    <2>5. CASE d \in K
        <3>1. Claimed(d) /\ debts[d].originTx = i
            BY <2>5
        <3>2. debts[d].origin = "SHARED_EXPENSE" /\ debts[d].direction = "RECEIVABLE"
            <4>1. PICK s \in Shares : shares[s].status = "ACTIVE" /\ shares[s].debt = d
                BY <3>1 DEF Claimed
            <4>2. shares[s] # NoShare
                BY <4>1 DEF NoShare
            <4> QED
                BY <4>1, <4>2 DEF BooksInv, BookInv, SharesMatchClaims, ClaimMatchesShare
        <3>3. AccountedFor(d) = debts[d].amount
            BY <1>1, <2>1, <3>1, <3>2, AccountedTells
        <3>4. AccountedFor(d)' = 0
            BY <1>2, <2>1, <3>1, <3>2, AccountedTellsNext
        <3>5. Paid(d) \in Int
            BY <2>1, DebtType DEF BooksInv, BookInv
        <3>6. DueOf[d] = debts[d].amount - Paid(d) /\ DueOf'[d] = 0 - Paid(d)
            BY <2>1, <2>3, <3>2, <3>3, <3>4 DEF DueOf, Towards
        <3>7. back[d] = debts[d].amount
            BY <2>1, <2>5
        <3> QED
            BY <2>1, <2>2, <3>5, <3>6, <3>7
    <2> QED
        BY <2>4, <2>5
<1>11. Sum(back, Recorded) = TakenOff[i]
    <2>1. /\ \A d \in K : back[d] = w[d] /\ back[d] \in Int
          /\ \A d \in Recorded \ K : back[d] = 0
        BY <1>7
    <2>2. IsFiniteSet(Recorded)
        BY DEF BooksInv, Linked
    <2> HIDE DEF back, K, w
    <2>3. Sum(back, Recorded) = Sum(back, K)
        BY <1>7, <2>1, <2>2, SumZeros
    <2>4. Sum(back, K) = Sum(w, K)
        BY <1>7, <2>1, SumAgree
    <2> QED
        BY <1>7, <2>3, <2>4
<1>12. Sum(DueOf, Recorded) = Sum(DueOf, Recorded)' + TakenOff[i]
       /\ Sum(DueOf, Recorded)' \in Int
    <2>1. PICK R, x, y : R = Recorded /\ x = DueOf' /\ y = DueOf
        OBVIOUS
    <2>2. IsFiniteSet(R) /\ Recorded' = R /\ R \in SUBSET R
        BY <2>1 DEF Recorded, BooksInv, Linked
    <2>3. \A d \in R : y[d] \in Int /\ x[d] \in Int /\ back[d] \in Int /\ y[d] = x[d] + back[d]
        BY <1>10, <2>1
    <2> HIDE DEF back, K, w
    <2>4. Sum(y, R) = Sum(x, R) + Sum(back, R) /\ Sum(x, R) \in Int
        BY <2>2, <2>3, SumPlus, SumBasics
    <2> QED
        BY <1>11, <2>1, <2>2, <2>4
<1>13. TakenOff[i] \in Int
    BY ShareTotalType DEF TakenOff, BooksInv, BookInv
<1> QED
    BY <1>9, <1>12, <1>13 DEF Balanced

-----------------------------------------------------------------------------
(* Nothing is left over: the ledger and its refunds *)

LEMMA LedgerBalances ==
    ASSUME BooksInv, BooksInv', Balanced, LedgerNext
    PROVE  Balanced'
<1>1. UNCHANGED <<debts, shares, payments>>
    BY DEF LedgerNext, book
<1>2. ASSUME tx' = tx
      PROVE  Balanced'
    BY <1>1, <1>2, NothingMoves DEF Counts
<1>3. ASSUME NEW i \in Ids, NEW row, row.status = "DRAFT",
             tx' = [tx EXCEPT ![i] = row], ~Counts(i)
      PROVE  Balanced'
    <2>1. ~Counts(i)'
        BY <1>3 DEF Counts, BooksInv, TypeOK
    <2>2. \A j \in Ids \ {i} : tx'[j] = tx[j]
        BY <1>3 DEF BooksInv, TypeOK
    <2>3. \A j \in Ids : Counts(j) => tx'[j] = tx[j]
        BY <1>3, <2>2
    <2>4. \A j \in Ids : ~(~Counts(j) /\ Counts(j)')
        BY <2>1, <2>2 DEF Counts
    <2> QED
        BY <1>1, <2>3, <2>4, NothingMoves
<1>4. CASE Tick \/ AccountNext
    BY <1>2, <1>4 DEF Tick, AccountNext, CreateAccount, UpdateAccount
<1>5. ASSUME NEW i \in Ids, NEW draft \in Drafts, CreateDraft(i, draft)
      PROVE  Balanced'
    <2>1. PICK row : row = DraftRow(draft, 1)
        OBVIOUS
    <2>2. row.status = "DRAFT"
        BY <2>1 DEF DraftRow
    <2>3. tx' = [tx EXCEPT ![i] = row] /\ ~Counts(i)
        BY <1>5, <2>1 DEF CreateDraft, Counts, NoRow
    <2> QED
        BY <1>3, <2>2, <2>3
<1>6. ASSUME NEW i \in Ids, NEW v \in Versions, NEW draft \in Drafts, UpdateDraft(i, v, draft)
      PROVE  Balanced'
    <2>1. PICK row : row = DraftRow(draft, v + 1)
        OBVIOUS
    <2>2. row.status = "DRAFT"
        BY <2>1 DEF DraftRow
    <2>3. tx' = [tx EXCEPT ![i] = row] /\ ~Counts(i)
        BY <1>6, <2>1 DEF UpdateDraft, Counts
    <2> QED
        BY <1>3, <2>2, <2>3
<1>7. ASSUME NEW i \in Ids, NEW v \in Versions, Post(i, v)
      PROVE  Balanced'
    BY <1>1, <1>7, PostMoves
<1>8. ASSUME NEW i \in Ids, NEW v \in Versions, NEW r \in Ids, NEW at \in Times,
             Reverse(i, v, r, at)
      PROVE  Balanced'
    BY <1>1, <1>8, ReverseMoves
<1> QED
    BY <1>4, <1>5, <1>6, <1>7, <1>8 DEF LedgerNext, Next, TransactionNext

LEMMA RefundBalances ==
    ASSUME BooksInv, BooksInv', Balanced, NEW e \in Ids, NEW amount \in Amounts,
           NEW a \in Accounts, NEW i \in Ids, NEW at \in Times, Refund(e, amount, a, i, at)
    PROVE  Balanced'
<1>1. UNCHANGED <<debts, shares, payments>>
    BY DEF Refund
<1>2. PICK m \in BookKinds : m.kind = "REFUND" /\ BookMove(i, a, amount, at, m)
    BY RefundIsMove
<1>3. /\ tx[i] = NoRow /\ \A j \in Ids \ {i} : tx'[j] = tx[j]
      /\ tx'[i].kind = "REFUND"
    <2> HIDE DEF Times
    <2> QED
        BY <1>2, MoveTells DEF BooksInv
<1>4. CarriedOf'[i] = 0
    BY <1>3 DEF CarriedOf, Principal
<1>5. \A j \in Ids : Counts(j) => tx'[j] = tx[j]
    BY <1>3 DEF Counts, NoRow
<1>6. \A j \in Ids : ~Counts(j) /\ Counts(j)' => CarriedOf'[j] = 0
    BY <1>3, <1>4 DEF Counts
<1> QED
    BY <1>1, <1>5, <1>6, NothingMoves

-----------------------------------------------------------------------------
(* Nothing is left over: debts *)

LEMMA PaidNothing ==
    ASSUME NEW d, \A p \in payments : p.debt # d
    PROVE  Paid(d) = 0
<1>1. {p \in payments : p.debt = d} = {}
    OBVIOUS
<1>2. PICK w : w = [p \in {} |-> 0]
    OBVIOUS
<1>3. IsFiniteSet({}) /\ \A p \in {} : w[p] = p.amount /\ w[p] \in Int
    BY FS_EmptySet
<1>4. TotalOf({}) = Sum(w, {})
    BY <1>3, TotalIsSum
<1>5. Sum(w, {}) = 0
    BY <1>3, SumBasics
<1> QED
    BY <1>1, <1>4, <1>5 DEF Paid

LEMMA PaidMore ==
    ASSUME DebtInv, NEW d, NEW i \in Ids, ~Counts(i), NEW amount \in Amounts,
           payments' = payments \cup {[debt |-> d, movement |-> i, amount |-> amount]}
    PROVE  Paid(d)' = Paid(d) + amount /\ \A x : x # d => Paid(x)' = Paid(x)
<1>1. PICK p : p = [debt |-> d, movement |-> i, amount |-> amount]
    OBVIOUS
<1>2. p.debt = d /\ p.movement = i /\ p.amount = amount
    BY <1>1
<1>3. PICK S, T : S = {q \in payments : q.debt = d} /\ T = S \cup {p}
    OBVIOUS
<1>4. IsFiniteSet(S) /\ IsFiniteSet(T)
    <2>1. IsFiniteSet(S)
        BY <1>3, FS_Subset DEF DebtInv
    <2> QED
        BY <1>3, <2>1, FS_AddElement
<1>5. PICK w : w = [q \in T |-> q.amount]
    OBVIOUS
<1>6. \A q \in T : w[q] = q.amount /\ w[q] \in Int
    BY <1>2, <1>3, <1>5, AmountType DEF DebtInv
<1>7. p \notin S
    BY <1>2, <1>3 DEF DebtInv
<1>8. S \in SUBSET T /\ p \in T \ S
    BY <1>3, <1>7
<1>9. Sum(w, T) = Sum(w, S) + w[p]
    <2>1. \A q \in T : w[q] \in Int
        BY <1>6
    <2>2. Sum(w, S \cup {p}) = Sum(w, S) + w[p]
        BY <1>4, <1>8, <2>1, SumBasics
    <2> QED
        BY <1>3, <2>2
<1>10. TotalOf(T) = Sum(w, T) /\ TotalOf(S) = Sum(w, S)
    BY <1>4, <1>6, <1>8, TotalIsSum
<1>11. Paid(d) = TotalOf(S) /\ Paid(d)' = TotalOf(T)
    <2>1. {q \in payments' : q.debt = d} = T
        BY <1>1, <1>2, <1>3
    <2> QED
        BY <1>3, <2>1 DEF Paid
<1>12. ASSUME NEW x, x # d
       PROVE  Paid(x)' = Paid(x)
    <2>1. {q \in payments : q.debt = x}' = {q \in payments : q.debt = x}
        BY <1>12
    <2> QED
        BY <2>1, PaidOf
<1> QED
    BY <1>2, <1>6, <1>8, <1>9, <1>10, <1>11, <1>12

\* A debt is written; no movement that counts and no share changes.
LEMMA DebtWritten ==
    ASSUME BooksInv, BooksInv', shares' = shares, \A i \in Ids : Counts(i) => tx'[i] = tx[i],
           NEW d \in DebtIds, debts'[d] # NoDebt,
           \A x \in DebtIds \ {d} : debts'[x] = debts[x] /\ Paid(x)' = Paid(x)
    PROVE  /\ Sum(DueOf, Recorded)' = Sum(DueOf, Recorded) + DueOf'[d] - DueOf[d]
           /\ Sum(DueOf, Recorded) \in Int
<1>1. STypeOK'
    BY DEF BooksInv, BookInv
<1>2. ASSUME NEW x \in Recorded \ {d}
      PROVE  DueOf'[x] = DueOf[x]
    <2>1. x \in DebtIds /\ debts[x] # NoDebt /\ debts'[x] = debts[x] /\ Paid(x)' = Paid(x)
        BY DEF Recorded
    <2>2. Claimed(x)' <=> Claimed(x)
        BY DEF Claimed
    <2>3. Claimed(x) => tx'[debts[x].originTx].status = tx[debts[x].originTx].status
        BY <2>1, ClaimIsOfExpense
    <2> QED
        BY <1>1, <2>1, <2>2, <2>3, DueStays
<1> QED
    BY <1>2, DueShifts

\* A movement is written; no other and no share changes.
LEMMA RowWritten ==
    ASSUME BooksInv, BooksInv', shares' = shares, NEW i \in Ids, tx[i] = NoRow,
           \A j \in Ids \ {i} : tx'[j] = tx[j]
    PROVE  /\ Sum(CarriedOf, Ids)' = Sum(CarriedOf, Ids) + CarriedOf'[i]
           /\ Sum(CarriedOf, Ids) \in Int /\ CarriedOf'[i] \in Int
<1>1. STypeOK /\ STypeOK' /\ TypeOK /\ KindsTellEffects
    BY DEF BooksInv, BookInv, Grounded
<1>2. TakenOff' = TakenOff
    BY <1>1, TakenOffStays
<1>3. \A o \in Ids : tx[o].status = "REVERSED" =>
         tx'[o].kind = tx[o].kind /\ TakenOff'[o] = TakenOff[o]
    BY <1>2 DEF NoRow
<1>4. \A j \in Ids \ {i} : CarriedOf'[j] = CarriedOf[j]
    BY <1>1, <1>2, <1>3, CarriedStays DEF Counts
<1>5. CarriedOf[i] = 0
    BY DEF CarriedOf, Counts, NoRow
<1>6. CarriedOf'[i] \in Int
    BY BooksAreIntNext DEF CarriedAreInt
<1>7. /\ Sum(CarriedOf, Ids)' = Sum(CarriedOf, Ids) + CarriedOf'[i] - CarriedOf[i]
      /\ Sum(CarriedOf, Ids) \in Int
    BY <1>4, CarriedShifts
<1> QED
    BY <1>5, <1>6, <1>7

\* A debt that exists already is due nothing that a movement carries.
LEMMA ExistingBalances ==
    ASSUME BooksInv, BooksInv', Balanced, NEW d \in DebtIds, NEW p \in People,
           NEW direction \in Directions, NEW amount \in Loans,
           RecordExisting(d, p, direction, amount)
    PROVE  Balanced'
<1>1. /\ debts[d] = NoDebt /\ UNCHANGED <<tx, shares, payments>>
      /\ debts' = [debts EXCEPT ![d] = DebtRow(p, direction, "EXISTING", NoId, amount)]
    BY DEF RecordExisting
<1>2. /\ debts'[d].origin = "EXISTING" /\ debts'[d].status = "OPEN"
      /\ \A x \in DebtIds \ {d} : debts'[x] = debts[x] /\ Paid(x)' = Paid(x)
    <2>1. PICK row : row = DebtRow(p, direction, "EXISTING", NoId, amount)
        OBVIOUS
    <2>2. row.origin = "EXISTING" /\ row.status = "OPEN"
        BY <2>1 DEF DebtRow
    <2>3. debts'[d] = row /\ \A x \in DebtIds \ {d} : debts'[x] = debts[x]
        BY <1>1, <2>1 DEF BooksInv, BookInv, STypeOK
    <2> QED
        BY <1>1, <2>2, <2>3, PaidUnchanged
<1>3. debts'[d] # NoDebt
    BY <1>2 DEF NoDebt
<1>4. Paid(d)' = 0
    <2>1. Paid(d) = 0
        BY <1>1, PaidNothing DEF BooksInv, Linked
    <2> QED
        BY <1>1, <2>1, PaidUnchanged
<1>5. AccountedFor(d)' = 0
    BY <1>2 DEF AccountedFor
<1>6. DueOf[d] = 0 /\ DueOf'[d] = 0
    <2>1. DueOf'[d] = IF debts'[d].direction = "RECEIVABLE" THEN AccountedFor(d)' - Paid(d)'
                      ELSE -(AccountedFor(d)' - Paid(d)')
        BY <1>3 DEF DueOf, Towards
    <2>2. DueOf'[d] = 0
        <3>1. PICK x, y : x = AccountedFor(d)' /\ y = Paid(d)'
            OBVIOUS
        <3>2. x - y = 0
            BY <1>4, <1>5, <3>1
        <3>3. -(x - y) = 0
            BY <3>2
        <3> QED
            BY <2>1, <3>1, <3>2, <3>3
    <2> QED
        BY <1>1, <2>2 DEF DueOf
<1>7. \A i \in Ids : Counts(i) => tx'[i] = tx[i]
    BY <1>1
<1>8. /\ Sum(DueOf, Recorded)' = Sum(DueOf, Recorded) + DueOf'[d] - DueOf[d]
      /\ Sum(DueOf, Recorded) \in Int
    BY <1>1, <1>2, <1>3, <1>7, DebtWritten
<1>9. Sum(CarriedOf, Ids)' = Sum(CarriedOf, Ids)
    <2>1. STypeOK /\ STypeOK' /\ TypeOK /\ KindsTellEffects
        BY DEF BooksInv, BookInv, Grounded
    <2>2. TakenOff' = TakenOff
        BY <1>1, <2>1, TakenOffStays
    <2>3. \A j \in Ids : CarriedOf'[j] = CarriedOf[j]
        BY <1>1, <2>1, <2>2, CarriedStays DEF Counts
    <2> QED
        BY <2>3, CarriedKept
<1> QED
    BY <1>6, <1>8, <1>9 DEF Balanced

\* A loan made now is due what its movement carried the other way.
LEMMA LoanBalances ==
    ASSUME BooksInv, BooksInv', Balanced, NEW d \in DebtIds, NEW p \in People,
           NEW cash \in CashOrigins, NEW amount \in Loans, NEW a \in Accounts, NEW i \in Ids,
           NEW at \in Times, LendOrBorrow(d, p, cash, amount, a, i, at)
    PROVE  Balanced'
<1>1. /\ debts[d] = NoDebt /\ UNCHANGED <<shares, payments>>
      /\ debts' = [debts EXCEPT ![d] = DebtRow(p, cash.direction, cash.origin, i, amount)]
    BY DEF LendOrBorrow
<1>2. amount \in Amounts /\ amount \in Int
    BY LoansAssumption, AmountType DEF LoansAssumption
<1>3. PICK m \in BookKinds : /\ m.kind = cash.kind /\ m.effect = cash.effect
                             /\ BookMove(i, a, amount, at, m)
    BY LoanIsMove
<1>4. /\ tx[i] = NoRow /\ Counts(i)' /\ \A j \in Ids \ {i} : tx'[j] = tx[j]
      /\ tx'[i].kind = cash.kind /\ tx'[i].effect = cash.effect /\ tx'[i].amount = amount
    <2> HIDE DEF Times
    <2> QED
        BY <1>2, <1>3, MoveTells DEF BooksInv
<1>5. CarriedOf'[i] = IF cash.effect = "INFLOW" THEN amount ELSE -amount
    <2>1. cash.kind \in Principal
        BY DEF CashOrigins, Principal
    <2> QED
        BY <1>4, <2>1 DEF CarriedOf, Signed
<1>6. /\ debts'[d].origin = cash.origin /\ debts'[d].direction = cash.direction
      /\ debts'[d].amount = amount /\ debts'[d].status = "OPEN"
      /\ \A x \in DebtIds \ {d} : debts'[x] = debts[x] /\ Paid(x)' = Paid(x)
    <2>1. PICK row : row = DebtRow(p, cash.direction, cash.origin, i, amount)
        OBVIOUS
    <2>2. /\ row.origin = cash.origin /\ row.direction = cash.direction
          /\ row.amount = amount /\ row.status = "OPEN"
        BY <2>1 DEF DebtRow
    <2>3. debts'[d] = row /\ \A x \in DebtIds \ {d} : debts'[x] = debts[x]
        BY <1>1, <2>1 DEF BooksInv, BookInv, STypeOK
    <2> QED
        BY <1>1, <2>2, <2>3, PaidUnchanged
<1>7. debts'[d] # NoDebt
    BY <1>6 DEF NoDebt
<1>8. Paid(d)' = 0
    <2>1. Paid(d) = 0
        BY <1>1, PaidNothing DEF BooksInv, Linked
    <2> QED
        BY <1>1, <2>1, PaidUnchanged
<1>9. AccountedFor(d)' = amount
    BY <1>6 DEF AccountedFor, CashOrigins
<1>10. DueOf[d] = 0 /\ DueOf'[d] = IF cash.direction = "RECEIVABLE" THEN amount ELSE -amount
    BY <1>1, <1>2, <1>6, <1>7, <1>8, <1>9 DEF DueOf, Towards
<1>11. cash.effect = IF cash.direction = "RECEIVABLE" THEN "OUTFLOW" ELSE "INFLOW"
    BY DEF CashOrigins
<1>12. \A j \in Ids : Counts(j) => tx'[j] = tx[j]
    BY <1>4 DEF Counts, NoRow
<1>13. /\ Sum(DueOf, Recorded)' = Sum(DueOf, Recorded) + DueOf'[d] - DueOf[d]
       /\ Sum(DueOf, Recorded) \in Int
    BY <1>1, <1>6, <1>7, <1>12, DebtWritten
<1>14. /\ Sum(CarriedOf, Ids)' = Sum(CarriedOf, Ids) + CarriedOf'[i]
       /\ Sum(CarriedOf, Ids) \in Int
    BY <1>1, <1>4, RowWritten
<1> QED
    BY <1>2, <1>5, <1>10, <1>11, <1>13, <1>14 DEF Balanced

\* A repayment carries what the debt is due the less.
LEMMA RepaymentBalances ==
    ASSUME BooksInv, BooksInv', Balanced, NEW d \in DebtIds, NEW amount \in Amounts,
           NEW a \in Accounts, NEW i \in Ids, NEW at \in Times, Repay(d, amount, a, i, at)
    PROVE  Balanced'
<1>1. /\ shares' = shares
      /\ payments' = payments \cup {[debt |-> d, movement |-> i, amount |-> amount]}
      /\ debts[d].status \in {"OPEN", "PARTIALLY_PAID"}
    BY DEF Repay, AcceptsPayment
<1>2. debts[d] # NoDebt /\ debts[d] \in Debt
    BY <1>1 DEF NoDebt, BooksInv, BookInv, STypeOK
<1>3. PICK m \in BookKinds :
         /\ m.kind \in {"DEBT_REPAYMENT_IN", "DEBT_REPAYMENT_OUT"}
         /\ m.effect = IF debts[d].direction = "RECEIVABLE" THEN "INFLOW" ELSE "OUTFLOW"
         /\ BookMove(i, a, amount, at, m)
    BY RepaymentIsMove
<1>4. /\ tx[i] = NoRow /\ Counts(i)' /\ \A j \in Ids \ {i} : tx'[j] = tx[j]
      /\ tx'[i].kind = m.kind /\ tx'[i].effect = m.effect /\ tx'[i].amount = amount
    <2> HIDE DEF Times
    <2> QED
        BY <1>3, MoveTells DEF BooksInv
<1>5. amount \in Int
    BY AmountType
<1>6. CarriedOf'[i] = IF debts[d].direction = "RECEIVABLE" THEN amount ELSE -amount
    <2>1. m.kind \in Principal
        BY <1>3 DEF Principal
    <2> QED
        BY <1>3, <1>4, <2>1 DEF CarriedOf, Signed
<1>7. ~Counts(i) /\ \A j \in Ids : Counts(j) => tx'[j] = tx[j]
    BY <1>4 DEF Counts, NoRow
<1>8. Paid(d)' = Paid(d) + amount /\ \A x : x # d => Paid(x)' = Paid(x)
    BY <1>1, <1>7, PaidMore DEF BooksInv
<1>9. /\ debts'[d].origin = debts[d].origin /\ debts'[d].direction = debts[d].direction
      /\ debts'[d].originTx = debts[d].originTx /\ debts'[d].amount = debts[d].amount
      /\ debts'[d] \in Debt /\ debts'[d] # NoDebt
      /\ \A x \in DebtIds \ {d} : debts'[x] = debts[x]
    <2>1. /\ debts' = [debts EXCEPT
                         ![d].status  = StatusFor(debts[d].amount, Paid(d) + amount),
                         ![d].version = @ + 1]
        BY DEF Repay
    <2>2. PICK n, st : n = debts[d].version + 1
                       /\ st = StatusFor(debts[d].amount, Paid(d) + amount)
        OBVIOUS
    <2>3. st \in {"OPEN", "PARTIALLY_PAID", "SETTLED"}
        BY <2>2 DEF StatusFor
    <2>4. /\ debts'[d] = [debts[d] EXCEPT !.status = st, !.version = n]
          /\ \A x \in DebtIds \ {d} : debts'[x] = debts[x]
        BY <2>1, <2>2 DEF BooksInv, BookInv, STypeOK
    <2>5. debts'[d] # NoDebt
        BY <1>2, <2>3, <2>4 DEF Debt, NoDebt
    <2>6. debts'[d] \in Debt
        BY <2>5 DEF BooksInv, BookInv, STypeOK
    <2> QED
        BY <1>2, <2>4, <2>5, <2>6 DEF Debt
<1>10. AccountedFor(d)' = AccountedFor(d)
    <2>1. Claimed(d)' <=> Claimed(d)
        BY <1>1 DEF Claimed
    <2>2. Claimed(d) => tx'[debts[d].originTx].status = tx[debts[d].originTx].status
        BY <1>7, ClaimIsOfExpense
    <2> QED
        BY <1>2, <1>9, <2>1, <2>2, AccountedTells, AccountedTellsNext
<1>11. AccountedFor(d) \in Int /\ Paid(d) \in Int
    BY <1>2, DebtType DEF BooksInv, BookInv
<1>12. /\ DueOf[d] \in Int
       /\ DueOf'[d] = IF debts[d].direction = "RECEIVABLE" THEN DueOf[d] - amount
                                                           ELSE DueOf[d] + amount
    BY <1>2, <1>5, <1>8, <1>9, <1>10, <1>11 DEF DueOf, Towards
<1>13. /\ Sum(DueOf, Recorded)' = Sum(DueOf, Recorded) + DueOf'[d] - DueOf[d]
       /\ Sum(DueOf, Recorded) \in Int
    BY <1>1, <1>7, <1>8, <1>9, DebtWritten
<1>14. /\ Sum(CarriedOf, Ids)' = Sum(CarriedOf, Ids) + CarriedOf'[i]
       /\ Sum(CarriedOf, Ids) \in Int
    BY <1>1, <1>4, RowWritten
<1> QED
    BY <1>5, <1>6, <1>12, <1>13, <1>14 DEF Balanced

\* A cancelled debt is due what it was: its worth is written off, not its explanation.
LEMMA CancelBalances ==
    ASSUME BooksInv, BooksInv', Balanced, NEW d \in DebtIds, NEW v \in Revisions,
           CancelDebt(d, v)
    PROVE  Balanced'
<1>1. /\ debts[d] # NoDebt /\ UNCHANGED <<tx, shares, payments>>
      /\ debts' = [debts EXCEPT ![d].status = "CANCELLED", ![d].cancelledAt = TRUE,
                                ![d].version = v + 1]
    BY DEF CancelDebt
<1>2. debts[d] \in Debt
    BY <1>1 DEF BooksInv, BookInv, STypeOK
<1>3. /\ debts'[d] = [debts[d] EXCEPT !.status = "CANCELLED", !.cancelledAt = TRUE,
                                      !.version = v + 1]
      /\ \A x \in DebtIds \ {d} : debts'[x] = debts[x]
    BY <1>1 DEF BooksInv, BookInv, STypeOK
<1>4. /\ debts'[d].origin = debts[d].origin /\ debts'[d].direction = debts[d].direction
      /\ debts'[d].originTx = debts[d].originTx /\ debts'[d].amount = debts[d].amount
      /\ debts'[d] # NoDebt
    BY <1>2, <1>3 DEF Debt, NoDebt
<1>5. STypeOK /\ STypeOK' /\ TypeOK /\ KindsTellEffects
    BY DEF BooksInv, BookInv, Grounded
<1>6. \A x \in DebtIds : Paid(x)' = Paid(x)
    BY <1>1, PaidUnchanged
<1>7. Claimed(d)' <=> Claimed(d)
    BY <1>1 DEF Claimed
<1>8. DueOf'[d] = DueOf[d] /\ DueOf[d] \in Int
    BY <1>1, <1>4, <1>5, <1>6, <1>7, DueStays, BooksAreInt DEF DuesAreInt
<1>9. /\ Sum(DueOf, Recorded)' = Sum(DueOf, Recorded) + DueOf'[d] - DueOf[d]
      /\ Sum(DueOf, Recorded) \in Int
    BY <1>1, <1>3, <1>4, <1>6, DebtWritten
<1>10. Sum(CarriedOf, Ids)' = Sum(CarriedOf, Ids)
    <2>1. TakenOff' = TakenOff
        BY <1>1, <1>5, TakenOffStays
    <2>2. \A j \in Ids : CarriedOf'[j] = CarriedOf[j]
        BY <1>1, <1>5, <2>1, CarriedStays DEF Counts
    <2> QED
        BY <2>2, CarriedKept
<1> QED
    BY <1>8, <1>9, <1>10 DEF Balanced

-----------------------------------------------------------------------------
(* Nothing is left over: shares *)

\* What each share takes off the spending of an expense.
TakenOf(e) == [s \in Shares |-> IF s \in ActiveShares(e) THEN shares[s].amount ELSE 0]

TakenAreSums ==
    \A e \in Ids : /\ \A s \in Shares : TakenOf(e)[s] \in Int
                   /\ TakenOff[e] = Sum(TakenOf(e), Shares)

LEMMA TakenSums == STypeOK => TakenAreSums
<1> SUFFICES ASSUME STypeOK, NEW e \in Ids
             PROVE  /\ \A s \in Shares : TakenOf(e)[s] \in Int
                    /\ TakenOff[e] = Sum(TakenOf(e), Shares)
    BY DEF TakenAreSums
<1>1. PICK S, v, w : S = ActiveShares(e) /\ v = ShareAmounts /\ w = TakenOf(e)
    OBVIOUS
<1>2. /\ IsFiniteSet(S) /\ \A s \in S : v[s] \in Int
      /\ ActiveShareTotal(e) = Sum(v, S)
    BY <1>1, SharesAreSummed DEF SharesAreSums
<1>3. S \in SUBSET Shares /\ IsFiniteSet(Shares)
    BY <1>1, SharesAssumption DEF ActiveShares, SharesAssumption
<1>4. (\A s \in S : w[s] = v[s]) /\ \A s \in Shares \ S : w[s] = 0
    BY <1>1, <1>3 DEF TakenOf, ShareAmounts
<1>5. \A s \in Shares : w[s] \in Int
    BY <1>2, <1>4
<1>6. Sum(w, Shares) = Sum(w, S)
    BY <1>3, <1>4, <1>5, SumZeros
<1>7. Sum(w, S) = Sum(v, S)
    BY <1>2, <1>4, SumAgree
<1> QED
    BY <1>1, <1>2, <1>5, <1>6, <1>7 DEF TakenOff

LEMMA TakenSumsNext == STypeOK' => TakenAreSums'
BY TakenSums, PTL

\* The claim of a share of an expense that is not reversed is due what the share takes
\* off the spending, less what was paid of it.
ClaimsTell ==
    \A s \in Shares : \A e \in Ids : \A d \in DebtIds :
        /\ shares[s] # NoShare /\ shares[s].expense = e /\ shares[s].debt = d
        /\ tx[e].status = "POSTED"
        => DueOf[d] = TakenOf(e)[s] - Paid(d) /\ Paid(d) \in Int

LEMMA ClaimsAreTold == BooksInv => ClaimsTell
<1> SUFFICES ASSUME BooksInv, NEW s \in Shares, NEW e \in Ids, NEW d \in DebtIds,
                    shares[s] # NoShare, shares[s].expense = e, shares[s].debt = d,
                    tx[e].status = "POSTED"
             PROVE  DueOf[d] = TakenOf(e)[s] - Paid(d) /\ Paid(d) \in Int
    BY DEF ClaimsTell
<1>1. /\ shares[s] \in Share /\ debts[d] # NoDebt
      /\ debts[d].origin = "SHARED_EXPENSE" /\ debts[d].direction = "RECEIVABLE"
      /\ debts[d].originTx = e /\ debts[d].amount = shares[s].amount
    BY DEF BooksInv, BookInv, STypeOK, ClaimsExist, SharesMatchClaims, ClaimMatchesShare
<1>2. debts[d] \in Debt
    BY <1>1 DEF BooksInv, BookInv, STypeOK
<1>3. AccountedFor(d) \in Int /\ Paid(d) \in Int
    BY <1>1, DebtType DEF BooksInv, BookInv
<1>4. Claimed(d) <=> shares[s].status = "ACTIVE"
    <2>1. \A q \in Shares : shares[q].status = "ACTIVE" /\ shares[q].debt = d => q = s
        BY DEF BooksInv, BookInv, SharesMatchClaims, NoShare
    <2> QED
        BY <2>1 DEF Claimed
<1>5. AccountedFor(d) = TakenOf(e)[s]
    BY <1>1, <1>2, <1>4, AccountedTells DEF TakenOf, ActiveShares
<1> QED
    BY <1>1, <1>3, <1>5 DEF DueOf, Towards

LEMMA ClaimsAreToldNext == BooksInv' => ClaimsTell'
BY ClaimsAreTold, PTL

LEMMA ShareBalances ==
    ASSUME BooksInv, BooksInv', Balanced, UNCHANGED <<tx, payments>>,
           NEW s \in Shares, NEW e \in Ids, NEW d \in DebtIds, RequireExpense(e),
           \/ shares[s] = NoShare /\ debts[d] = NoDebt
           \/ shares[s] # NoShare /\ shares[s].expense = e /\ shares[s].debt = d,
           shares'[s] # NoShare, shares'[s].expense = e, shares'[s].debt = d,
           debts'[d] # NoDebt,
           \A q \in Shares \ {s} : shares'[q] = shares[q],
           \A x \in DebtIds \ {d} : debts'[x] = debts[x]
    PROVE  Balanced'
<1>1. STypeOK /\ STypeOK' /\ TypeOK /\ KindsTellEffects
    BY DEF BooksInv, BookInv, Grounded
<1>2. TakenAreSums /\ TakenAreSums'
    BY <1>1, TakenSums, TakenSumsNext
\* The share, and what it takes off.
<1>3. /\ \A q \in Shares \ {s} : TakenOf(e)'[q] = TakenOf(e)[q]
      /\ \A x \in Ids \ {e} : \A q \in Shares : TakenOf(x)'[q] = TakenOf(x)[q]
    <2>1. \A x : \A q \in Shares \ {s} : q \in ActiveShares(x)' <=> q \in ActiveShares(x)
        BY DEF ActiveShares
    <2>2. \A x \in Ids \ {e} : s \notin ActiveShares(x) /\ s \notin ActiveShares(x)'
        BY DEF ActiveShares, NoShare
    <2> QED
        BY <2>1, <2>2 DEF TakenOf
<1>4. PICK was, is : was = TakenOf(e)[s] /\ is = TakenOf(e)'[s]
    OBVIOUS
<1>5. was \in Int /\ is \in Int
    BY <1>2, <1>4 DEF TakenAreSums
<1>6. /\ TakenOff'[e] = TakenOff[e] + is - was /\ TakenOff[e] \in Int
      /\ \A x \in Ids \ {e} : TakenOff'[x] = TakenOff[x]
    <2>1. ASSUME NEW x \in Ids
          PROVE  /\ TakenOff[x] \in Int
                 /\ TakenOff'[x] = IF x = e THEN TakenOff[x] + is - was ELSE TakenOff[x]
        <3>1. PICK v, w : v = TakenOf(x)' /\ w = TakenOf(x)
            OBVIOUS
        <3>2. /\ \A q \in Shares : v[q] \in Int /\ w[q] \in Int
              /\ TakenOff[x] = Sum(w, Shares) /\ TakenOff'[x] = Sum(v, Shares)
            BY <1>2, <3>1 DEF TakenAreSums
        <3>3. \A q \in Shares \ {s} : v[q] = w[q]
            BY <1>3, <3>1
        <3>4. Sum(v, Shares) = Sum(w, Shares) + v[s] - w[s] /\ Sum(w, Shares) \in Int
            BY <3>2, <3>3, SharesAssumption, SumShifts DEF SharesAssumption
        <3>5. x # e => v[s] = w[s]
            BY <1>3, <3>1
        <3>6. x = e => v[s] = is /\ w[s] = was
            BY <1>4, <3>1
        <3> QED
            BY <1>5, <3>2, <3>4, <3>5, <3>6
    <2> QED
        BY <2>1
\* What the movements carry.
<1>7. /\ tx[e].status = "POSTED" /\ tx[e].kind = "EXPENSE" /\ Counts(e)
    BY DEF RequireExpense, Counts
<1>8. ASSUME NEW j \in Ids \ {e}
      PROVE  CarriedOf'[j] = CarriedOf[j]
    BY <1>1, <1>6, <1>7, CarriedStays DEF Counts
<1>9. CarriedOf[e] = -TakenOff[e] /\ CarriedOf'[e] = -TakenOff'[e]
    BY <1>7 DEF CarriedOf, Principal, Counts
<1>10. Sum(CarriedOf, Ids)' = Sum(CarriedOf, Ids) - is + was /\ Sum(CarriedOf, Ids) \in Int
    <2>1. /\ Sum(CarriedOf, Ids)' = Sum(CarriedOf, Ids) + CarriedOf'[e] - CarriedOf[e]
          /\ Sum(CarriedOf, Ids) \in Int
        BY <1>8, CarriedShifts
    <2> QED
        BY <1>5, <1>6, <1>9, <2>1
\* What the debts are due.
<1>11. DueOf'[d] = is - Paid(d)' /\ Paid(d)' = Paid(d) /\ Paid(d) \in Int
    <2>1. Paid(d)' = Paid(d)
        BY PaidUnchanged
    <2>2. DueOf'[d] = TakenOf(e)'[s] - Paid(d)' /\ Paid(d)' \in Int
        BY <1>7, ClaimsAreToldNext DEF ClaimsTell
    <2> QED
        BY <1>4, <2>1, <2>2
<1>12. DueOf[d] = was - Paid(d)
    <2>1. CASE shares[s] # NoShare
        BY <1>4, <1>7, <2>1, ClaimsAreTold DEF ClaimsTell
    <2>2. CASE shares[s] = NoShare
        <3>1. was = 0
            BY <1>4, <2>2 DEF TakenOf, ActiveShares, NoShare
        <3>2. Paid(d) = 0
            BY <2>2, PaidNothing DEF BooksInv, Linked
        <3>3. DueOf[d] = 0
            BY <2>2 DEF DueOf
        <3> QED
            BY <3>1, <3>2, <3>3
    <2> QED
        BY <2>1, <2>2
<1>13. ASSUME NEW x \in Recorded \ {d}
       PROVE  DueOf'[x] = DueOf[x]
    <2>1. x \in DebtIds /\ debts[x] # NoDebt /\ debts'[x] = debts[x]
        BY DEF Recorded
    <2>2. Paid(x)' = Paid(x)
        BY PaidUnchanged
    <2>3. \A q \in Shares : /\ shares'[q].status = "ACTIVE" /\ shares'[q].debt = x
                            <=> shares[q].status = "ACTIVE" /\ shares[q].debt = x
        BY DEF NoShare
    <2>4. Claimed(x)' <=> Claimed(x)
        BY <2>3 DEF Claimed
    <2> QED
        BY <1>1, <2>1, <2>2, <2>4, DueStays
<1>14. /\ Sum(DueOf, Recorded)' = Sum(DueOf, Recorded) + DueOf'[d] - DueOf[d]
       /\ Sum(DueOf, Recorded) \in Int
    BY <1>13, DueShifts
<1> QED
    BY <1>5, <1>10, <1>11, <1>12, <1>14 DEF Balanced

\* What an update of a share writes, whatever copy it was computed from.
LEMMA UpdateWrites ==
    ASSUME BookInv, NEW s \in Shares, shares[s] # NoShare,
           NEW row \in Share, row.expense = shares[s].expense, row.debt = shares[s].debt,
           NEW v \in Revisions, UpdateShare(s, row, v)
    PROVE  \E e \in Ids, d \in DebtIds :
              /\ RequireExpense(e) /\ UNCHANGED <<tx, payments>>
              /\ shares[s].expense = e /\ shares[s].debt = d
              /\ shares'[s] # NoShare /\ shares'[s].expense = e /\ shares'[s].debt = d
              /\ debts[d] # NoDebt /\ debts'[d] # NoDebt
              /\ \A q \in Shares \ {s} : shares'[q] = shares[q]
              /\ \A x \in DebtIds \ {d} : debts'[x] = debts[x]
<1>1. PICK e \in Ids, d \in DebtIds : e = row.expense /\ d = row.debt
    BY DEF Share
<1>2. /\ shares[s] \in Share /\ debts[d] \in Debt /\ debts[d] # NoDebt
    BY <1>1 DEF BookInv, STypeOK, ClaimsExist
<1> SUFFICES /\ RequireExpense(e) /\ UNCHANGED <<tx, payments>>
             /\ shares'[s] # NoShare /\ shares'[s].expense = e /\ shares'[s].debt = d
             /\ debts'[d] # NoDebt
             /\ \A q \in Shares \ {s} : shares'[q] = shares[q]
             /\ \A x \in DebtIds \ {d} : debts'[x] = debts[x]
    BY <1>1, <1>2
<1>3. CASE CancelShare(s, e, d, row, v)
    <2>1. /\ RequireExpense(e) /\ UNCHANGED <<tx, payments>>
          /\ shares'[s] = [shares[s] EXCEPT !.status = "CANCELLED", !.version = v + 1]
          /\ debts'[d] = [debts[d] EXCEPT !.status = "CANCELLED", !.cancelledAt = TRUE,
                                          !.version = @ + 1]
          /\ \A q \in Shares \ {s} : shares'[q] = shares[q]
          /\ \A x \in DebtIds \ {d} : debts'[x] = debts[x]
        BY <1>3 DEF CancelShare, BookInv, STypeOK
    <2> QED
        BY <1>1, <1>2, <2>1 DEF Share, Debt, NoShare, NoDebt
<1>4. ASSUME NEW amount \in Amounts, AdjustShare(s, e, d, row, v, amount)
      PROVE  /\ RequireExpense(e) /\ UNCHANGED <<tx, payments>>
             /\ shares'[s] # NoShare /\ shares'[s].expense = e /\ shares'[s].debt = d
             /\ debts'[d] # NoDebt
             /\ \A q \in Shares \ {s} : shares'[q] = shares[q]
             /\ \A x \in DebtIds \ {d} : debts'[x] = debts[x]
    <2>1. PICK st, n : st = StatusFor(amount, Paid(d))
                       /\ n = IF amount = row.amount THEN shares[s].amount ELSE amount
        OBVIOUS
    <2>2. st # "NONE"
        BY <2>1 DEF StatusFor
    <2>3. /\ RequireExpense(e) /\ UNCHANGED <<tx, payments>>
          /\ shares'[s] = [shares[s] EXCEPT !.amount = n, !.version = v + 1]
          /\ debts'[d] = [debts[d] EXCEPT !.amount = amount, !.status = st, !.version = @ + 1]
          /\ \A q \in Shares \ {s} : shares'[q] = shares[q]
          /\ \A x \in DebtIds \ {d} : debts'[x] = debts[x]
        BY <1>2, <1>4, <2>1 DEF AdjustShare, BookInv, STypeOK
    <2> QED
        BY <1>1, <1>2, <2>2, <2>3 DEF Share, Debt, NoShare, NoDebt
<1> QED
    BY <1>1, <1>3, <1>4 DEF UpdateShare

LEMMA CreateWrites ==
    ASSUME BookInv, NEW s \in Shares, NEW d \in DebtIds, NEW e \in Ids, NEW p \in People,
           NEW amount \in Amounts, CreateShare(s, d, e, p, amount)
    PROVE  /\ RequireExpense(e) /\ UNCHANGED <<tx, payments>>
           /\ shares[s] = NoShare /\ debts[d] = NoDebt
           /\ shares'[s] # NoShare /\ shares'[s].expense = e /\ shares'[s].debt = d
           /\ debts'[d] # NoDebt
           /\ \A q \in Shares \ {s} : shares'[q] = shares[q]
           /\ \A x \in DebtIds \ {d} : debts'[x] = debts[x]
<1>1. PICK debt, share :
         /\ debt = DebtRow(p, "RECEIVABLE", "SHARED_EXPENSE", e, amount)
         /\ share = [status |-> "ACTIVE", expense |-> e, person |-> p, debt |-> d,
                     amount |-> amount, version |-> 1]
    OBVIOUS
<1>2. /\ RequireExpense(e) /\ UNCHANGED <<tx, payments>>
      /\ shares[s] = NoShare /\ debts[d] = NoDebt
      /\ shares'[s] = share /\ debts'[d] = debt
      /\ \A q \in Shares \ {s} : shares'[q] = shares[q]
      /\ \A x \in DebtIds \ {d} : debts'[x] = debts[x]
    BY <1>1 DEF CreateShare, BookInv, STypeOK
<1>3. debt.status = "OPEN" /\ share.status = "ACTIVE" /\ share.expense = e /\ share.debt = d
    BY <1>1 DEF DebtRow
<1> QED
    BY <1>2, <1>3 DEF NoShare, NoDebt

\* The copy that the followed client holds names the share and its expense and debt.
LEMMA FinishWrites ==
    ASSUME BookInv, NEW v \in Revisions, FinishUpdate(v)
    PROVE  \E s \in Shares : \E row \in Share :
              /\ shares[s] # NoShare /\ row.expense = shares[s].expense
              /\ row.debt = shares[s].debt /\ UpdateShare(s, row, v)
BY DEF FinishUpdate, BookInv, STypeOK, CopyNamesTheShare

-----------------------------------------------------------------------------
(* Nothing is left over: every step *)

ShareWrite ==
    \E s \in Shares, e \in Ids, d \in DebtIds :
        /\ RequireExpense(e) /\ UNCHANGED <<tx, payments>>
        /\ \/ shares[s] = NoShare /\ debts[d] = NoDebt
           \/ /\ shares[s] # NoShare /\ shares[s].expense = e /\ shares[s].debt = d
              /\ debts[d] # NoDebt
        /\ shares'[s] # NoShare /\ shares'[s].expense = e /\ shares'[s].debt = d
        /\ debts'[d] # NoDebt
        /\ \A q \in Shares \ {s} : shares'[q] = shares[q]
        /\ \A x \in DebtIds \ {d} : debts'[x] = debts[x]

LEMMA ShareNextWrites ==
    ASSUME BookInv, ShareNext
    PROVE  ShareWrite \/ UNCHANGED <<tx, payments, shares, debts>>
<1>1. ASSUME NEW s \in Shares, shares[s] # NoShare, NEW row \in Share,
             row.expense = shares[s].expense, row.debt = shares[s].debt, NEW v \in Revisions,
             UpdateShare(s, row, v)
      PROVE  ShareWrite
    <2> HIDE DEF Revisions
    <2> QED
        BY <1>1, UpdateWrites DEF ShareWrite
<1>2. ASSUME NEW s \in Shares, NEW d \in DebtIds, NEW e \in Ids, NEW p \in People,
             NEW amount \in Amounts, CreateShare(s, d, e, p, amount)
      PROVE  ShareWrite
    BY <1>2, CreateWrites DEF ShareWrite
<1>3. ASSUME NEW v \in Revisions, FinishUpdate(v)
      PROVE  ShareWrite
    <2> HIDE DEF Revisions
    <2> QED
        BY <1>1, <1>3, FinishWrites
<1>4. ASSUME NEW s \in Shares, NEW v \in Revisions, UpdateShareAtOnce(s, v)
      PROVE  ShareWrite
    <2>1. shares[s] \in Share /\ shares[s] # NoShare /\ UpdateShare(s, shares[s], v)
        BY <1>4 DEF UpdateShareAtOnce, BookInv, STypeOK
    <2> HIDE DEF Revisions
    <2> QED
        BY <1>1, <2>1
<1>5. ASSUME (\E s \in Shares : ReadShare(s)) \/ AbandonUpdate
      PROVE  UNCHANGED <<tx, payments, shares, debts>>
    BY <1>5 DEF ReadShare, AbandonUpdate, book
<1> QED
    BY <1>2, <1>3, <1>4, <1>5 DEF ShareNext

LEMMA BalancedStep ==
    ASSUME BooksInv, BooksInv', Balanced, [SNext]_svars
    PROVE  Balanced'
<1>1. ASSUME UNCHANGED <<tx, payments, shares, debts>>
      PROVE  Balanced'
    BY <1>1, NothingMoves DEF Counts
<1>2. CASE LedgerNext
    BY <1>2, LedgerBalances
<1>3. CASE PeopleNext \/ UNCHANGED svars
    BY <1>1, <1>3 DEF PeopleNext, CreatePerson, UpdatePerson, svars
<1>4. CASE DebtNext
    <2> HIDE DEF Times, Revisions, Directions
    <2> QED
        BY <1>4, ExistingBalances, LoanBalances, RepaymentBalances, CancelBalances DEF DebtNext
<1>5. CASE ShareNext
    <2>1. ASSUME ShareWrite
          PROVE  Balanced'
        BY <2>1, ShareBalances DEF ShareWrite
    <2> QED
        BY <1>1, <1>5, <2>1, ShareNextWrites DEF BooksInv
<1>6. CASE RefundNext
    <2> HIDE DEF Times
    <2> QED
        BY <1>6, RefundBalances DEF RefundNext
<1> QED
    BY <1>2, <1>3, <1>4, <1>5, <1>6 DEF SNext

-----------------------------------------------------------------------------
(* Payments and shares keep naming what they are of *)

KindsStay == \A i \in Ids : Counts(i) => tx'[i].kind = tx[i].kind

LEMMA KindsDoStay ==
    ASSUME TypeOK, [SNext]_svars
    PROVE  KindsStay
<1>1. CASE UNCHANGED <<now, acct, tx>>
    BY <1>1 DEF KindsStay
<1>2. CASE LedgerNext
    <2> SUFFICES ASSUME NEW i \in Ids, Counts(i)
                 PROVE  tx'[i].kind = tx[i].kind
        BY DEF KindsStay
    <2>1. RowMoves(i) /\ tx[i] \in Row
        BY <1>2, CountedRow, RowStep DEF LedgerNext
    <2> QED
        BY <2>1 DEF RowMoves, Row
<1>3. ASSUME NEW i \in Ids, NEW a \in Accounts, NEW amount \in Amounts, NEW at \in Times,
             NEW m \in BookKinds, BookMove(i, a, amount, at, m)
      PROVE  KindsStay
    <2>1. tx[i] = NoRow /\ \A j \in Ids \ {i} : tx'[j] = tx[j]
        <3> HIDE DEF Times
        <3> QED
            BY <1>3, MoveTells
    <2> QED
        BY <2>1 DEF KindsStay, Counts, NoRow
<1> QED
    BY <1>1, <1>2, <1>3, LedgerOrBook DEF BookMoves

\* At most the debt d is written, payments are made of it, and shares of expenses.
LinkWrites(d) ==
    /\ debts[d] # NoDebt => debts'[d] # NoDebt
    /\ \A x \in DebtIds \ {d} : debts'[x] = debts[x]
    /\ \A p \in payments' : \/ p \in payments
                            \/ p.debt \in DebtIds /\ debts'[p.debt] # NoDebt
    /\ \A s \in Shares : shares'[s] # NoShare =>
          \/ shares[s] # NoShare /\ shares'[s].expense = shares[s].expense
          \/ tx'[shares'[s].expense].kind = "EXPENSE"

LEMMA LinkedKept ==
    ASSUME BooksInv, KindsStay, NEW d, LinkWrites(d)
    PROVE  Linked'
<1> USE DEF LinkWrites
<1>1. IsFiniteSet(Recorded')
    <2>1. Recorded' \in SUBSET (Recorded \cup {d})
        BY DEF Recorded
    <2>2. IsFiniteSet(Recorded \cup {d})
        BY FS_AddElement DEF BooksInv, Linked
    <2> QED
        BY <2>1, <2>2, FS_Subset
<1>2. \A p \in payments' : p.debt \in DebtIds /\ debts'[p.debt] # NoDebt
    BY DEF BooksInv, Linked
<1>3. ASSUME NEW s \in Shares, shares'[s] # NoShare
      PROVE  tx'[shares'[s].expense].kind = "EXPENSE"
    <2>1. CASE shares[s] # NoShare /\ shares'[s].expense = shares[s].expense
        <3>1. PICK e : e = shares[s].expense
            OBVIOUS
        <3>2. e \in Ids /\ Counts(e) /\ tx[e].kind = "EXPENSE"
            BY <2>1, <3>1 DEF BooksInv, BookInv, STypeOK, Share, RecoveryInv, Linked
        <3> QED
            BY <2>1, <3>1, <3>2 DEF KindsStay
    <2> QED
        BY <1>3, <2>1
<1> QED
    BY <1>1, <1>2, <1>3 DEF Linked

LEMMA LinkedStep ==
    ASSUME BooksInv, [SNext]_svars
    PROVE  Linked'
<1>1. KindsStay
    BY KindsDoStay DEF BooksInv
<1>2. ASSUME UNCHANGED <<debts, shares, payments>>
      PROVE  Linked'
    <2>1. \A d : LinkWrites(d)
        BY <1>2 DEF LinkWrites
    <2> QED
        BY <1>1, <2>1, LinkedKept
<1>3. CASE LedgerNext \/ PeopleNext \/ RefundNext \/ UNCHANGED svars
    <2>1. CASE LedgerNext \/ UNCHANGED svars
        BY <1>2, <2>1 DEF LedgerNext, book, svars
    <2>2. CASE PeopleNext
        BY <1>2, <2>2 DEF PeopleNext, CreatePerson, UpdatePerson
    <2>3. CASE RefundNext
        <3>1. ASSUME NEW e, NEW amount, NEW a, NEW i, NEW at, Refund(e, amount, a, i, at)
              PROVE  UNCHANGED <<debts, shares, payments>>
            BY <3>1 DEF Refund
        <3> HIDE DEF Times
        <3> QED
            BY <1>2, <2>3, <3>1 DEF RefundNext
    <2> QED
        BY <1>3, <2>1, <2>2, <2>3
<1>4. CASE ShareNext
    <2>1. ASSUME ShareWrite
          PROVE  Linked'
        <3>1. PICK s \in Shares, e \in Ids, d \in DebtIds :
                 /\ RequireExpense(e) /\ UNCHANGED <<tx, payments>>
                 /\ shares'[s].expense = e /\ debts'[d] # NoDebt
                 /\ \A q \in Shares \ {s} : shares'[q] = shares[q]
                 /\ \A x \in DebtIds \ {d} : debts'[x] = debts[x]
            BY <2>1 DEF ShareWrite
        <3>2. LinkWrites(d)
            BY <3>1 DEF LinkWrites, RequireExpense
        <3> QED
            BY <1>1, <3>2, LinkedKept
    <2> QED
        BY <1>2, <1>4, <2>1, ShareNextWrites DEF BooksInv
<1>5. CASE DebtNext
    <2>1. ASSUME NEW d \in DebtIds, shares' = shares, debts'[d] # NoDebt,
                 \A x \in DebtIds \ {d} : debts'[x] = debts[x],
                 \A p \in payments' : p \in payments \/ p.debt = d
          PROVE  Linked'
        <3>1. LinkWrites(d)
            BY <2>1 DEF LinkWrites
        <3> QED
            BY <1>1, <3>1, LinkedKept
    <2>2. ASSUME NEW d \in DebtIds, NEW row, row.status # "NONE", debts' = [debts EXCEPT ![d] = row]
          PROVE  debts'[d] # NoDebt /\ \A x \in DebtIds \ {d} : debts'[x] = debts[x]
        BY <2>2 DEF BooksInv, BookInv, STypeOK, NoDebt
    <2>3. ASSUME NEW d \in DebtIds, NEW p \in People, NEW direction \in Directions,
                 NEW amount \in Loans, RecordExisting(d, p, direction, amount)
          PROVE  Linked'
        <3>1. PICK row : row = DebtRow(p, direction, "EXISTING", NoId, amount)
            OBVIOUS
        <3>2. row.status # "NONE" /\ debts' = [debts EXCEPT ![d] = row]
              /\ UNCHANGED <<shares, payments>>
            BY <2>3, <3>1 DEF RecordExisting, DebtRow
        <3> QED
            BY <2>1, <2>2, <3>2
    <2>4. ASSUME NEW d \in DebtIds, NEW p \in People, NEW cash \in CashOrigins,
                 NEW amount \in Loans, NEW a \in Accounts, NEW i \in Ids, NEW at \in Times,
                 LendOrBorrow(d, p, cash, amount, a, i, at)
          PROVE  Linked'
        <3>1. PICK row : row = DebtRow(p, cash.direction, cash.origin, i, amount)
            OBVIOUS
        <3>2. row.status # "NONE" /\ debts' = [debts EXCEPT ![d] = row]
              /\ UNCHANGED <<shares, payments>>
            BY <2>4, <3>1 DEF LendOrBorrow, DebtRow
        <3> QED
            BY <2>1, <2>2, <3>2
    <2>5. ASSUME NEW d \in DebtIds, NEW amount \in Amounts, NEW a \in Accounts, NEW i \in Ids,
                 NEW at \in Times, Repay(d, amount, a, i, at)
          PROVE  Linked'
        <3>1. PICK st, n : st = StatusFor(debts[d].amount, Paid(d) + amount)
                           /\ n = debts[d].version + 1
            OBVIOUS
        <3>2. st # "NONE" /\ debts[d] \in Debt
            BY <2>5, <3>1 DEF StatusFor, Repay, AcceptsPayment, BooksInv, BookInv, STypeOK,
                              NoDebt
        <3>3. PICK row : row = [debts[d] EXCEPT !.status = st, !.version = n]
            OBVIOUS
        <3>4. row.status # "NONE"
            BY <3>2, <3>3 DEF Debt
        <3>5. debts' = [debts EXCEPT ![d] = row] /\ shares' = shares
              /\ payments' = payments \cup {[debt |-> d, movement |-> i, amount |-> amount]}
            BY <2>5, <3>1, <3>3 DEF Repay
        <3>6. \A p \in payments' : p \in payments \/ p.debt = d
            BY <3>5
        <3> QED
            BY <2>1, <2>2, <3>4, <3>5, <3>6
    <2>6. ASSUME NEW d \in DebtIds, NEW v \in Revisions, CancelDebt(d, v)
          PROVE  Linked'
        <3>1. PICK row : row = [debts[d] EXCEPT !.status = "CANCELLED", !.cancelledAt = TRUE,
                                                !.version = v + 1]
            OBVIOUS
        <3>2. debts[d] \in Debt
            BY <2>6 DEF CancelDebt, BooksInv, BookInv, STypeOK
        <3>3. row.status # "NONE"
            BY <3>1, <3>2 DEF Debt
        <3>4. debts' = [debts EXCEPT ![d] = row] /\ UNCHANGED <<shares, payments>>
            BY <2>6, <3>1 DEF CancelDebt
        <3> QED
            BY <2>1, <2>2, <3>3, <3>4
    <2> QED
        BY <1>5, <2>3, <2>4, <2>5, <2>6 DEF DebtNext
<1> QED
    BY <1>3, <1>4, <1>5 DEF SNext

-----------------------------------------------------------------------------
(* The position, explained *)

LEMMA LinkedInit ==
    ASSUME SInit
    PROVE  Linked /\ Recorded = {}
<1>1. debts = [d \in DebtIds |-> NoDebt] /\ shares = [s \in Shares |-> NoShare] /\ payments = {}
    BY DEF SInit
<1>2. Recorded = {}
    BY <1>1 DEF Recorded
<1> QED
    BY <1>1, <1>2, FS_EmptySet DEF Linked

LEMMA BalancedInit ==
    ASSUME SInit, BooksInv
    PROVE  Balanced
<1>1. \A e \in Ids : TakenOff[e] = 0
    <2> SUFFICES ASSUME NEW e \in Ids
                 PROVE  ActiveShareTotal(e) = 0
        BY DEF TakenOff
    <2>1. ActiveShares(e) = {}
        BY DEF SInit, ActiveShares, NoShare
    <2> QED
        BY <2>1, NothingTaken DEF BooksInv, BookInv
<1>2. \A i \in Ids : Counts(i) => tx[i].kind = "EXPENSE"
    BY DEF SInit, PostedExpense, Counts, NoRow
<1>3. \A i \in Ids : CarriedOf[i] = 0
    BY <1>1, <1>2 DEF CarriedOf, Principal
<1>4. PICK v, w : v = CarriedOf /\ w = DueOf
    OBVIOUS
<1>5. Sum(v, Ids) = 0
    BY <1>3, <1>4, FiniteAssumption, SumOfZeros DEF FiniteAssumption
<1>6. Sum(w, {}) = 0
    BY FS_EmptySet, SumOfZeros
<1> QED
    BY <1>4, <1>5, <1>6, LinkedInit DEF Balanced

\* The accounts and the debts together are the openings, the income, the spending and
\* the debts that no movement explains: whatever was lent, repaid, shared, refunded,
\* cancelled and reversed, the net position of the dashboard is explained.
THEOREM PositionExplained == SSpec => []NetPositionExplained
<1>1. BooksInv /\ Balanced => NetPositionExplained
    BY BalancedExplains DEF BooksInv, BookInv, Linked
<1>2. SInit => BooksInv /\ Balanced
    <2>1. SInit => BooksInv
        BY LedgerTypedInit, BookInit, DebtInvInit, RecoveryInit, GroundedInit, LinkedInit
        DEF BooksInv, BookInv
    <2> QED
        BY <2>1, BalancedInit
<1>3. BooksInv /\ Balanced /\ [SNext]_svars => (BooksInv /\ Balanced)'
    <2>1. BooksInv /\ [SNext]_svars => BooksInv'
        BY LedgerKept, BookStep, DebtsTellStep, RecoveryStep, GroundedStep, LinkedStep
        DEF BooksInv
    <2> QED
        BY <2>1, BalancedStep
<1> QED
    BY <1>1, <1>2, <1>3, PTL DEF SSpec

=============================================================================
