--------------------- MODULE FinancialOperationsProofs ---------------------
(***************************************************************************)
(* Proofs about FinancialOperations: a preview that still has the current  *)
(* versions is current, a commit does what its preview announced, is one   *)
(* step of the bank and is accepted by the database's triggers, transfers  *)
(* stay paired and the periods of the dashboard add up, for every set of   *)
(* accounts, identifiers and commands.                                     *)
(***************************************************************************)
EXTENDS FinancialOperations, LedgerProofs

USE DEF Times, Versions, CoreKinds, Kinds, Effects, RequireVersion, RequireDraft,
        RequireReversible, FinancialFieldsMutable

-----------------------------------------------------------------------------
(* What commands are *)

LEMMA CommandFields ==
    ASSUME NEW c \in Commands
    PROVE  /\ c.at \in Times
           /\ Participants(c) \subseteq Accounts
           /\ c.op \in {"TRANSFER", "RECONCILE", "REALLOCATE"}
           /\ c.op = "TRANSFER" =>
                 /\ c.source \in Accounts /\ c.destination \in Accounts
                 /\ c.fee = NoFee \/ c.fee.account \in Accounts
           /\ c.op = "RECONCILE" => c.account \in Accounts
           /\ c.op = "REALLOCATE" => /\ c.accounts \in SUBSET Accounts
                                     /\ c.balancing \in c.accounts
<1>1. CASE c \in TransferCommands
    BY <1>1 DEF TransferCommands, Participants, WithFee, NoFee
<1>2. CASE c \in ReconciliationCommands
    BY <1>2 DEF ReconciliationCommands, Participants
<1>3. CASE c \in ReallocationCommands
    <2>1. PICK S \in SUBSET Accounts :
             c \in [op : {"REALLOCATE"}, accounts : {S}, balancing : S,
                    requested : UNION {[R -> Targets] : R \in SUBSET S}, at : Times]
        BY <1>3 DEF ReallocationCommands
    <2> QED
        BY <2>1 DEF Participants
<1> QED
    BY <1>1, <1>2, <1>3 DEF Commands

-----------------------------------------------------------------------------
(* What the writes of a commit return *)

\* What a commit does to the ledger: it fills empty rows with posted movements of
\* the accounts S, which are open, and bumps those accounts.
Writes(S) ==
    /\ S \in SUBSET Accounts /\ \A a \in S : Exists(a)
    /\ Bump(S)
    /\ tx' \in [Ids -> Row \cup {NoRow}]
    /\ \A i \in Ids : tx[i] # NoRow => tx'[i] = tx[i]
    /\ \A i \in Ids : tx'[i] # tx[i] => tx'[i].account \in S /\ tx'[i].status = "POSTED"

LEMMA InsertEffect ==
    ASSUME TypeOK, NEW rows, Insert(rows),
           \A i \in DOMAIN rows : i \in Ids /\ (rows[i].amount \in Amounts => rows[i] \in Row)
    PROVE  /\ tx' \in [Ids -> Row \cup {NoRow}]
           /\ \A i \in DOMAIN rows : tx[i] = NoRow /\ tx'[i] = rows[i] /\ tx'[i] \in Row
           /\ \A i \in Ids \ DOMAIN rows : tx'[i] = tx[i]
BY DEF TypeOK, Insert

LEMMA InsertWrites ==
    ASSUME TypeOK, NEW rows, Insert(rows),
           \A i \in DOMAIN rows : i \in Ids /\ (rows[i].amount \in Amounts => rows[i] \in Row),
           NEW S \in SUBSET Accounts, \A a \in S : Exists(a), Bump(S),
           \A i \in DOMAIN rows : rows[i].account \in S /\ rows[i].status = "POSTED"
    PROVE  Writes(S)
BY InsertEffect DEF Writes

LEMMA MovementType ==
    ASSUME BoundsAssumption, NEW kind \in Kinds, NEW effect \in Effects, NEW a \in Accounts,
           NEW amount, NEW at \in Times
    PROVE  /\ Movement(kind, effect, a, amount, at).amount \in Amounts
                => Movement(kind, effect, a, amount, at) \in Row
           /\ Movement(kind, effect, a, amount, at).status = "POSTED"
           /\ Movement(kind, effect, a, amount, at).kind = kind
           /\ Movement(kind, effect, a, amount, at).effect = effect
           /\ Movement(kind, effect, a, amount, at).account = a
           /\ Movement(kind, effect, a, amount, at).amount = amount
           /\ Movement(kind, effect, a, amount, at).at = at
BY DEF Movement, Row, BoundsAssumption

-----------------------------------------------------------------------------
(* The quote *)

\* A preview in progress is of a command it may be of, and the rows it holds are
\* those of the command's accounts.
QuoteTyped ==
    quote # NoQuote =>
        /\ quote.phase \in {"READING", "QUOTED"}
        /\ quote.command \in Requests
        /\ WellFormed(quote.command)
        /\ quote.rows \in [Participants(quote.command) -> Account]
        /\ \A a \in Participants(quote.command) : Exists(a)

Inv == TypeOK /\ QuoteTyped /\ QuoteIsCurrent

\* A commit changes the rows, the accounts and the groups, and ends the preview.
LEMMA CommitWrites ==
    ASSUME Inv, Commit
    PROVE  /\ quote' = NoQuote /\ now' = now
           /\ \E S : Writes(S)
<1> USE BoundsAssumption, IdsAssumption
<1> DEFINE c == quote.command
<1>1. quote # NoQuote /\ c \in Commands
    BY TargetsAssumption DEF Commit, Reevaluated, NoQuote, Inv, QuoteTyped, TargetsAssumption
<1>2. \A a \in Participants(c) : a \in Accounts /\ Exists(a)
    BY <1>1, CommandFields DEF Commit, Reevaluated, AccountsAccept, Exists
<1>3. ASSUME NEW s \in Ids, NEW d \in Ids, NEW f \in Ids \cup {NoId}, WriteTransfer(s, d, f)
      PROVE  quote' = NoQuote /\ now' = now /\ \E S : Writes(S)
    <2> DEFINE rows == [i \in {s, d, f} \ {NoId} |->
              CASE i = s -> Movement("TRANSFER_OUT", "OUTFLOW", c.source, c.amount, c.at)
                [] i = d -> Movement("TRANSFER_IN", "INFLOW", c.destination, c.amount, c.at)
                [] i = f -> Movement("TRANSFER_FEE", "OUTFLOW", c.fee.account,
                                     c.fee.amount, c.at)]
    <2>1. c.op = "TRANSFER" /\ (f # NoId => c.fee.account \in Accounts)
        BY <1>1, <1>3, CommandFields DEF WriteTransfer, WithFee
    <2>2. c.source \in Accounts /\ c.destination \in Accounts /\ c.at \in Times
        BY <1>1, <2>1, CommandFields
    <2>3. \A i \in DOMAIN rows : i \in Ids /\ (rows[i].amount \in Amounts => rows[i] \in Row)
        BY <2>1, <2>2, MovementType
    <2>4. \A i \in DOMAIN rows : rows[i].account \in Participants(c) /\ rows[i].status = "POSTED"
        <3>1. {c.source, c.destination} \subseteq Participants(c)
              /\ (f # NoId => c.fee.account \in Participants(c))
            BY <1>3, <2>1 DEF Participants, WriteTransfer
        <3> QED
            BY <2>1, <2>2, <3>1, MovementType
    <2>5. Participants(c) \in SUBSET Accounts /\ Bump(Participants(c)) /\ Insert(rows)
        BY <1>2, <1>3 DEF WriteTransfer
    <2>6. Writes(Participants(c))
        <3> HIDE DEF rows, c
        <3> QED
            BY <1>2, <2>3, <2>4, <2>5, InsertWrites DEF Inv
    <2> QED
        BY <1>3, <2>6 DEF WriteTransfer
<1>4. ASSUME NEW i \in Ids, WriteReconciliation(i)
      PROVE  quote' = NoQuote /\ now' = now /\ \E S : Writes(S)
    <2>1. c.op = "RECONCILE" /\ c.account \in Accounts /\ c.at \in Times
        BY <1>1, <1>4, CommandFields DEF WriteReconciliation
    <2>2. {c.account} \in SUBSET Accounts /\ \A a \in {c.account} : Exists(a)
        BY <1>2, <2>1 DEF Participants
    <2> DEFINE delta == c.actual - quote.balances[c.account]
               row == IF delta > 0
                      THEN Movement("RECONCILIATION_ADJUSTMENT", "INFLOW", c.account, delta, c.at)
                      ELSE Movement("RECONCILIATION_ADJUSTMENT", "OUTFLOW", c.account, -delta, c.at)
    <2>3. /\ row.amount \in Amounts => row \in Row
          /\ row.account = c.account /\ row.status = "POSTED"
        <3> HIDE DEF delta
        <3> QED
            BY <2>1, MovementType
    <2>4. Insert([j \in {i} |-> row]) /\ Bump({c.account})
        BY <1>4 DEF WriteReconciliation
    <2>5. Writes({c.account})
        <3> HIDE DEF row, c
        <3> QED
            BY <2>2, <2>3, <2>4, InsertWrites DEF Inv
    <2> QED
        BY <1>4, <2>5 DEF WriteReconciliation
<1>5. ASSUME WriteReallocation
      PROVE  quote' = NoQuote /\ now' = now /\ \E S : Writes(S)
    <2> DEFINE from(a) == IF Gain(a) > 0 THEN c.balancing ELSE a
               to(a)   == IF Gain(a) > 0 THEN a ELSE c.balancing
               size(a) == IF Gain(a) > 0 THEN Gain(a) ELSE -Gain(a)
    <2>1. /\ c.op = "REALLOCATE" /\ c.at \in Times
          /\ c.accounts \in SUBSET Accounts /\ c.balancing \in c.accounts
        BY <1>1, <1>5, CommandFields DEF WriteReallocation
    <2>2. Changed \subseteq c.accounts /\ \A a \in Changed : from(a) \in Accounts /\ to(a) \in Accounts
        BY <2>1 DEF Changed
    <2>3. /\ Bump(Changed \cup {c.balancing}) /\ Changed \cup {c.balancing} \in SUBSET Accounts
          /\ \A a \in Changed \cup {c.balancing} : Exists(a)
        BY <1>2, <1>5, <2>1, <2>2 DEF WriteReallocation, Participants
    <2> DEFINE owner(out, into, i) == CHOOSE a \in Changed : i \in {out[a], into[a]}
               row(out, into, i) ==
                   IF i = out[owner(out, into, i)]
                   THEN Movement("TRANSFER_OUT", "OUTFLOW", from(owner(out, into, i)),
                                 size(owner(out, into, i)), c.at)
                   ELSE Movement("TRANSFER_IN", "INFLOW", to(owner(out, into, i)),
                                 size(owner(out, into, i)), c.at)
    <2>4. PICK out, into \in [Changed -> Ids] :
             Insert([i \in Range(out) \cup Range(into) |-> row(out, into, i)])
        BY <1>5 DEF WriteReallocation
    <2>5. \A i \in Range(out) \cup Range(into) :
             i \in Ids /\ owner(out, into, i) \in Changed
        BY DEF Range
    <2>6. \A i \in Range(out) \cup Range(into) :
             /\ row(out, into, i).amount \in Amounts => row(out, into, i) \in Row
             /\ row(out, into, i).account \in Changed \cup {c.balancing}
             /\ row(out, into, i).status = "POSTED"
        <3>1. \A a \in Changed : /\ from(a) \in Changed \cup {c.balancing}
                                 /\ to(a) \in Changed \cup {c.balancing}
            OBVIOUS
        <3> HIDE DEF owner, from, to, size
        <3> QED
            BY <2>1, <2>2, <2>5, <3>1, MovementType
    <2>7. Writes(Changed \cup {c.balancing})
        <3> HIDE DEF row, c
        <3> QED
            BY <2>3, <2>4, <2>5, <2>6, InsertWrites DEF Inv
    <2> QED
        BY <1>5, <2>7 DEF WriteReallocation
<1> QED
    BY <1>3, <1>4, <1>5 DEF Commit

LEMMA CommitTyped ==
    ASSUME Inv, Commit
    PROVE  TypeOK' /\ quote' = NoQuote
<1>1. PICK S : Writes(S)
    BY CommitWrites
<1>2. acct' \in [Accounts -> Account \cup {NoAccount}]
    BY <1>1, BumpType, BoundsAssumption DEF Writes, Inv
<1> QED
    BY <1>1, <1>2, CommitWrites DEF Writes, TypeOK, Inv

-----------------------------------------------------------------------------
(* A preview is current for as long as its versions are *)

LEMMA PreviewStep ==
    ASSUME Inv, NEW command \in Requests, StartPreview(command)
    PROVE  QuoteTyped' /\ QuoteIsCurrent'
<1>1. command \in Commands
    BY TargetsAssumption DEF TargetsAssumption
<1>2. Participants(command) \subseteq Accounts
    BY <1>1, CommandFields
<1>3. \A a \in Participants(command) : Exists(a) /\ acct[a] \in Account
    BY <1>2 DEF StartPreview, AccountsAccept, Exists, NoAccount, TypeOK, Inv
<1>4. /\ quote'.phase = "READING" /\ quote'.command = command
      /\ quote'.rows = Restrict(acct, Participants(command))
      /\ quote'.basis = [a \in Participants(command) |-> Movements(a)]
    BY DEF StartPreview
<1>5. Restrict(acct, Participants(command)) = [a \in Participants(command) |-> acct[a]]
    BY DEF Restrict
<1>6. UNCHANGED <<acct, tx>> /\ \A a \in Accounts : Movements(a)' = Movements(a)
    BY DEF StartPreview, Movements, Counts
<1>7. \A a \in Participants(command) : acct[a].version \in Int
    BY <1>3, BoundsAssumption DEF Account, BoundsAssumption
<1>8. QuoteTyped'
    BY <1>3, <1>4, <1>5, <1>6 DEF QuoteTyped, StartPreview, Exists
<1>9. QuoteIsCurrent'
    BY <1>2, <1>4, <1>5, <1>6, <1>7 DEF QuoteIsCurrent
<1> QED
    BY <1>8, <1>9

LEMMA QuoteStep ==
    ASSUME Inv, [FNext]_fvars
    PROVE  Inv'
<1>1. ASSUME [Next]_vars, UNCHANGED quote
      PROVE  Inv'
    <2>1. TypeOK'
        BY <1>1, TypeStep DEF Inv
    <2>2. CASE quote = NoQuote
        BY <1>1, <2>1, <2>2 DEF Inv, QuoteTyped, QuoteIsCurrent, NoQuote
    <2>3. CASE quote # NoQuote
        <3> DEFINE P == Participants(quote.command)
        <3>1. P \subseteq Accounts /\ quote.rows \in [P -> Account] /\ \A a \in P : Exists(a)
            BY <2>3, CommandFields, TargetsAssumption DEF Inv, QuoteTyped, TargetsAssumption
        <3>2. \A a \in P : AccountMoves(a)
            BY <1>1, <3>1, AccountStep DEF Inv
        <3>3. \A a \in P : acct[a].version \in Int /\ quote.rows[a].version \in Int
            BY <3>1, BoundsAssumption
            DEF Inv, TypeOK, Exists, NoAccount, Account, BoundsAssumption
        <3>4. QuoteTyped'
            BY <1>1, <3>1, <3>2 DEF Inv, QuoteTyped, AccountMoves
        <3>5. QuoteIsCurrent'
            <4> SUFFICES ASSUME NEW a \in P
                         PROVE  /\ quote.rows[a].version <= acct'[a].version
                                /\ quote.rows[a].version = acct'[a].version =>
                                      /\ quote.rows[a] = acct'[a]
                                      /\ quote.basis[a] = Movements(a)'
                BY <1>1, <3>1 DEF QuoteIsCurrent
            <4>1. /\ quote.rows[a].version <= acct[a].version
                  /\ quote.rows[a].version = acct[a].version =>
                        /\ quote.rows[a] = acct[a]
                        /\ quote.basis[a] = Movements(a)
                BY <2>3, <3>1 DEF Inv, QuoteIsCurrent
            <4>2. CASE acct'[a] = acct[a] /\ Movements(a)' = Movements(a)
                BY <4>1, <4>2
            <4>3. CASE acct'[a].version = acct[a].version + 1
                BY <3>3, <4>1, <4>3
            <4> QED
                BY <3>2, <4>2, <4>3 DEF AccountMoves
        <3> QED
            BY <2>1, <3>4, <3>5 DEF Inv
    <2> QED
        BY <2>2, <2>3
<1>2. ASSUME NEW command \in Requests, StartPreview(command)
      PROVE  Inv'
    BY <1>2, PreviewStep DEF Inv, StartPreview, TypeOK
<1>3. CASE FinishPreview
    <2>1. UNCHANGED <<now, acct, tx>> /\ \A a \in Accounts : Movements(a)' = Movements(a)
        BY <1>3 DEF FinishPreview, Movements, Counts
    <2>2. CASE quote' = NoQuote
        BY <2>1, <2>2 DEF Inv, TypeOK, QuoteTyped, QuoteIsCurrent
    <2>3. CASE quote' # NoQuote
        <3>1. /\ quote'.phase = "QUOTED" /\ quote'.command = quote.command
              /\ quote'.rows = quote.rows /\ quote'.basis = quote.basis
            BY <1>3, <2>3 DEF FinishPreview
        <3>2. quote # NoQuote
            BY <1>3 DEF FinishPreview, NoQuote
        <3>3. DOMAIN quote.rows \subseteq Accounts
            BY <3>2, CommandFields, TargetsAssumption DEF Inv, QuoteTyped, TargetsAssumption
        <3> QED
            BY <2>1, <3>1, <3>2, <3>3 DEF Inv, TypeOK, QuoteTyped, QuoteIsCurrent, Exists
    <2> QED
        BY <2>2, <2>3
<1>4. CASE AbandonPreview
    BY <1>4 DEF AbandonPreview, Inv, TypeOK, QuoteTyped, QuoteIsCurrent
<1>5. CASE Commit
    BY <1>5, CommitTyped DEF Inv, QuoteTyped, QuoteIsCurrent
<1>6. CASE UNCHANGED fvars
    BY <1>1, <1>6 DEF fvars, vars
<1> QED
    BY <1>1, <1>2, <1>3, <1>4, <1>5, <1>6 DEF FNext

LEMMA InvInit ==
    ASSUME FInit
    PROVE  Inv
<1> SUFFICES TypeOK
    BY DEF FInit, Inv, QuoteTyped, QuoteIsCurrent
<1>1. 0 \in Times /\ 1 \in Versions /\ 0 \in 0 .. MaxNow
    BY BoundsAssumption DEF BoundsAssumption
<1>2. acct \in [Accounts -> Account]
    <2> DEFINE Fresh == [status : {"ACTIVE"}, opening : Openings,
                          allowNegative : BOOLEAN, openedAt : {0}, version : {1}]
    <2>1. Fresh \subseteq Account
        BY <1>1 DEF Account
    <2>2. acct \in [Accounts -> Fresh]
        BY DEF FInit
    <2> HIDE DEF Fresh
    <2> QED
        BY <2>1, <2>2
<1> QED
    BY <1>1, <1>2 DEF FInit, TypeOK

\* A preview whose versions are the current ones describes the ledger as it is:
\* a commit that finds the versions it was shown writes what was shown.
THEOREM PreviewsCurrent == FSpec => []QuoteIsCurrent
<1>1. Inv => QuoteIsCurrent
    BY DEF Inv
<1> QED
    BY <1>1, InvInit, QuoteStep, PTL DEF FSpec

\* Rows and previews stay well formed through commits of several rows.
THEOREM OperationsTyped == FSpec => []FTypeOK
<1>1. Inv => FTypeOK
    BY DEF Inv, QuoteTyped, FTypeOK
<1> QED
    BY <1>1, InvInit, QuoteStep, PTL DEF FSpec

-----------------------------------------------------------------------------
(* The ledger's own promises survive the commits *)

\* A commit raises the version of every account it moves.
THEOREM VersionsCoverCommits == FSpec => AccountVersionCovers
<1> DEFINE Covers(a) ==
      Exists(a) =>
          /\ acct'[a] # acct[a] \/ Movements(a)' # Movements(a)
                => acct'[a].version = acct[a].version + 1
          /\ Movements(a) # {} => acct'[a].opening = acct[a].opening
<1>1. Inv /\ [FNext]_fvars => [\A a \in Accounts : Covers(a)]_vars
    <2> SUFFICES ASSUME Inv, [FNext]_fvars, ~UNCHANGED vars, NEW a \in Accounts, Exists(a)
                 PROVE  Covers(a)
        OBVIOUS
    <2>1. CASE Next
        BY <2>1, AccountStep DEF Inv, AccountMoves
    <2>2. CASE Commit
        <3>1. PICK S : Writes(S)
            BY <2>2, CommitWrites
        <3>2. acct[a] \in Account
            BY DEF Inv, TypeOK, Exists, NoAccount
        <3>3. CASE a \in S
            BY <3>1, <3>2, <3>3 DEF Writes, Bump, Account
        <3>4. CASE a \notin S
            <4>1. acct'[a] = acct[a]
                BY <3>1, <3>4 DEF Writes, Bump
            <4>2. \A i \in Ids : tx'[i] = tx[i]
                                 \/ (tx[i].status = "NONE" /\ tx'[i].account # a)
                BY <3>1, <3>4 DEF Writes, NoRow
            <4>3. Movements(a)' = Movements(a)
                BY <4>2 DEF Movements, Counts
            <4> QED
                BY <4>1, <4>3
        <3> QED
            BY <3>3, <3>4
    <2> QED
        BY <2>1, <2>2 DEF FNext, StartPreview, FinishPreview, AbandonPreview, fvars, vars
<1> QED
    BY <1>1, InvInit, QuoteStep, PTL DEF FSpec, AccountVersionCovers

\* No commit rewrites history.
THEOREM HistoryGrowsWithCommits == FSpec => HistoryIsAppendOnly
<1> DEFINE Grows(i) ==
      Counts(i) =>
          \/ tx'[i] = tx[i]
          \/ /\ tx[i].status = "POSTED"
             /\ tx'[i] = [tx[i] EXCEPT !.status = "REVERSED", !.version = @ + 1]
<1>1. Inv /\ [FNext]_fvars => [\A i \in Ids : Grows(i)]_vars
    <2> SUFFICES ASSUME Inv, [FNext]_fvars, ~UNCHANGED vars, NEW i \in Ids, Counts(i)
                 PROVE  Grows(i)
        OBVIOUS
    <2>1. tx[i] # NoRow
        BY DEF Counts, NoRow
    <2>2. CASE Next
        BY <2>1, <2>2, RowStep DEF RowMoves, Inv
    <2>3. CASE Commit
        BY <2>1, <2>3, CommitWrites DEF Writes
    <2> QED
        BY <2>2, <2>3 DEF FNext, StartPreview, FinishPreview, AbandonPreview, fvars, vars
<1> QED
    BY <1>1, InvInit, QuoteStep, PTL DEF FSpec, HistoryIsAppendOnly

-----------------------------------------------------------------------------
(* What a commit does to the balances *)

LEMMA InsertAdds ==
    ASSUME TypeOK, NEW rows, Insert(rows), DOMAIN rows \subseteq Ids,
           \A i \in DOMAIN rows : rows[i].status = "POSTED"
    PROVE  /\ Adds(DOMAIN rows)
           /\ \A i \in DOMAIN rows : tx'[i] = rows[i] /\ rows[i].amount \in Amounts
BY DEF Insert, Adds, Counts, NoRow, TypeOK

\* The effects of posted movements on the balances at a time they have reached.
LEMMA MovementWeight ==
    ASSUME NEW i \in Ids, NEW kind, NEW effect, NEW b, NEW amount, NEW at, NEW t,
           at <= t, tx'[i] = Movement(kind, effect, b, amount, at), NEW a
    PROVE  Weight(a, t)'[i] =
              IF a = b THEN (IF effect = "INFLOW" THEN amount ELSE -amount) ELSE 0
<1>1. /\ tx'[i].status = "POSTED" /\ tx'[i].effect = effect /\ tx'[i].account = b
      /\ tx'[i].amount = amount /\ tx'[i].at = at
    BY DEF Movement
<1>2. Counts(i)' /\ Signed(tx[i])' = IF effect = "INFLOW" THEN amount ELSE -amount
    BY <1>1 DEF Counts, Signed
<1> QED
    BY <1>1, <1>2 DEF Weight

LEMMA TransferMoves ==
    ASSUME Inv, TypeOK', AccountsKept, NEW s \in Ids, NEW d \in Ids, NEW f \in Ids \cup {NoId},
           WriteTransfer(s, d, f), quote.command \in Commands,
           NEW a \in Accounts, Exists(a), NEW t, quote.command.at <= t
    PROVE  /\ TransferDelta(quote.command, a) \in Int
           /\ BalanceAt(a, t)' = BalanceAt(a, t) + TransferDelta(quote.command, a)
           /\ a \in Participants(quote.command) => Movements(a)' # {}
           /\ a \notin Participants(quote.command) => Movements(a)' = Movements(a)
<1> DEFINE c == quote.command
           rows == [i \in {s, d, f} \ {NoId} |->
              CASE i = s -> Movement("TRANSFER_OUT", "OUTFLOW", c.source, c.amount, c.at)
                [] i = d -> Movement("TRANSFER_IN", "INFLOW", c.destination, c.amount, c.at)
                [] i = f -> Movement("TRANSFER_FEE", "OUTFLOW", c.fee.account,
                                     c.fee.amount, c.at)]
           N == {s, d, f} \ {NoId}
<1>1. /\ c.op = "TRANSFER" /\ s # d /\ f \notin {s, d} /\ (WithFee(c) <=> f # NoId)
      /\ Insert(rows)
    BY DEF WriteTransfer
<1>2. s # NoId /\ d # NoId
    BY IdsAssumption DEF IdsAssumption
<1>3. /\ rows[s] = Movement("TRANSFER_OUT", "OUTFLOW", c.source, c.amount, c.at)
      /\ rows[d] = Movement("TRANSFER_IN", "INFLOW", c.destination, c.amount, c.at)
      /\ f # NoId => rows[f] = Movement("TRANSFER_FEE", "OUTFLOW", c.fee.account,
                                        c.fee.amount, c.at)
      /\ DOMAIN rows = N /\ N \subseteq Ids
    BY <1>1, <1>2
<1> HIDE DEF rows
<1>4. \A i \in N : rows[i].status = "POSTED"
    BY <1>3 DEF Movement
<1>5. Adds(N) /\ \A i \in N : tx'[i] = rows[i] /\ rows[i].amount \in Amounts
    BY <1>1, <1>3, <1>4, InsertAdds DEF Inv
<1>6. c.amount \in Int /\ (f # NoId => c.fee.amount \in Int)
    <2>1. rows[s].amount = c.amount /\ (f # NoId => rows[f].amount = c.fee.amount)
        BY <1>3 DEF Movement
    <2>2. \A x \in Amounts : x \in Int
        BY AmountsAssumption DEF AmountsAssumption
    <2> QED
        BY <1>2, <1>5, <2>1, <2>2
<1>7. IsFiniteSet(N)
    BY <1>3, FiniteAssumption, FS_Subset DEF FiniteAssumption
<1> DEFINE w == Weight(a, t)'
<1>8. /\ w[s] = (IF a = c.source THEN -c.amount ELSE 0)
      /\ w[d] = (IF a = c.destination THEN c.amount ELSE 0)
      /\ f # NoId => w[f] = (IF a = c.fee.account THEN -c.fee.amount ELSE 0)
    BY <1>2, <1>3, <1>5, MovementWeight
<1> HIDE DEF w
<1>9. /\ TransferDelta(c, a) \in Int /\ Sum(w, N) = TransferDelta(c, a)
    <2>0. w[s] \in Int /\ w[d] \in Int /\ (f # NoId => w[f] \in Int)
        BY <1>6, <1>8
    <2>1. CASE f = NoId
        <3>1. N = {s, d} /\ ~WithFee(c)
            BY <1>1, <1>2, <2>1
        <3>2. Sum(w, {s, d}) = w[s] + w[d]
            BY <1>1, <2>0, SumOfTwo
        <3> HIDE DEF N, c
        <3> QED
            BY <1>6, <1>8, <3>1, <3>2 DEF TransferDelta
    <2>2. CASE f # NoId
        <3>1. N \ {f} = {s, d} /\ f \in N /\ WithFee(c) /\ \A i \in N : w[i] \in Int
            BY <1>1, <1>2, <2>0, <2>2
        <3>2. Sum(w, N \ {f}) = w[s] + w[d]
            BY <1>1, <2>0, <3>1, SumOfTwo
        <3> HIDE DEF N, c
        <3>3. Sum(w, N) = Sum(w, N \ {f}) + w[f]
            BY <1>7, <3>1, SumBasics
        <3> QED
            BY <1>6, <1>8, <2>0, <2>2, <3>1, <3>2, <3>3 DEF TransferDelta
    <2> QED
        BY <2>1, <2>2
<1>10. /\ BalanceAt(a, t) \in Int
      /\ BalanceAt(a, t)' = BalanceAt(a, t) + (acct'[a].opening - acct[a].opening) + Sum(w, N)
      /\ acct'[a].opening = acct[a].opening /\ acct[a].opening \in Int
    <2>1. Exists(a)' /\ acct'[a].opening = acct[a].opening
        BY DEF AccountsKept
    <2> QED
        BY <1>5, <2>1, BalanceMoves, BalanceType, OpeningType DEF Inv, w
<1>11. BalanceAt(a, t)' = BalanceAt(a, t) + TransferDelta(c, a)
    BY <1>9, <1>10
<1>12. Movements(a)' = Movements(a) \cup {i \in N : tx'[i].account = a}
    BY <1>5, AddedMovements
<1>13. /\ tx'[s].account = c.source /\ tx'[d].account = c.destination
       /\ f # NoId => tx'[f].account = c.fee.account
    BY <1>2, <1>3, <1>5 DEF Movement
<1>14. Participants(c) = {c.source, c.destination} \cup (IF f # NoId THEN {c.fee.account} ELSE {})
    BY <1>1 DEF Participants
<1> QED
    BY <1>2, <1>9, <1>11, <1>12, <1>13, <1>14

LEMMA ReconciliationMoves ==
    ASSUME Inv, TypeOK', AccountsKept, NEW i \in Ids, WriteReconciliation(i),
           quote.command \in Commands, quote.balances[quote.command.account] \in Int,
           NEW a \in Accounts, Exists(a), NEW t, quote.command.at <= t
    PROVE  /\ BalanceAt(a, t)' = BalanceAt(a, t) +
                (IF a = quote.command.account
                 THEN quote.command.actual - quote.balances[quote.command.account] ELSE 0)
           /\ Movements(a)' = Movements(a) \cup (IF a = quote.command.account THEN {i} ELSE {})
<1> DEFINE c == quote.command
           delta == c.actual - quote.balances[c.account]
           row == IF delta > 0
                  THEN Movement("RECONCILIATION_ADJUSTMENT", "INFLOW", c.account, delta, c.at)
                  ELSE Movement("RECONCILIATION_ADJUSTMENT", "OUTFLOW", c.account, -delta, c.at)
           rows == [j \in {i} |-> row]
<1>1. c.op = "RECONCILE" /\ Insert(rows)
    BY DEF WriteReconciliation
<1>2. c.actual \in Int /\ delta \in Int
    <2>1. c.actual \in Targets
        BY <1>1 DEF Commands, TransferCommands, ReconciliationCommands, ReallocationCommands
    <2>2. \A x \in Targets : x \in Int
        BY TargetsAssumption DEF TargetsAssumption
    <2> QED
        BY <2>1, <2>2
<1>3. row.status = "POSTED" /\ rows[i] = row /\ DOMAIN rows = {i}
    <2> HIDE DEF delta
    <2> QED
        BY DEF Movement
<1> HIDE DEF rows
<1>4. Adds({i}) /\ tx'[i] = row
    BY <1>1, <1>3, InsertAdds DEF Inv
<1> DEFINE w == Weight(a, t)'
<1>5. w[i] = IF a = c.account THEN delta ELSE 0
    <2>1. CASE delta > 0
        <3>1. tx'[i] = Movement("RECONCILIATION_ADJUSTMENT", "INFLOW", c.account, delta, c.at)
            BY <1>4, <2>1
        <3> QED
            BY <3>1, MovementWeight
    <2>2. CASE ~(delta > 0)
        <3>1. tx'[i] = Movement("RECONCILIATION_ADJUSTMENT", "OUTFLOW", c.account, -delta, c.at)
            BY <1>4, <2>2
        <3>2. w[i] = IF a = c.account THEN -(-delta) ELSE 0
            BY <3>1, MovementWeight
        <3> HIDE DEF w, delta
        <3> QED
            BY <1>2, <3>2
    <2> QED
        BY <2>1, <2>2
<1>6. /\ Exists(a)' /\ acct'[a].opening = acct[a].opening /\ acct[a].opening \in Int
      /\ BalanceAt(a, t) \in Int
    BY OpeningType, BalanceType DEF AccountsKept, Inv
<1>7. w[i] \in Int /\
      BalanceAt(a, t)' = BalanceAt(a, t) + (acct'[a].opening - acct[a].opening) + Sum(w, {i})
    BY <1>4, <1>6, BalanceMoves DEF Inv
<1> HIDE DEF w
<1>8. Sum(w, {i}) = w[i]
    BY <1>7, SumOfOne
<1>9. tx'[i].account = c.account
    <2> HIDE DEF delta
    <2> QED
        BY <1>4 DEF Movement
<1>10. Movements(a)' = Movements(a) \cup {j \in {i} : tx'[j].account = a}
    BY <1>4, AddedMovements
<1> HIDE DEF delta
<1> QED
    BY <1>2, <1>5, <1>6, <1>7, <1>8, <1>9, <1>10 DEF delta

\* The rows of a reallocation, two for each changed account.
PairOf(a, out, into) ==
    LET c    == quote.command
        from == IF Gain(a) > 0 THEN c.balancing ELSE a
        to   == IF Gain(a) > 0 THEN a ELSE c.balancing
        size == IF Gain(a) > 0 THEN Gain(a) ELSE -Gain(a)
    IN  /\ tx'[out] = Movement("TRANSFER_OUT", "OUTFLOW", from, size, c.at)
        /\ tx'[into] = Movement("TRANSFER_IN", "INFLOW", to, size, c.at)

LEMMA ReallocationRows ==
    ASSUME WriteReallocation
    PROVE  \E out, into \in [Changed -> Ids] :
              /\ \A a, b \in Changed : /\ out[a] = out[b] => a = b
                                       /\ into[a] = into[b] => a = b
                                       /\ out[a] # into[b]
              /\ \A a \in Changed : /\ tx[out[a]] = NoRow /\ tx[into[a]] = NoRow
                                    /\ PairOf(a, out[a], into[a])
                                    /\ tx'[out[a]].amount \in Amounts
                                    /\ tx'[into[a]].amount \in Amounts
              /\ \A i \in Ids : tx'[i] = tx[i] \/ \E a \in Changed : i \in {out[a], into[a]}
              /\ transfers' = transfers \cup
                    {[source |-> out[a], destination |-> into[a], fee |-> NoId] : a \in Changed}
<1> DEFINE c == quote.command
           from(a) == IF Gain(a) > 0 THEN c.balancing ELSE a
           to(a)   == IF Gain(a) > 0 THEN a ELSE c.balancing
           size(a) == IF Gain(a) > 0 THEN Gain(a) ELSE -Gain(a)
           owner(out, into, i) == CHOOSE a \in Changed : i \in {out[a], into[a]}
           row(out, into, i) ==
                   IF i = out[owner(out, into, i)]
                   THEN Movement("TRANSFER_OUT", "OUTFLOW", from(owner(out, into, i)),
                                 size(owner(out, into, i)), c.at)
                   ELSE Movement("TRANSFER_IN", "INFLOW", to(owner(out, into, i)),
                                 size(owner(out, into, i)), c.at)
<1>1. PICK out, into \in [Changed -> Ids] :
         /\ IsInjective(out) /\ IsInjective(into) /\ Range(out) \cap Range(into) = {}
         /\ Insert([i \in Range(out) \cup Range(into) |-> row(out, into, i)])
         /\ transfers' = transfers \cup
               {[source |-> out[a], destination |-> into[a], fee |-> NoId] : a \in Changed}
    BY DEF WriteReallocation
<1>2. \A a \in Changed : out[a] \in Range(out) /\ into[a] \in Range(into)
    BY DEF Range
<1>3. \A a, b \in Changed : /\ out[a] = out[b] => a = b
                            /\ into[a] = into[b] => a = b
                            /\ out[a] # into[b]
    BY <1>1, <1>2 DEF IsInjective
<1>4. \A a \in Changed : owner(out, into, out[a]) = a /\ owner(out, into, into[a]) = a
    BY <1>3
<1>5. \A i \in Ids : tx'[i] = tx[i] \/ \E a \in Changed : i \in {out[a], into[a]}
    <2> HIDE DEF row
    <2> QED
        BY <1>1 DEF Insert, Range
<1>6. \A a \in Changed :
         /\ tx[out[a]] = NoRow /\ tx[into[a]] = NoRow
         /\ tx'[out[a]] = row(out, into, out[a]) /\ row(out, into, out[a]).amount \in Amounts
         /\ tx'[into[a]] = row(out, into, into[a]) /\ row(out, into, into[a]).amount \in Amounts
    <2> HIDE DEF row
    <2> QED
        BY <1>1, <1>2 DEF Insert
<1>7. \A a \in Changed :
         /\ row(out, into, out[a]) = Movement("TRANSFER_OUT", "OUTFLOW", from(a), size(a), c.at)
         /\ row(out, into, into[a]) = Movement("TRANSFER_IN", "INFLOW", to(a), size(a), c.at)
    <2> HIDE DEF owner, from, to, size
    <2> QED
        BY <1>3, <1>4
<1>8. \A a \in Changed : PairOf(a, out[a], into[a])
    <2> HIDE DEF row
    <2> QED
        BY <1>6, <1>7 DEF PairOf
<1>9. \A a \in Changed : tx'[out[a]].amount \in Amounts /\ tx'[into[a]].amount \in Amounts
    BY <1>6
<1> HIDE DEF row
<1> QED
    BY <1>1, <1>3, <1>5, <1>6, <1>8, <1>9

-----------------------------------------------------------------------------
(* Transfers *)

\* TransfersPaired is not inductive alone: that no handler touches a row of a
\* transfer follows from what may be a draft and what may be reversed.
DraftsAreCore == \A i \in Ids : tx[i].status = "DRAFT" => tx[i].kind \in CoreKinds

PairInv == Inv /\ DraftsAreCore /\ transfers \subseteq Transfer /\ TransfersPaired

\* What a ledger step may do to row i as far as transfers are concerned.
KeepsTransfers(i) ==
    /\ tx[i] # NoRow /\ tx[i].kind \in TransferKinds => tx'[i] = tx[i]
    /\ tx'[i] # NoRow /\ tx'[i].kind \in TransferKinds => tx'[i] = tx[i]
    /\ tx'[i].status = "DRAFT" => tx'[i].kind \in CoreKinds

LEMMA LedgerKeepsTransfers ==
    ASSUME TypeOK, DraftsAreCore, [Next]_vars, NEW i \in Ids
    PROVE  KeepsTransfers(i)
<1> USE DEF TransferKinds, KeepsTransfers
<1>1. CASE UNCHANGED tx
    BY <1>1 DEF DraftsAreCore
<1>2. ASSUME NEW j \in Ids, NEW draft \in Drafts, CreateDraft(j, draft)
      PROVE  KeepsTransfers(i)
    BY <1>2, RequestsAssumption
    DEF CreateDraft, DraftRow, TypeOK, DraftsAreCore, RequestsAssumption, Draft
<1>3. ASSUME NEW j \in Ids, NEW v \in Versions, NEW draft \in Drafts, UpdateDraft(j, v, draft)
      PROVE  KeepsTransfers(i)
    BY <1>3, RequestsAssumption
    DEF UpdateDraft, DraftRow, TypeOK, DraftsAreCore, RequestsAssumption, Draft
<1>4. ASSUME NEW j \in Ids, NEW v \in Versions, Post(j, v)
      PROVE  KeepsTransfers(i)
    <2>1. tx[j] \in Row
        BY <1>4 DEF Post, TypeOK, NoRow
    <2> QED
        BY <1>4, <2>1 DEF Post, TypeOK, DraftsAreCore, Row
<1>5. ASSUME NEW j \in Ids, NEW v \in Versions, NEW r \in Ids, NEW at \in Times,
             Reverse(j, v, r, at)
      PROVE  KeepsTransfers(i)
    <2>1. tx[j] \in Row /\ tx[r] = NoRow /\ j # r
        BY <1>5 DEF Reverse, TypeOK, NoRow
    <2>2. /\ tx'[j].kind = tx[j].kind /\ tx'[j].status = "REVERSED"
          /\ tx'[r].kind = "REVERSAL" /\ tx'[r].status = "POSTED"
          /\ \A k \in Ids \ {j, r} : tx'[k] = tx[k]
        BY <1>5, <2>1 DEF Reverse, TypeOK, Row
    <2> QED
        BY <1>5, <2>1, <2>2 DEF Reverse, DraftsAreCore
<1> QED
    BY <1>1, <1>2, <1>3, <1>4, <1>5
    DEF Next, AccountNext, TransactionNext, Tick, CreateAccount, UpdateAccount, vars

LEMMA LedgerPaired ==
    ASSUME PairInv, [Next]_vars, UNCHANGED <<transfers, quote>>
    PROVE  DraftsAreCore' /\ TransfersPaired'
<1>1. \A i \in Ids : KeepsTransfers(i)
    BY LedgerKeepsTransfers DEF PairInv, Inv
<1>2. DraftsAreCore'
    BY <1>1 DEF KeepsTransfers, DraftsAreCore
<1>3. \A g \in transfers :
         /\ tx'[g.source] = tx[g.source] /\ tx'[g.destination] = tx[g.destination]
         /\ g.fee # NoId => tx'[g.fee] = tx[g.fee]
    BY <1>1 DEF KeepsTransfers, PairInv, TransfersPaired, Paired, Transfer, NoRow, TransferKinds
<1>4. \A g \in transfers : Paired(g)'
    BY <1>3 DEF PairInv, TransfersPaired, Paired
<1> QED
    BY <1>1, <1>2, <1>4 DEF KeepsTransfers, PairInv, TransfersPaired, Members

\* A commit adds groups of rows that did not exist.
LEMMA GroupsAdded ==
    ASSUME PairInv, NEW S, Writes(S), NEW added \in SUBSET Transfer,
           transfers' = transfers \cup added,
           \A g \in added : Paired(g)' /\ \A i \in Members(g) \cap Ids : tx[i] = NoRow,
           \A i \in Ids : tx'[i] # tx[i] /\ tx'[i].kind \in TransferKinds =>
              \E g \in added : i \in Members(g) /\ \A h \in added \ {g} : i \notin Members(h)
    PROVE  TransfersPaired'
<1>1. \A g \in transfers : \A i \in Members(g) \cap Ids : tx[i] # NoRow /\ tx'[i] = tx[i]
    <2> SUFFICES ASSUME NEW g \in transfers, NEW i \in Members(g) \cap Ids
                 PROVE  tx[i].status = "POSTED"
        BY DEF Writes, NoRow
    <2>1. Paired(g) /\ i \in {g.source, g.destination, g.fee}
        BY DEF PairInv, TransfersPaired, Members
    <2> QED
        BY <2>1, IdsAssumption DEF Paired, IdsAssumption
<1>2. \A g \in transfers : Paired(g)'
    BY <1>1 DEF PairInv, TransfersPaired, Paired, Transfer, Members
<1>3. ASSUME NEW i \in Ids, tx'[i] # NoRow, tx'[i].kind \in TransferKinds
      PROVE  \E g \in transfers' :
                i \in Members(g) /\ \A h \in transfers' \ {g} : i \notin Members(h)
    <2>1. CASE tx'[i] = tx[i]
        <3>1. PICK g \in transfers :
                 i \in Members(g) /\ \A h \in transfers \ {g} : i \notin Members(h)
            BY <1>3, <2>1 DEF PairInv, TransfersPaired
        <3> QED
            BY <1>1, <3>1
    <2>2. CASE tx'[i] # tx[i]
        <3>1. PICK g \in added : i \in Members(g) /\ \A h \in added \ {g} : i \notin Members(h)
            BY <1>3, <2>2
        <3> QED
            BY <1>1, <3>1
    <2> QED
        BY <2>1, <2>2
<1> QED
    BY <1>2, <1>3 DEF TransfersPaired

LEMMA CommitPaired ==
    ASSUME PairInv, Commit
    PROVE  transfers' \subseteq Transfer /\ TransfersPaired'
<1> USE DEF TransferKinds
<1> DEFINE c == quote.command
<1>1. c \in Commands /\ WellFormed(c)
    BY TargetsAssumption
    DEF Commit, Reevaluated, NoQuote, PairInv, Inv, QuoteTyped, TargetsAssumption
<1>2. PICK S : Writes(S)
    BY CommitWrites DEF PairInv
<1>3. ASSUME NEW s \in Ids, NEW d \in Ids, NEW f \in Ids \cup {NoId}, WriteTransfer(s, d, f)
      PROVE  transfers' \subseteq Transfer /\ TransfersPaired'
    <2> DEFINE g    == [source |-> s, destination |-> d, fee |-> f]
               rows == [i \in {s, d, f} \ {NoId} |->
              CASE i = s -> Movement("TRANSFER_OUT", "OUTFLOW", c.source, c.amount, c.at)
                [] i = d -> Movement("TRANSFER_IN", "INFLOW", c.destination, c.amount, c.at)
                [] i = f -> Movement("TRANSFER_FEE", "OUTFLOW", c.fee.account,
                                     c.fee.amount, c.at)]
    <2>1. /\ Insert(rows) /\ s # d /\ f \notin {s, d}
          /\ transfers' = transfers \cup {g} /\ c.op = "TRANSFER"
        BY <1>3 DEF WriteTransfer
    <2>2. \A i \in DOMAIN rows : tx[i] = NoRow /\ tx'[i] = rows[i]
        BY <2>1, IdsAssumption DEF Insert, IdsAssumption
    <2>3. \A i \in Ids \ DOMAIN rows : tx'[i] = tx[i]
        BY <2>1 DEF Insert
    <2>4. /\ tx'[s] = Movement("TRANSFER_OUT", "OUTFLOW", c.source, c.amount, c.at)
          /\ tx'[d] = Movement("TRANSFER_IN", "INFLOW", c.destination, c.amount, c.at)
          /\ f # NoId => tx'[f] = Movement("TRANSFER_FEE", "OUTFLOW", c.fee.account,
                                           c.fee.amount, c.at)
        BY <2>1, <2>2, IdsAssumption DEF IdsAssumption
    <2>5. DOMAIN rows = {s, d, f} \ {NoId}
        OBVIOUS
    <2>6. c.source # c.destination
        BY <1>1, <2>1 DEF WellFormed
    <2> HIDE DEF rows, c
    <2>7. Paired(g)'
        BY <2>4, <2>6, IdsAssumption DEF Paired, Movement, IdsAssumption
    <2>8. g \in Transfer /\ Members(g) = {s, d, f}
        BY DEF Transfer, Members
    <2>9. \A i \in Members(g) \cap Ids : tx[i] = NoRow
        BY <2>2, <2>5, <2>8, IdsAssumption DEF IdsAssumption
    <2>10. \A i \in Ids : tx'[i] # tx[i] => i \in Members(g)
        BY <2>3, <2>5, <2>8
    <2> HIDE DEF g, TransferKinds, Times, Versions, Kinds, CoreKinds, Effects
    <2>11. PICK added : added = {g}
        OBVIOUS
    <2>12. added \in SUBSET Transfer /\ transfers' = transfers \cup added
        BY <2>1, <2>8, <2>11
    <2>13. \A h \in added : Paired(h)' /\ \A i \in Members(h) \cap Ids : tx[i] = NoRow
        BY <2>7, <2>9, <2>11
    <2>14. \A i \in Ids : tx'[i] # tx[i] =>
              \E h \in added : i \in Members(h) /\ \A k \in added \ {h} : i \notin Members(k)
        BY <2>10, <2>11
    <2>15. TransfersPaired'
        BY <1>2, <2>12, <2>13, <2>14, GroupsAdded
    <2> QED
        BY <2>12, <2>15 DEF PairInv
<1>4. ASSUME NEW i \in Ids, WriteReconciliation(i)
      PROVE  transfers' \subseteq Transfer /\ TransfersPaired'
    <2> DEFINE delta == c.actual - quote.balances[c.account]
               row == IF delta > 0
                      THEN Movement("RECONCILIATION_ADJUSTMENT", "INFLOW", c.account, delta, c.at)
                      ELSE Movement("RECONCILIATION_ADJUSTMENT", "OUTFLOW", c.account, -delta, c.at)
    <2>1. row.kind \notin TransferKinds
        <3> HIDE DEF delta
        <3> QED
            BY DEF Movement
    <2>2. Insert([j \in {i} |-> row]) /\ transfers' = transfers
        BY <1>4 DEF WriteReconciliation
    <2>3. \A j \in Ids : tx'[j] # tx[j] => tx'[j] = row
        <3> HIDE DEF row
        <3> QED
            BY <2>2 DEF Insert
    <2> HIDE DEF row
    <2>4. \A j \in Ids : tx'[j] = tx[j] \/ tx'[j].kind \notin TransferKinds
        BY <2>1, <2>3
    <2>5. transfers' = transfers \cup {} /\ {} \in SUBSET Transfer
        BY <2>2
    <2> HIDE DEF TransferKinds
    <2>6. TransfersPaired'
        BY <1>2, <2>4, <2>5, GroupsAdded
    <2> QED
        BY <2>2, <2>6 DEF PairInv
<1>5. ASSUME WriteReallocation
      PROVE  transfers' \subseteq Transfer /\ TransfersPaired'
    <2> DEFINE from(a) == IF Gain(a) > 0 THEN c.balancing ELSE a
               to(a)   == IF Gain(a) > 0 THEN a ELSE c.balancing
               size(a) == IF Gain(a) > 0 THEN Gain(a) ELSE -Gain(a)
               group(out, into, a) == [source |-> out[a], destination |-> into[a], fee |-> NoId]
    <2>1. \A a \in Changed : from(a) # to(a)
        BY DEF Changed
    <2>2. PICK out, into \in [Changed -> Ids] :
             /\ \A a, b \in Changed : /\ out[a] = out[b] => a = b
                                      /\ into[a] = into[b] => a = b
                                      /\ out[a] # into[b]
             /\ \A a \in Changed : /\ tx[out[a]] = NoRow /\ tx[into[a]] = NoRow
                                   /\ PairOf(a, out[a], into[a])
             /\ \A i \in Ids : tx'[i] = tx[i] \/ \E a \in Changed : i \in {out[a], into[a]}
             /\ transfers' = transfers \cup {group(out, into, a) : a \in Changed}
        BY <1>5, ReallocationRows
    <2>3. \A a \in Changed :
             /\ tx'[out[a]] = Movement("TRANSFER_OUT", "OUTFLOW", from(a), size(a), c.at)
             /\ tx'[into[a]] = Movement("TRANSFER_IN", "INFLOW", to(a), size(a), c.at)
        BY <2>2 DEF PairOf
    <2> DEFINE added == {group(out, into, a) : a \in Changed}
    <2>4. \A a \in Changed : group(out, into, a) \in Transfer
        BY DEF Transfer
    <2>5. \A a \in Changed : Members(group(out, into, a)) = {out[a], into[a], NoId}
        BY DEF Members
    <2>6. \A a \in Changed : Paired(group(out, into, a))'
        <3> SUFFICES ASSUME NEW a \in Changed
                     PROVE  Paired(group(out, into, a))'
            OBVIOUS
        <3>1. /\ group(out, into, a).source = out[a] /\ group(out, into, a).destination = into[a]
              /\ group(out, into, a).fee = NoId
            OBVIOUS
        <3>2. /\ tx'[out[a]] = Movement("TRANSFER_OUT", "OUTFLOW", from(a), size(a), c.at)
              /\ tx'[into[a]] = Movement("TRANSFER_IN", "INFLOW", to(a), size(a), c.at)
              /\ from(a) # to(a)
            BY <2>1, <2>3
        <3> HIDE DEF from, to, size, c
        <3> QED
            BY <3>1, <3>2 DEF Paired, Movement
    <2>7. \A g \in added : Paired(g)' /\ \A i \in Members(g) \cap Ids : tx[i] = NoRow
        <3> HIDE DEF group
        <3> QED
            BY <2>2, <2>5, <2>6, IdsAssumption DEF IdsAssumption
    <2>8. ASSUME NEW i \in Ids, tx'[i] # tx[i]
          PROVE  \E g \in added : i \in Members(g) /\ \A h \in added \ {g} : i \notin Members(h)
        <3>1. PICK a \in Changed : i \in {out[a], into[a]}
            BY <2>2, <2>8
        <3>2. \A b \in Changed : b # a => i \notin Members(group(out, into, b))
            <4> HIDE DEF group
            <4> QED
                BY <2>2, <2>5, <3>1, IdsAssumption DEF IdsAssumption
        <3> HIDE DEF group
        <3> QED
            BY <2>5, <3>1, <3>2
    <2>9. added \subseteq Transfer
        BY <2>4
    <2>10. transfers' = transfers \cup added
        BY <2>2
    <2> HIDE DEF added
    <2> QED
        BY <1>2, <2>7, <2>8, <2>9, <2>10, GroupsAdded DEF PairInv
<1> QED
    BY <1>3, <1>4, <1>5 DEF Commit

LEMMA CommitsPost ==
    ASSUME PairInv, Commit
    PROVE  DraftsAreCore'
<1>1. \A i \in Ids : tx'[i] = tx[i] \/ tx'[i].status = "POSTED"
    BY CommitWrites DEF PairInv, Writes
<1> QED
    BY <1>1 DEF PairInv, DraftsAreCore

LEMMA PairStep ==
    ASSUME PairInv, [FNext]_fvars
    PROVE  PairInv'
<1>1. Inv'
    BY QuoteStep DEF PairInv
<1>2. CASE [Next]_vars /\ UNCHANGED <<transfers, quote>>
    BY <1>1, <1>2, LedgerPaired DEF PairInv
<1>3. CASE Commit
    BY <1>1, <1>3, CommitPaired, CommitsPost DEF PairInv
<1>4. CASE UNCHANGED <<tx, transfers>>
    BY <1>1, <1>4 DEF PairInv, DraftsAreCore, TransfersPaired, Paired
<1> QED
    BY <1>2, <1>3, <1>4 DEF FNext, StartPreview, FinishPreview, AbandonPreview, fvars

\* The two sides of a transfer, and its fee, stay together for good.
THEOREM TransfersStayPaired == FSpec => []TransfersPaired
<1>1. FInit => PairInv
    BY InvInit DEF FInit, PairInv, DraftsAreCore, TransfersPaired, NoRow
<1>2. PairInv => TransfersPaired
    BY DEF PairInv
<1> QED
    BY <1>1, <1>2, PairStep, PTL DEF FSpec

-----------------------------------------------------------------------------
(* Commits and what their previews announced *)

Gains == [a \in Changed |-> Gain(a)]

LEMMA ReallocationMoves ==
    ASSUME Inv, TypeOK', AccountsKept, WriteReallocation, quote.command \in Commands,
           \A b \in Changed : Gain(b) \in Int,
           NEW a \in Accounts, Exists(a), NEW t, quote.command.at <= t
    PROVE  /\ Sum(Gains, Changed) \in Int
           /\ BalanceAt(a, t)' = BalanceAt(a, t) +
                (IF a \in Changed THEN Gain(a)
                 ELSE IF a = quote.command.balancing THEN -Sum(Gains, Changed) ELSE 0)
           /\ a \in Changed \cup {quote.command.balancing} => Movements(a)' # {}
           /\ a \notin Changed \cup {quote.command.balancing} => Movements(a)' = Movements(a)
<1> DEFINE c == quote.command
<1>1. PICK out, into \in [Changed -> Ids] :
         /\ \A x, b \in Changed : /\ out[x] = out[b] => x = b
                                  /\ into[x] = into[b] => x = b
                                  /\ out[x] # into[b]
         /\ \A b \in Changed : /\ tx[out[b]] = NoRow /\ tx[into[b]] = NoRow
                               /\ PairOf(b, out[b], into[b])
                               /\ tx'[out[b]].amount \in Amounts
                               /\ tx'[into[b]].amount \in Amounts
         /\ \A i \in Ids : tx'[i] = tx[i] \/ \E b \in Changed : i \in {out[b], into[b]}
    BY ReallocationRows
<1>2. Changed \subseteq Accounts /\ IsFiniteSet(Changed) /\ c.balancing \notin Changed
      /\ Changed # {} /\ c.at <= t
    <2>1. Changed \subseteq Accounts /\ c.balancing \notin Changed /\ Changed # {}
        BY CommandFields DEF Changed, Gain, WriteReallocation
    <2> QED
        BY <2>1, FiniteAssumption, FS_Subset DEF FiniteAssumption
<1> DEFINE O == {out[b] : b \in Changed}
           I == {into[b] : b \in Changed}
           w == Weight(a, t)'
           uo == [b \in Changed |-> w[out[b]]]
           ui == [b \in Changed |-> w[into[b]]]
           u == [b \in Changed |-> IF b = a THEN Gain(b)
                                   ELSE IF a = c.balancing THEN -Gain(b) ELSE 0]
           from(b) == IF Gain(b) > 0 THEN c.balancing ELSE b
           to(b) == IF Gain(b) > 0 THEN b ELSE c.balancing
           size(b) == IF Gain(b) > 0 THEN Gain(b) ELSE -Gain(b)
<1>3. /\ O \subseteq Ids /\ I \subseteq Ids /\ O \cap I = {} /\ IsFiniteSet(O) /\ IsFiniteSet(I)
    <2>1. O \subseteq Ids /\ I \subseteq Ids /\ O \cap I = {}
        BY <1>1
    <2> HIDE DEF O, I
    <2> QED
        BY <2>1, FiniteAssumption, FS_Subset DEF FiniteAssumption
<1>4. \A b \in Changed :
         /\ tx'[out[b]] = Movement("TRANSFER_OUT", "OUTFLOW", from(b), size(b), c.at)
         /\ tx'[into[b]] = Movement("TRANSFER_IN", "INFLOW", to(b), size(b), c.at)
    BY <1>1 DEF PairOf
<1> HIDE DEF from, to, size
<1>5. \A b \in Changed :
         /\ Counts(out[b])' /\ tx'[out[b]].account = from(b) /\ ~Counts(out[b])
         /\ Counts(into[b])' /\ tx'[into[b]].account = to(b) /\ ~Counts(into[b])
    <2> SUFFICES ASSUME NEW b \in Changed
                 PROVE  /\ Counts(out[b])' /\ tx'[out[b]].account = from(b) /\ ~Counts(out[b])
                        /\ Counts(into[b])' /\ tx'[into[b]].account = to(b) /\ ~Counts(into[b])
        OBVIOUS
    <2>1. tx[out[b]] = NoRow /\ tx[into[b]] = NoRow
        BY <1>1
    <2>2. tx'[out[b]] = Movement("TRANSFER_OUT", "OUTFLOW", from(b), size(b), c.at)
        BY <1>4
    <2>3. tx'[into[b]] = Movement("TRANSFER_IN", "INFLOW", to(b), size(b), c.at)
        BY <1>4
    <2> HIDE DEF c
    <2>4. /\ tx[out[b]].status = "NONE" /\ tx[into[b]].status = "NONE"
          /\ tx'[out[b]].status = "POSTED" /\ tx'[out[b]].account = from(b)
          /\ tx'[into[b]].status = "POSTED" /\ tx'[into[b]].account = to(b)
        BY <2>1, <2>2, <2>3 DEF Movement, NoRow
    <2> QED
        BY <2>4 DEF Counts
<1>6. Adds(O \cup I)
    <2>1. \A i \in Ids \ (O \cup I) : tx'[i] = tx[i]
        BY <1>1
    <2>2. \A i \in O \cup I : Counts(i)' /\ ~Counts(i)
        BY <1>5
    <2> HIDE DEF O, I
    <2> QED
        BY <1>3, <2>1, <2>2 DEF Adds, Counts
<1>7. \A b \in Changed : /\ w[out[b]] = IF a = from(b) THEN -size(b) ELSE 0
                         /\ w[into[b]] = IF a = to(b) THEN size(b) ELSE 0
    <2> SUFFICES ASSUME NEW b \in Changed
                 PROVE  /\ w[out[b]] = IF a = from(b) THEN -size(b) ELSE 0
                        /\ w[into[b]] = IF a = to(b) THEN size(b) ELSE 0
        OBVIOUS
    <2>1. out[b] \in Ids /\ into[b] \in Ids
        OBVIOUS
    <2> QED
        BY <1>2, <1>4, <2>1, MovementWeight
<1> HIDE DEF w
<1>8. \A b \in Changed : /\ uo[b] \in Int /\ ui[b] \in Int /\ u[b] = uo[b] + ui[b]
                         /\ u[b] \in Int /\ Gain(b) \in Int
                         /\ uo[b] = w[out[b]] /\ ui[b] = w[into[b]]
    BY <1>2, <1>7 DEF from, to, size
<1>9. Sum(u, Changed) = Sum(uo, Changed) + Sum(ui, Changed)
    <2> HIDE DEF u, uo, ui
    <2> QED
        BY <1>2, <1>8, SumPlus
<1>10. Sum(uo, Changed) = Sum(w, O)
    <2> HIDE DEF uo
    <2>1. \A b \in Changed : uo[b] = w[out[b]] /\ w[out[b]] \in Int
        BY <1>8
    <2>2. \A x, y \in Changed : out[x] = out[y] => x = y
        BY <1>1
    <2> QED
        BY <1>2, <2>1, <2>2, FiniteAssumption, SumRenamed DEF FiniteAssumption
<1>11. Sum(ui, Changed) = Sum(w, I)
    <2> HIDE DEF ui
    <2>1. \A b \in Changed : ui[b] = w[into[b]] /\ w[into[b]] \in Int
        BY <1>8
    <2>2. \A x, y \in Changed : into[x] = into[y] => x = y
        BY <1>1
    <2> QED
        BY <1>2, <2>1, <2>2, FiniteAssumption, SumRenamed DEF FiniteAssumption
<1>12. Sum(w, O \cup I) = Sum(w, O) + Sum(w, I)
    <2>1. \A i \in O \cup I : w[i] \in Int
        BY <1>8
    <2> HIDE DEF O, I
    <2> QED
        BY <1>3, <2>1, SumOfUnion
<1>13. Sum(w, O \cup I) = Sum(u, Changed)
    BY <1>9, <1>10, <1>11, <1>12
<1> HIDE DEF O, I, uo, ui
<1>14. Sum(Gains, Changed) \in Int /\ \A b \in Changed : Gains[b] = Gain(b)
    <2>1. \A b \in Changed : Gains[b] = Gain(b) /\ Gains[b] \in Int
        BY DEF Gains
    <2> QED
        BY <1>2, <2>1, SumBasics
<1>15. Sum(u, Changed) = IF a \in Changed THEN Gain(a)
                         ELSE IF a = c.balancing THEN -Sum(Gains, Changed) ELSE 0
    <2>1. CASE a \in Changed
        <3>1. a # c.balancing /\ u[a] = Gain(a) /\ u[a] \in Int /\ \A b \in Changed \ {a} : u[b] = 0
            BY <1>2, <2>1
        <3> HIDE DEF u
        <3> QED
            BY <1>2, <2>1, <3>1, SumAtOne
    <2>2. CASE a \notin Changed /\ a = c.balancing
        <3>1. \A b \in Changed : u[b] = -Gains[b] /\ Gains[b] \in Int
            BY <1>14, <2>2
        <3> HIDE DEF u
        <3> QED
            BY <1>2, <2>2, <3>1, SumMinus
    <2>3. CASE a \notin Changed /\ a # c.balancing
        <3>1. \A b \in Changed : u[b] = 0
            BY <2>3
        <3> HIDE DEF u
        <3> QED
            BY <1>2, <2>3, <3>1, SumOfZeros
    <2> QED
        BY <2>1, <2>2, <2>3
<1> HIDE DEF u
<1>16. /\ Exists(a)' /\ acct'[a].opening = acct[a].opening /\ acct[a].opening \in Int
       /\ BalanceAt(a, t) \in Int
    BY OpeningType, BalanceType DEF AccountsKept, Inv
<1>17. Sum(w, O \cup I) \in Int /\
       BalanceAt(a, t)' = BalanceAt(a, t) + (acct'[a].opening - acct[a].opening) + Sum(w, O \cup I)
    BY <1>6, <1>16, BalanceMoves DEF Inv, w
<1>18. BalanceAt(a, t)' = BalanceAt(a, t) + Sum(w, O \cup I)
    BY <1>16, <1>17
<1>19. Movements(a)' = Movements(a) \cup {i \in O \cup I : tx'[i].account = a}
    BY <1>6, AddedMovements
<1>20. (a \in Changed \cup {c.balancing}) => \E i \in O \cup I : tx'[i].account = a
    <2>1. CASE a \in Changed
        BY <1>5, <2>1 DEF from, to, O, I
    <2>2. CASE a = c.balancing
        BY <1>2, <1>5, <2>2 DEF from, to, O, I
    <2> QED
        BY <2>1, <2>2
<1>21. (a \notin Changed \cup {c.balancing}) => \A i \in O \cup I : tx'[i].account # a
    BY <1>5 DEF from, to, O, I
<1> QED
    BY <1>13, <1>14, <1>15, <1>18, <1>19, <1>20, <1>21

LEMMA TotalIsSum ==
    ASSUME NEW S, IsFiniteSet(S), NEW b \in [S -> Int]
    PROVE  TotalOf(b) = Sum(b, S)
<1> DEFINE FoldsValues(h) == h = [s \in SUBSET S |->
                                    IF s = {} THEN 0
                                    ELSE b[CHOOSE x \in s : TRUE]
                                           + h[s \ {CHOOSE x \in s : TRUE}]]
           fold == CHOOSE h : FoldsValues(h)
<1>1. TotalOf(b) = fold[S]
    <2>1. DOMAIN b = S
        OBVIOUS
    <2>2. TotalOf(b) = MapThenSumSet(LAMBDA a : b[a], S)
        BY <2>1 DEF TotalOf
    <2> QED
        BY <2>2 DEF MapThenSumSet, MapThenFoldSet
<1>2. \A x \in S : b[x] \in Int
    OBVIOUS
<1>3. \A h : FoldsValues(h) <=> Folds(h, b, S)
    BY DEF Folds
<1>4. FoldsValues(fold)
    <2> HIDE DEF FoldsValues
    <2>1. \E h : FoldsValues(h)
        BY <1>2, <1>3, FoldSums
    <2> QED
        BY <2>1
<1> HIDE DEF fold, FoldsValues
<1>5. fold[S] = Sum(b, S)
    BY <1>2, <1>3, <1>4, FoldSums
<1> QED
    BY <1>1, <1>5

\* What a preview announces, as a change of each balance: what a reallocation gives
\* the accounts it was asked about, it takes from the balancing account.
LEMMA ReallocationGains ==
    ASSUME quote.command \in Commands, quote.command.op = "REALLOCATE",
           WellFormed(quote.command),
           quote.balances \in [Participants(quote.command) -> Int]
    PROVE  /\ \A a \in quote.command.accounts :
                 Gain(a) \in Int /\ Outcome(quote.command, quote.balances)[a] \in Int
           /\ \A a \in quote.command.accounts \ (Changed \cup {quote.command.balancing}) :
                 Gain(a) = 0
           /\ Gain(quote.command.balancing) = -Sum(Gains, Changed)
<1>1. PICK c : c = quote.command
    OBVIOUS
<1>2. PICK b : b = quote.balances
    OBVIOUS
<1> DEFINE others == c.accounts \ {c.balancing}
           target == [a \in others |-> IF a \in DOMAIN c.requested THEN c.requested[a] ELSE b[a]]
           gain == [a \in others |-> target[a] - b[a]]
<1>3. /\ c.accounts \in SUBSET Accounts /\ c.balancing \in c.accounts
      /\ c.balancing \notin DOMAIN c.requested
      /\ b \in [c.accounts -> Int] /\ IsFiniteSet(c.accounts) /\ IsFiniteSet(others)
    <2>1. /\ c.accounts \in SUBSET Accounts /\ c.balancing \in c.accounts
          /\ c.balancing \notin DOMAIN c.requested /\ b \in [c.accounts -> Int]
        BY <1>1, <1>2, CommandFields DEF WellFormed, Participants
    <2> QED
        BY <2>1, FiniteAssumption, FS_Subset DEF FiniteAssumption
<1>4. \A a \in DOMAIN c.requested : c.requested[a] \in Int
    <2>1. c \in ReallocationCommands
        BY <1>1 DEF Commands, TransferCommands, ReconciliationCommands
    <2>2. PICK S \in SUBSET Accounts :
             c \in [op : {"REALLOCATE"}, accounts : {S}, balancing : S,
                    requested : UNION {[R -> Targets] : R \in SUBSET S}, at : Times]
        BY <2>1 DEF ReallocationCommands
    <2>3. PICK R \in SUBSET S : c.requested \in [R -> Targets]
        BY <2>2
    <2>4. \A x \in Targets : x \in Int
        BY TargetsAssumption DEF TargetsAssumption
    <2> QED
        BY <2>3, <2>4
<1>5. target \in [others -> Int]
    BY <1>3, <1>4
<1>6. Outcome(c, b) = [a \in c.accounts |->
                         IF a = c.balancing THEN TotalOf(b) - TotalOf(target) ELSE target[a]]
    BY <1>1 DEF Outcome, ReallocationTargets
<1>7. TotalOf(b) = Sum(b, c.accounts) /\ TotalOf(target) = Sum(target, others)
    <2> HIDE DEF target, others
    <2> QED
        BY <1>3, <1>5, TotalIsSum
<1>8. \A a \in others : /\ b[a] \in Int /\ target[a] \in Int /\ gain[a] \in Int
                        /\ target[a] = b[a] + gain[a] /\ gain[a] = target[a] - b[a]
    <2> HIDE DEF target
    <2> QED
        BY <1>3, <1>5
<1>9. \A a \in c.accounts : Gain(a) = IF a = c.balancing
                                      THEN TotalOf(b) - TotalOf(target) - b[a] ELSE gain[a]
    <2> HIDE DEF target
    <2> QED
        BY <1>1, <1>2, <1>6 DEF Gain
<1>10. Changed = {a \in others : gain[a] # 0}
    <2> HIDE DEF gain
    <2> QED
        BY <1>1, <1>9 DEF Changed
<1> HIDE DEF target, gain
<1>11. Sum(target, others) = Sum(b, others) + Sum(gain, others)
    BY <1>3, <1>8, SumPlus
<1>12. /\ Sum(b, c.accounts) = Sum(b, others) + b[c.balancing]
       /\ Sum(b, others) \in Int /\ Sum(gain, others) \in Int /\ b[c.balancing] \in Int
    <2>1. \A a \in c.accounts : b[a] \in Int
        BY <1>3
    <2>2. \A a \in others : gain[a] \in Int /\ b[a] \in Int
        BY <1>8
    <2>3. Sum(b, c.accounts) = Sum(b, others) + b[c.balancing]
        BY <1>3, <2>1, SumBasics
    <2> HIDE DEF others
    <2>4. Sum(b, others) \in Int /\ Sum(gain, others) \in Int
        BY <1>3, <2>2, SumBasics
    <2> QED
        BY <1>3, <2>1, <2>3, <2>4
<1>13. Sum(gain, others) = Sum(Gains, Changed)
    <2>1. Changed \in SUBSET others /\ IsFiniteSet(Changed)
        BY <1>3, <1>10, FS_Subset
    <2>2. \A a \in others \ Changed : gain[a] = 0
        BY <1>10
    <2>3. \A a \in Changed : gain[a] \in Int /\ Gains[a] = gain[a]
        BY <1>3, <1>8, <1>9, <1>10 DEF Gains
    <2> HIDE DEF others
    <2>4. Sum(gain, others) = Sum(gain, Changed)
        BY <1>3, <2>1, <2>2, <2>3, SumZeros
    <2>5. Sum(Gains, Changed) = Sum(gain, Changed)
        BY <2>1, <2>3, SumAgree
    <2> QED
        BY <2>4, <2>5
<1>14. Gain(c.balancing) = -Sum(gain, others)
    <2>1. Gain(c.balancing) = Sum(b, c.accounts) - Sum(target, others) - b[c.balancing]
        BY <1>3, <1>7, <1>9
    <2> HIDE DEF others
    <2> QED
        BY <1>11, <1>12, <2>1
<1>15. \A a \in c.accounts : Gain(a) \in Int
    <2>1. \A a \in others : Gain(a) = gain[a]
        BY <1>9
    <2> QED
        BY <1>8, <1>12, <1>14, <2>1
<1>16. \A a \in c.accounts \ (Changed \cup {c.balancing}) : Gain(a) = 0
    BY <1>1, <1>9, <1>10
<1>17. \A a \in c.accounts : Outcome(c, b)[a] \in Int
    <2>1. Sum(b, c.accounts) - Sum(target, others) \in Int
        <3> HIDE DEF others
        <3> QED
            BY <1>11, <1>12
    <2>2. \A a \in c.accounts \ {c.balancing} : Outcome(c, b)[a] \in Int
        BY <1>6, <1>8
    <2>3. Outcome(c, b)[c.balancing] \in Int
        BY <1>3, <1>6, <1>7, <2>1
    <2> QED
        BY <2>2, <2>3
<1> QED
    BY <1>1, <1>2, <1>13, <1>14, <1>15, <1>16, <1>17

\* A preview that was answered holds a balance for every account of its command.
QuotedBalances ==
    quote.phase = "QUOTED" => quote.balances \in [Participants(quote.command) -> Int]

MoneyInv == Inv /\ QuotedBalances

LEMMA MoneyStep ==
    ASSUME MoneyInv, [FNext]_fvars
    PROVE  MoneyInv'
<1>1. Inv'
    BY QuoteStep DEF MoneyInv
<1>2. CASE UNCHANGED quote
    BY <1>1, <1>2 DEF MoneyInv, QuotedBalances
<1>3. CASE quote'.phase # "QUOTED"
    BY <1>1, <1>3 DEF MoneyInv, QuotedBalances
<1>4. CASE FinishPreview /\ quote' # NoQuote
    <2>1. /\ quote' = [phase |-> "QUOTED", command |-> quote.command, rows |-> quote.rows,
                       basis |-> quote.basis, balances |-> Balances(quote.command)]
          /\ quote # NoQuote
        BY <1>4 DEF FinishPreview, NoQuote
    <2>2. Participants(quote.command) \subseteq Accounts
        BY <2>1, CommandFields, TargetsAssumption DEF MoneyInv, Inv, QuoteTyped, TargetsAssumption
    <2>3. \A a \in Participants(quote.command) : BalanceAt(a, ReadAt(quote.command)) \in Int
        BY <2>1, <2>2, BalanceType DEF MoneyInv, Inv, QuoteTyped
    <2>4. Balances(quote.command) \in [Participants(quote.command) -> Int]
        BY <2>3 DEF Balances
    <2> QED
        BY <1>1, <2>1, <2>4 DEF MoneyInv, QuotedBalances
<1>5. NoQuote.phase # "QUOTED"
    BY DEF NoQuote
<1>6. CASE Commit
    BY <1>3, <1>5, <1>6, CommitWrites DEF MoneyInv
<1>7. ASSUME NEW command \in Requests, StartPreview(command)
      PROVE  MoneyInv'
    BY <1>3, <1>7 DEF StartPreview
<1>8. CASE FinishPreview
    BY <1>3, <1>4, <1>5, <1>8
<1>9. CASE AbandonPreview
    BY <1>3, <1>5, <1>9 DEF AbandonPreview
<1> QED
    BY <1>2, <1>6, <1>7, <1>8, <1>9 DEF FNext, fvars

\* What the preview announces for account a, as a change.
Delta(a) == IF a \in Participants(quote.command) THEN Gain(a) ELSE 0

LEMMA QuotedOutcome ==
    ASSUME MoneyInv, quote.phase = "QUOTED"
    PROVE  /\ quote.command \in Commands /\ WellFormed(quote.command)
           /\ quote.balances \in [Participants(quote.command) -> Int]
           /\ \A a \in Participants(quote.command) :
                 /\ a \in Accounts /\ Exists(a)
                 /\ Outcome(quote.command, quote.balances)[a] \in Int
                 /\ Gain(a) \in Int
           /\ quote.command.op = "TRANSFER" =>
                 \A a \in Accounts : /\ TransferDelta(quote.command, a) \in Int
                                     /\ Delta(a) = TransferDelta(quote.command, a)
<1>1. /\ quote.command \in Commands /\ WellFormed(quote.command)
      /\ quote.balances \in [Participants(quote.command) -> Int]
      /\ \A a \in Participants(quote.command) : a \in Accounts /\ Exists(a)
    BY CommandFields, TargetsAssumption
    DEF MoneyInv, QuotedBalances, Inv, QuoteTyped, NoQuote, TargetsAssumption
<1>2. PICK c : c = quote.command
    OBVIOUS
<1>3. PICK b : b = quote.balances
    OBVIOUS
<1>4. \A a \in Participants(c) : Gain(a) = Outcome(c, b)[a] - b[a] /\ b[a] \in Int
    BY <1>1, <1>2, <1>3 DEF Gain
<1>5. CASE c.op = "TRANSFER"
    <2>1. c \in TransferCommands
        BY <1>1, <1>2, <1>5 DEF Commands, ReconciliationCommands, ReallocationCommands
    <2>2. \A x \in Amounts : x \in Int
        BY AmountsAssumption DEF AmountsAssumption
    <2>3. c.amount \in Int /\ (WithFee(c) => c.fee.amount \in Int)
        BY <2>1, <2>2 DEF TransferCommands, WithFee
    <2>4. \A a \in Accounts : TransferDelta(c, a) \in Int
        BY <2>3 DEF TransferDelta
    <2>5. \A a \in Participants(c) : Outcome(c, b)[a] = b[a] + TransferDelta(c, a)
        BY <1>1, <1>2, <1>3, <1>5 DEF Outcome
    <2>6. \A a \in Participants(c) : Outcome(c, b)[a] \in Int /\ Gain(a) = TransferDelta(c, a)
        BY <1>1, <1>2, <1>4, <2>4, <2>5
    <2>7. \A a \in Accounts \ Participants(c) : TransferDelta(c, a) = 0
        BY <1>5, <2>3 DEF Participants, TransferDelta
    <2> QED
        BY <1>1, <1>2, <1>3, <2>4, <2>6, <2>7 DEF Delta
<1>6. CASE c.op = "RECONCILE"
    <2>1. c.actual \in Targets
        BY <1>1, <1>2, <1>6
        DEF Commands, TransferCommands, ReconciliationCommands, ReallocationCommands
    <2>2. \A x \in Targets : x \in Int
        BY TargetsAssumption DEF TargetsAssumption
    <2>3. \A a \in Participants(c) : Outcome(c, b)[a] = c.actual
        BY <1>1, <1>2, <1>3, <1>6 DEF Outcome
    <2> QED
        BY <1>1, <1>2, <1>3, <1>4, <1>6, <2>1, <2>2, <2>3
<1>7. CASE c.op = "REALLOCATE"
    <2>1. Participants(c) = c.accounts
        BY <1>7 DEF Participants
    <2>2. \A a \in c.accounts : Gain(a) \in Int /\ Outcome(c, b)[a] \in Int
        BY <1>1, <1>2, <1>3, <1>7, ReallocationGains
    <2> QED
        BY <1>1, <1>2, <1>3, <1>7, <2>1, <2>2
<1> QED
    BY <1>1, <1>2, <1>5, <1>6, <1>7, CommandFields

\* A commit changes each balance by what the preview announced, from the date of the
\* command on.
LEMMA CommitMoves ==
    ASSUME MoneyInv, Commit, NEW a \in Accounts, Exists(a), NEW t, quote.command.at <= t
    PROVE  /\ Delta(a) \in Int /\ BalanceAt(a, t) \in Int
           /\ BalanceAt(a, t)' = BalanceAt(a, t) + Delta(a)
           /\ a \notin Participants(quote.command) => Movements(a)' = Movements(a)
<1>1. Inv /\ TypeOK /\ TypeOK' /\ quote.phase = "QUOTED"
    BY CommitTyped DEF MoneyInv, Commit, Reevaluated, Inv
<1>2. AccountsKept
    <2>1. PICK S : Writes(S)
        BY <1>1, CommitWrites
    <2> QED
        BY <1>1, <2>1, BumpKeeps DEF Writes
<1>3. PICK c : c = quote.command
    OBVIOUS
<1>4. /\ c \in Commands /\ WellFormed(c) /\ quote.balances \in [Participants(c) -> Int]
      /\ \A b \in Participants(c) : b \in Accounts /\ Gain(b) \in Int
      /\ c.op = "TRANSFER" =>
            \A b \in Accounts : TransferDelta(c, b) \in Int /\ Delta(b) = TransferDelta(c, b)
    <2>1. /\ quote.command \in Commands /\ WellFormed(quote.command)
          /\ quote.balances \in [Participants(quote.command) -> Int]
          /\ \A b \in Participants(quote.command) : b \in Accounts /\ Gain(b) \in Int
          /\ quote.command.op = "TRANSFER" =>
                 \A b \in Accounts : /\ TransferDelta(quote.command, b) \in Int
                                     /\ Delta(b) = TransferDelta(quote.command, b)
        BY <1>1, QuotedOutcome
    <2> QED
        BY <1>3, <2>1
<1>5. Delta(a) \in Int /\ BalanceAt(a, t) \in Int
    BY <1>1, <1>3, <1>4, BalanceType DEF Delta
<1>6. ASSUME NEW s \in Ids, NEW d \in Ids, NEW f \in Ids \cup {NoId}, WriteTransfer(s, d, f)
      PROVE  /\ BalanceAt(a, t)' = BalanceAt(a, t) + Delta(a)
             /\ a \notin Participants(quote.command) => Movements(a)' = Movements(a)
    <2>1. /\ BalanceAt(a, t)' = BalanceAt(a, t) + TransferDelta(quote.command, a)
          /\ a \notin Participants(quote.command) => Movements(a)' = Movements(a)
        BY <1>1, <1>2, <1>3, <1>4, <1>6, TransferMoves
    <2>2. Delta(a) = TransferDelta(quote.command, a)
        BY <1>3, <1>4, <1>6 DEF WriteTransfer
    <2> QED
        BY <2>1, <2>2
<1>7. ASSUME NEW i \in Ids, WriteReconciliation(i)
      PROVE  /\ BalanceAt(a, t)' = BalanceAt(a, t) + Delta(a)
             /\ a \notin Participants(quote.command) => Movements(a)' = Movements(a)
    <2>1. c.op = "RECONCILE" /\ Participants(c) = {c.account}
        BY <1>3, <1>7 DEF WriteReconciliation, Participants
    <2>2. quote.balances[quote.command.account] \in Int
        BY <1>3, <1>4, <2>1
    <2>3. /\ BalanceAt(a, t)' = BalanceAt(a, t) +
                (IF a = quote.command.account
                 THEN quote.command.actual - quote.balances[quote.command.account] ELSE 0)
          /\ Movements(a)' = Movements(a) \cup (IF a = quote.command.account THEN {i} ELSE {})
        BY <1>1, <1>2, <1>3, <1>4, <1>7, <2>2, ReconciliationMoves
    <2>4. a = c.account => Gain(a) = c.actual - quote.balances[c.account]
        <3>1. DOMAIN quote.balances = {c.account}
            BY <1>4, <2>1
        <3> QED
            BY <1>3, <2>1, <3>1 DEF Gain, Outcome
    <2>5. Delta(a) = IF a = c.account THEN c.actual - quote.balances[c.account] ELSE 0
        BY <1>3, <2>1, <2>4 DEF Delta
    <2> QED
        BY <1>3, <2>1, <2>3, <2>5
<1>8. ASSUME WriteReallocation
      PROVE  /\ BalanceAt(a, t)' = BalanceAt(a, t) + Delta(a)
             /\ a \notin Participants(quote.command) => Movements(a)' = Movements(a)
    <2>1. c.op = "REALLOCATE" /\ Participants(c) = c.accounts /\ c.balancing \in c.accounts
        BY <1>3, <1>4, <1>8, CommandFields DEF WriteReallocation, Participants
    <2>2. Changed \subseteq c.accounts
        BY <1>3 DEF Changed
    <2>3. \A b \in Changed : Gain(b) \in Int
        BY <1>4, <2>1, <2>2
    <2>4. /\ BalanceAt(a, t)' = BalanceAt(a, t) +
                (IF a \in Changed THEN Gain(a)
                 ELSE IF a = quote.command.balancing THEN -Sum(Gains, Changed) ELSE 0)
          /\ a \notin Changed \cup {quote.command.balancing} => Movements(a)' = Movements(a)
        BY <1>1, <1>2, <1>3, <1>4, <1>8, <2>3, ReallocationMoves
    <2>5. /\ \A b \in quote.command.accounts \ (Changed \cup {quote.command.balancing}) :
                 Gain(b) = 0
          /\ Gain(quote.command.balancing) = -Sum(Gains, Changed)
        BY <1>3, <1>4, <2>1, ReallocationGains
    <2>6. Delta(a) = IF a \in Changed THEN Gain(a)
                     ELSE IF a = c.balancing THEN -Sum(Gains, Changed) ELSE 0
        BY <1>3, <2>1, <2>2, <2>5 DEF Delta
    <2> QED
        BY <1>3, <2>1, <2>2, <2>4, <2>6
<1> QED
    BY <1>5, <1>6, <1>7, <1>8 DEF Commit

LEMMA ReadsItsDate ==
    ASSUME TypeOK, NEW c \in Commands
    PROVE  c.at <= ReadAt(c)
<1>1. now \in Int /\ c.at \in Int
    BY TimeType, CommandFields, BoundsAssumption DEF BoundsAssumption
<1>2. Max({now, c.at}) = IF now >= c.at THEN now ELSE c.at
    BY <1>1, LaterOf
<1> QED
    BY <1>1, <1>2 DEF ReadAt

LEMMA MoneyInit ==
    ASSUME FInit
    PROVE  MoneyInv
BY InvInit DEF MoneyInv, QuotedBalances, FInit, NoQuote

\* A commit leaves every account it names at the balance its preview announced.
THEOREM CommitsMatchQuotes == FSpec => CommitMatchesQuote
<1> DEFINE Matches ==
       quote.phase = "QUOTED" /\ quote' = NoQuote /\ tx' # tx =>
          LET outcome == Outcome(quote.command, quote.balances)
          IN  \A a \in Accounts, t \in {ReadAt(quote.command)} :
                 IF a \in Participants(quote.command)
                 THEN BalanceAt(a, t)' = outcome[a]
                 ELSE Movements(a)' = Movements(a)
<1>1. MoneyInv /\ [FNext]_fvars => [Matches]_fvars
    <2> SUFFICES ASSUME MoneyInv, [FNext]_fvars, quote.phase = "QUOTED", quote' = NoQuote,
                        tx' # tx, NEW a \in Accounts, NEW t, t = ReadAt(quote.command)
                 PROVE  IF a \in Participants(quote.command)
                        THEN BalanceAt(a, t)' = Outcome(quote.command, quote.balances)[a]
                        ELSE Movements(a)' = Movements(a)
        OBVIOUS
    <2>1. Commit
        <3>1. quote # NoQuote
            BY DEF NoQuote
        <3>2. ~UNCHANGED fvars /\ ~(Next /\ UNCHANGED <<transfers, quote>>)
            BY <3>1 DEF fvars
        <3>3. ~FinishPreview /\ ~AbandonPreview /\ \A command \in Requests : ~StartPreview(command)
            BY DEF StartPreview, FinishPreview, AbandonPreview
        <3> QED
            BY <3>2, <3>3 DEF FNext
    <2>2. quote.command.at <= t /\ quote.command \in Commands
        BY QuotedOutcome, ReadsItsDate DEF MoneyInv, Inv
    <2>3. CASE a \in Participants(quote.command)
        <3>1. /\ Outcome(quote.command, quote.balances)[a] \in Int /\ Exists(a)
              /\ quote.balances[a] \in Int
            BY <2>3, QuotedOutcome
        <3>2. BalanceAt(a, t)' = BalanceAt(a, t) + Delta(a)
            BY <2>1, <2>2, <3>1, CommitMoves
        <3>3. BalanceAt(a, t) = quote.balances[a]
            BY <2>1, <2>3 DEF Commit, Reevaluated, SameFingerprint, Balances
        <3>4. Delta(a) = Outcome(quote.command, quote.balances)[a] - quote.balances[a]
            BY <2>3 DEF Delta, Gain
        <3> QED
            BY <2>3, <3>1, <3>2, <3>3, <3>4
    <2>4. CASE a \notin Participants(quote.command)
        <3>1. CASE Exists(a)
            BY <2>1, <2>2, <2>4, <3>1, CommitMoves
        <3>2. CASE ~Exists(a)
            <4>1. PICK S : Writes(S)
                BY <2>1, CommitWrites DEF MoneyInv
            <4>2. \A i \in Ids : tx'[i] = tx[i]
                                 \/ (tx[i].status = "NONE" /\ tx'[i].account # a)
                BY <3>2, <4>1 DEF Writes, NoRow
            <4>3. Movements(a)' = Movements(a)
                BY <4>2 DEF Movements, Counts
            <4> QED
                BY <2>4, <4>3
        <3> QED
            BY <3>1, <3>2
    <2> QED
        BY <2>3, <2>4
<1> QED
    BY <1>1, MoneyInit, MoneyStep, PTL DEF FSpec, CommitMatchesQuote

-----------------------------------------------------------------------------
(* With its commits the ledger is still a bank *)

\* What a row of a commit is.
SideOrAdjustment(row) ==
    /\ row.reversalOf = NoId
    /\ \/ row.kind = "TRANSFER_IN" /\ row.effect = "INFLOW"
       \/ row.kind \in {"TRANSFER_OUT", "TRANSFER_FEE"} /\ row.effect = "OUTFLOW"
       \/ row.kind = "RECONCILIATION_ADJUSTMENT"

\* Every row of a commit bears the date of the command, on an account it names.
LEMMA CommitDates ==
    ASSUME MoneyInv, Commit
    PROVE  \A i \in Ids : tx'[i] # tx[i] => /\ tx[i] = NoRow /\ Counts(i)'
                                            /\ tx'[i].at = quote.command.at
                                            /\ tx'[i].account \in Participants(quote.command)
                                            /\ SideOrAdjustment(tx'[i])
<1> DEFINE c == quote.command
<1>1. PICK S : Writes(S)
    BY CommitWrites DEF MoneyInv
<1>2. \A i \in Ids : tx'[i] # tx[i] => tx[i] = NoRow /\ Counts(i)'
    BY <1>1 DEF Writes, Counts
<1>3. c \in Commands /\ quote.phase = "QUOTED"
    BY QuotedOutcome DEF Commit, Reevaluated
<1>4. ASSUME NEW s \in Ids, NEW d \in Ids, NEW f \in Ids \cup {NoId}, WriteTransfer(s, d, f),
             NEW i \in Ids, tx'[i] # tx[i]
      PROVE  tx'[i].at = c.at /\ tx'[i].account \in Participants(c) /\ SideOrAdjustment(tx'[i])
    <2> DEFINE rows == [j \in {s, d, f} \ {NoId} |->
              CASE j = s -> Movement("TRANSFER_OUT", "OUTFLOW", c.source, c.amount, c.at)
                [] j = d -> Movement("TRANSFER_IN", "INFLOW", c.destination, c.amount, c.at)
                [] j = f -> Movement("TRANSFER_FEE", "OUTFLOW", c.fee.account,
                                     c.fee.amount, c.at)]
    <2>1. Insert(rows) /\ c.op = "TRANSFER" /\ (WithFee(c) <=> f # NoId)
        BY <1>4 DEF WriteTransfer
    <2>2. i \in {s, d, f} \ {NoId} /\ tx'[i] = rows[i]
        <3>1. DOMAIN rows = {s, d, f} \ {NoId}
            OBVIOUS
        <3> HIDE DEF rows
        <3> QED
            BY <1>4, <2>1, <3>1 DEF Insert
    <2>3. {c.source, c.destination} \subseteq Participants(c)
          /\ (f # NoId => c.fee.account \in Participants(c))
        BY <2>1 DEF Participants
    <2>4. \/ tx'[i] = Movement("TRANSFER_OUT", "OUTFLOW", c.source, c.amount, c.at)
          \/ tx'[i] = Movement("TRANSFER_IN", "INFLOW", c.destination, c.amount, c.at)
          \/ /\ f # NoId
             /\ tx'[i] = Movement("TRANSFER_FEE", "OUTFLOW", c.fee.account, c.fee.amount, c.at)
        BY <2>2
    <2> HIDE DEF rows, c
    <2> QED
        BY <2>3, <2>4 DEF Movement, SideOrAdjustment
<1>5. ASSUME NEW k \in Ids, WriteReconciliation(k), NEW i \in Ids, tx'[i] # tx[i]
      PROVE  tx'[i].at = c.at /\ tx'[i].account \in Participants(c) /\ SideOrAdjustment(tx'[i])
    <2> DEFINE delta == c.actual - quote.balances[c.account]
               row == IF delta > 0
                      THEN Movement("RECONCILIATION_ADJUSTMENT", "INFLOW", c.account, delta, c.at)
                      ELSE Movement("RECONCILIATION_ADJUSTMENT", "OUTFLOW", c.account, -delta, c.at)
    <2>1. Insert([j \in {k} |-> row]) /\ c.op = "RECONCILE"
        BY <1>5 DEF WriteReconciliation
    <2>2. tx'[i] = row
        <3> HIDE DEF row
        <3> QED
            BY <1>5, <2>1 DEF Insert
    <2>3. c.account \in Participants(c)
        BY <2>1 DEF Participants
    <2> HIDE DEF delta, c
    <2> QED
        BY <2>2, <2>3 DEF Movement, SideOrAdjustment
<1>6. ASSUME WriteReallocation, NEW i \in Ids, tx'[i] # tx[i]
      PROVE  tx'[i].at = c.at /\ tx'[i].account \in Participants(c) /\ SideOrAdjustment(tx'[i])
    <2>1. PICK out, into \in [Changed -> Ids] :
             /\ \A b \in Changed : PairOf(b, out[b], into[b])
             /\ \A j \in Ids : tx'[j] = tx[j] \/ \E b \in Changed : j \in {out[b], into[b]}
        BY <1>6, ReallocationRows
    <2>2. PICK b \in Changed : i \in {out[b], into[b]}
        BY <1>6, <2>1
    <2>3. c.op = "REALLOCATE" /\ Participants(c) = c.accounts /\ c.balancing \in c.accounts
          /\ b \in c.accounts
        BY <1>3, <1>6, CommandFields DEF WriteReallocation, Participants, Changed
    <2>4. PairOf(b, out[b], into[b])
        BY <2>1
    <2>5. PICK x, kind, effect, size :
             /\ x \in {b, c.balancing} /\ tx'[i] = Movement(kind, effect, x, size, c.at)
             /\ \/ kind = "TRANSFER_OUT" /\ effect = "OUTFLOW"
                \/ kind = "TRANSFER_IN" /\ effect = "INFLOW"
        BY <2>2, <2>4 DEF PairOf
    <2> HIDE DEF c
    <2> QED
        BY <2>3, <2>5 DEF Movement, SideOrAdjustment
<1> QED
    BY <1>2, <1>4, <1>5, <1>6 DEF Commit

LEMMA CommitKeeps ==
    ASSUME MoneyInv, Commit
    PROVE  TypeOK /\ TypeOK' /\ AccountsKept /\ now' = now
           /\ \A a \in Accounts : acct'[a].openedAt = acct[a].openedAt
<1>1. Inv /\ TypeOK /\ TypeOK' /\ now' = now
    BY CommitTyped, CommitWrites DEF MoneyInv, Inv
<1>2. PICK S : Writes(S)
    BY <1>1, CommitWrites
<1>3. AccountsKept
    BY <1>1, <1>2, BumpKeeps DEF Writes
<1>4. \A a \in Accounts : acct'[a].openedAt = acct[a].openedAt
    <2> SUFFICES ASSUME NEW a \in Accounts
                 PROVE  acct'[a].openedAt = acct[a].openedAt
        OBVIOUS
    <2>1. CASE a \in S
        <3>1. acct[a] \in Account /\ acct'[a] = [acct[a] EXCEPT !.version = @ + 1]
            BY <1>1, <1>2, <2>1, OpeningType DEF Writes, Bump
        <3> QED
            BY <3>1 DEF Account
    <2>2. CASE a \notin S
        BY <1>2, <2>2 DEF Writes, Bump
    <2> QED
        BY <2>1, <2>2
<1> QED
    BY <1>1, <1>3, <1>4

LEMMA CommitKeepsOpening ==
    ASSUME MoneyInv, MovementsAfterOpening, Commit
    PROVE  MovementsAfterOpening'
<1>1. TypeOK /\ TypeOK' /\ AccountsKept
      /\ \A a \in Accounts : acct'[a].openedAt = acct[a].openedAt
    BY CommitKeeps
<1>2. \A i \in Ids : tx'[i] # tx[i] => /\ tx'[i].at = quote.command.at
                                       /\ tx'[i].account \in Participants(quote.command)
    BY CommitDates
<1>3. \A a \in Participants(quote.command) :
         a \in Accounts /\ Exists(a) /\ quote.command.at >= acct[a].openedAt
    BY QuotedOutcome DEF Commit, Reevaluated, AccountsAccept
<1>4. ASSUME NEW i \in Ids, Counts(i)'
      PROVE  Exists(tx[i].account)' /\ tx'[i].at >= acct'[tx'[i].account].openedAt
    <2>1. CASE tx'[i] = tx[i]
        <3>1. Counts(i) /\ Exists(tx[i].account) /\ tx[i].at >= acct[tx[i].account].openedAt
            BY <1>4, <2>1 DEF MovementsAfterOpening, Counts
        <3>2. tx[i].account \in Accounts
            BY <1>1, <3>1 DEF TypeOK, Counts, NoRow, Row
        <3> QED
            BY <1>1, <2>1, <3>1, <3>2 DEF AccountsKept, Exists
    <2>2. CASE tx'[i] # tx[i]
        BY <1>1, <1>2, <1>3, <2>2 DEF AccountsKept, Exists
    <2> QED
        BY <2>1, <2>2
<1> QED
    BY <1>4 DEF MovementsAfterOpening

LEMMA CommitKeepsLedger ==
    ASSUME Skew = 0, MoneyInv, LedgerInv, Commit
    PROVE  LedgerInv' /\ quote.command.at \in Int /\ quote.command.at <= now
<1>1. TypeOK /\ TypeOK' /\ now' = now
    BY CommitKeeps
<1>2. quote.command.at \in Int /\ quote.command.at <= now
    <2>1. AccountsAccept(quote.command) /\ quote.command \in Commands
        BY QuotedOutcome DEF Commit, Reevaluated
    <2>2. quote.command.at \in Int /\ now \in Int
        BY <1>1, <2>1, TimeType, CommandFields, BoundsAssumption DEF BoundsAssumption
    <2> QED
        BY <2>1, <2>2 DEF AccountsAccept, NotFuture
<1>3. \A i \in Ids : tx'[i] # tx[i] => tx'[i].at = quote.command.at
    BY CommitDates
<1>4. NothingAhead'
    BY <1>1, <1>2, <1>3 DEF NothingAhead, LedgerInv, Counts
<1> QED
    BY <1>1, <1>2, <1>4, CommitKeepsOpening DEF LedgerInv

\* What the accounts show, and what the policies allow.
LEMMA CommitShows ==
    ASSUME Skew = 0, MoneyInv, LedgerInv, Commit
    PROVE  /\ Opened' = Opened /\ Protected' = Protected
           /\ \A a \in Accounts : /\ Shown[a] \in Int /\ Delta(a) \in Int
                                  /\ Shown'[a] = Shown[a] + Delta(a)
           /\ (Shown \in [Accounts -> Int])'
           /\ \A a \in Participants(quote.command) \cap Protected : Shown'[a] >= 0
<1>1. TypeOK /\ TypeOK' /\ AccountsKept /\ now' = now
    BY CommitKeeps
<1>2. quote.command.at \in Int /\ quote.command.at <= now /\ now \in Int
    BY <1>1, CommitKeepsLedger, TimeType
<1>3. PICK n : n = now
    OBVIOUS
<1>4. /\ quote.command \in Commands
      /\ quote.balances \in [Participants(quote.command) -> Int]
      /\ \A a \in Participants(quote.command) :
            /\ a \in Accounts /\ Exists(a) /\ Gain(a) \in Int
            /\ Outcome(quote.command, quote.balances)[a] \in Int
    BY QuotedOutcome DEF Commit, Reevaluated
<1>5. Opened' = Opened /\ Protected' = Protected
    BY <1>1 DEF AccountsKept, Opened, Protected
<1>6. ASSUME NEW a \in Accounts, Exists(a)
      PROVE  /\ Shown[a] = BalanceAt(a, n) /\ BalanceAt(a, n) \in Int /\ Delta(a) \in Int
             /\ Shown'[a] = BalanceAt(a, n) + Delta(a)
    <2>1. /\ Delta(a) \in Int /\ BalanceAt(a, n) \in Int
          /\ BalanceAt(a, n)' = BalanceAt(a, n) + Delta(a)
        BY <1>2, <1>3, <1>6, CommitMoves
    <2>2. BalanceAt(a, now)' = BalanceAt(a, n)' /\ BalanceAt(a, now) = BalanceAt(a, n)
        BY <1>1, <1>3, ShownNext
    <2>3. Exists(a)'
        BY <1>1, <1>6 DEF AccountsKept
    <2> QED
        BY <1>6, <2>1, <2>2, <2>3 DEF Shown
<1>7. ASSUME NEW a \in Accounts, ~Exists(a)
      PROVE  Shown[a] = 0 /\ Shown'[a] = 0 /\ Delta(a) = 0
    BY <1>1, <1>4, <1>7 DEF AccountsKept, Shown, Delta
<1>8. \A a \in Accounts : /\ Shown[a] \in Int /\ Delta(a) \in Int
                          /\ Shown'[a] = Shown[a] + Delta(a)
    BY <1>6, <1>7
<1>9. ASSUME NEW a \in Participants(quote.command), a \in Protected
      PROVE  Shown'[a] >= 0
    <2>1. Balances(quote.command) = quote.balances
        BY <1>4 DEF Commit, Reevaluated, SameFingerprint, Balances
    <2>2. Max({now, quote.command.at}) = n
        BY <1>2, <1>3, LaterOf
    <2>3. /\ Outcome(quote.command, quote.balances)[a] >= 0
          /\ quote.command.op = "RECONCILE" =>
                BalanceAt(a, n) + Outcome(quote.command, quote.balances)[a] - quote.balances[a] >= 0
        BY <1>9, <2>1, <2>2 DEF Commit, Reevaluated, PolicyAccepts, Protected
    <2>4. Delta(a) = Outcome(quote.command, quote.balances)[a] - quote.balances[a]
          /\ quote.balances[a] \in Int /\ Outcome(quote.command, quote.balances)[a] \in Int
        BY <1>4 DEF Delta, Gain
    <2>5. BalanceAt(a, n) \in Int /\ Shown'[a] = BalanceAt(a, n) + Delta(a)
        BY <1>4, <1>6
    <2>6. CASE quote.command.op = "RECONCILE"
        BY <2>3, <2>4, <2>5, <2>6
    <2>7. CASE quote.command.op # "RECONCILE"
        <3>1. quote.balances[a] = BalanceAt(a, n)
            BY <1>4, <2>1, <2>2, <2>7 DEF Balances, ReadAt
        <3> QED
            BY <2>3, <2>4, <2>5, <3>1
    <2> QED
        BY <2>6, <2>7
<1>10. (Shown \in [Accounts -> Int])'
    BY <1>1, ShownTypeNext
<1> QED
    BY <1>5, <1>8, <1>9, <1>10

TotalShown == Promised!TotalBalance = Sum(Shown, Accounts)

LEMMA TotalIsShown == TypeOK => TotalShown
<1> SUFFICES ASSUME TypeOK
             PROVE  Promised!TotalBalance = Sum(Shown, Accounts)
    BY DEF TotalShown
<1> DEFINE FoldsValues(h) == h = [s \in SUBSET Accounts |->
                                    IF s = {} THEN 0
                                    ELSE Shown[CHOOSE x \in s : TRUE]
                                           + h[s \ {CHOOSE x \in s : TRUE}]]
           fold == CHOOSE h : FoldsValues(h)
<1>1. Promised!TotalBalance = fold[Accounts]
    BY DEF Promised!TotalBalance, Promised!MapThenSumSet, Promised!MapThenFoldSet, Shown
<1>2. (\A x \in Accounts : Shown[x] \in Int) /\ IsFiniteSet(Accounts)
    BY ShownType, FiniteAssumption DEF FiniteAssumption
<1>3. \A h : FoldsValues(h) <=> Folds(h, Shown, Accounts)
    BY DEF Folds
<1>4. FoldsValues(fold)
    <2> HIDE DEF FoldsValues
    <2>1. \E h : FoldsValues(h)
        BY <1>2, <1>3, FoldSums
    <2> QED
        BY <2>1
<1> HIDE DEF fold, FoldsValues
<1>5. fold[Accounts] = Sum(Shown, Accounts)
    BY <1>2, <1>3, <1>4, FoldSums
<1> QED
    BY <1>1, <1>5

LEMMA TotalIsShownNext == TypeOK' => TotalShown'
BY TotalIsShown, PTL

\* A commit changes the total by what it announces.
LEMMA CommitTotal ==
    ASSUME Skew = 0, MoneyInv, LedgerInv, Commit, NEW d, NEW fee \in Int,
           \A a \in Accounts : d[a] = Delta(a), Sum(d, Accounts) = -fee
    PROVE  Promised!TotalBalance' = Promised!TotalBalance - fee
<1>1. PICK before : before = Shown
    OBVIOUS
<1>2. PICK after : after = Shown'
    OBVIOUS
<1>3. \A a \in Accounts : /\ before[a] \in Int /\ d[a] \in Int
                          /\ after[a] = before[a] + d[a]
    BY <1>1, <1>2, CommitShows
<1>4. Sum(after, Accounts) = Sum(before, Accounts) + Sum(d, Accounts)
    BY <1>3, FiniteAssumption, SumPlus DEF FiniteAssumption
<1>5. Sum(before, Accounts) \in Int
    BY <1>3, FiniteAssumption, SumBasics DEF FiniteAssumption
<1>6. Promised!TotalBalance = Sum(before, Accounts)
    BY <1>1, CommitKeeps, TotalIsShown DEF TotalShown
<1>7. Promised!TotalBalance' = Sum(after, Accounts)
    BY <1>2, CommitKeeps, TotalIsShownNext DEF TotalShown
<1> QED
    BY <1>4, <1>5, <1>6, <1>7

\* Money moves among the accounts of S.
LEMMA CommitRedistributes ==
    ASSUME Skew = 0, MoneyInv, LedgerInv, Commit, NEW d, NEW fee \in Amounts \cup {0},
           \A a \in Accounts : d[a] = Delta(a), Sum(d, Accounts) = -fee,
           NEW S, S \subseteq Participants(quote.command),
           \A a \in Accounts \ S : Delta(a) = 0 /\ Movements(a)' = Movements(a),
           \A a \in S : Movements(a)' # {}
    PROVE  Promised!Redistribute(S, fee)
<1>1. /\ Opened' = Opened /\ Protected' = Protected
      /\ \A a \in Accounts : /\ Shown[a] \in Int /\ Delta(a) \in Int
                             /\ Shown'[a] = Shown[a] + Delta(a)
      /\ (Shown \in [Accounts -> Int])'
      /\ \A a \in Participants(quote.command) \cap Protected : Shown'[a] >= 0
    BY CommitShows
<1>2. \A a \in S : a \in Accounts /\ Exists(a)
    BY QuotedOutcome DEF Commit, Reevaluated
<1>3. S \subseteq Opened
    BY <1>2 DEF Opened
<1>4. Used' = Used \cup S
    BY <1>2 DEF Used
<1>5. \A b \in Accounts \ S : Shown'[b] = Shown[b]
    BY <1>1
<1>6. fee \in Int
    BY AmountsAssumption DEF AmountsAssumption
<1>7. Promised!TotalBalance' = Promised!TotalBalance - fee
    BY <1>6, CommitTotal
<1> QED
    BY <1>1, <1>3, <1>4, <1>5, <1>7
    DEF Promised!Redistribute, Opened, Used, Protected, Shown

LEMMA TransferIsBankStep ==
    ASSUME Skew = 0, MoneyInv, LedgerInv, Commit,
           NEW s \in Ids, NEW d \in Ids, NEW f \in Ids \cup {NoId}, WriteTransfer(s, d, f)
    PROVE  Promised!BankNext
<1>1. PICK c : c = quote.command
    OBVIOUS
<1>2. /\ c.op = "TRANSFER" /\ c \in TransferCommands /\ c \in Commands
      /\ \A a \in Participants(c) : a \in Accounts /\ Exists(a)
      /\ \A a \in Accounts : TransferDelta(c, a) \in Int /\ Delta(a) = TransferDelta(c, a)
    <2>1. c.op = "TRANSFER"
        BY <1>1 DEF WriteTransfer
    <2>2. /\ c \in Commands
          /\ \A a \in Participants(c) : a \in Accounts /\ Exists(a)
          /\ \A a \in Accounts : TransferDelta(c, a) \in Int /\ Delta(a) = TransferDelta(c, a)
        BY <1>1, <2>1, QuotedOutcome DEF Commit, Reevaluated
    <2> QED
        BY <2>1, <2>2 DEF Commands, ReconciliationCommands, ReallocationCommands
<1>3. /\ c.source \in Accounts /\ c.destination \in Accounts /\ c.amount \in Amounts
      /\ c.amount \in Int
      /\ WithFee(c) => c.fee.account \in Accounts /\ c.fee.amount \in Amounts /\ c.fee.amount \in Int
    <2>1. \A x \in Amounts : x \in Int
        BY AmountsAssumption DEF AmountsAssumption
    <2>2. /\ c.source \in Accounts /\ c.destination \in Accounts /\ c.amount \in Amounts
          /\ WithFee(c) => c.fee.account \in Accounts /\ c.fee.amount \in Amounts
        BY <1>2 DEF TransferCommands, WithFee
    <2> QED
        BY <2>1, <2>2
<1> DEFINE fee == IF WithFee(c) THEN c.fee.amount ELSE 0
           to == [a \in Accounts |-> IF a = c.destination THEN c.amount ELSE 0]
           from == [a \in Accounts |-> IF a = c.source THEN -c.amount ELSE 0]
           charge == [a \in Accounts |-> IF WithFee(c) /\ a = c.fee.account THEN -fee ELSE 0]
           net == [a \in Accounts |-> to[a] + from[a]]
           delta == [a \in Accounts |-> Delta(a)]
<1>4. fee \in Amounts \cup {0} /\ fee \in Int
    BY <1>3
<1>5. \A a \in Accounts : /\ to[a] \in Int /\ from[a] \in Int /\ charge[a] \in Int
                          /\ net[a] \in Int /\ net[a] = to[a] + from[a]
                          /\ delta[a] = Delta(a) /\ delta[a] = net[a] + charge[a]
    BY <1>2, <1>3, <1>4 DEF TransferDelta
<1>6. /\ to[c.destination] = c.amount /\ \A a \in Accounts \ {c.destination} : to[a] = 0
      /\ from[c.source] = -c.amount /\ \A a \in Accounts \ {c.source} : from[a] = 0
      /\ WithFee(c) => /\ charge[c.fee.account] = -fee
                       /\ \A a \in Accounts \ {c.fee.account} : charge[a] = 0
      /\ ~WithFee(c) => fee = 0 /\ \A a \in Accounts : charge[a] = 0
    BY <1>3
<1>7. IsFiniteSet(Accounts)
    BY FiniteAssumption DEF FiniteAssumption
<1> HIDE DEF fee, to, from, charge, net, delta
<1>8. Sum(to, Accounts) = c.amount
    BY <1>3, <1>5, <1>6, <1>7, SumAtOne
<1>9. Sum(from, Accounts) = -c.amount
    BY <1>3, <1>5, <1>6, <1>7, SumAtOne
<1>10. Sum(charge, Accounts) = -fee
    <2>1. CASE WithFee(c)
        BY <1>3, <1>5, <1>6, <1>7, <2>1, SumAtOne
    <2>2. CASE ~WithFee(c)
        BY <1>6, <1>7, <2>2, SumOfZeros
    <2> QED
        BY <2>1, <2>2
<1>11. Sum(net, Accounts) = Sum(to, Accounts) + Sum(from, Accounts)
    BY <1>5, <1>7, SumPlus
<1>12. Sum(delta, Accounts) = Sum(net, Accounts) + Sum(charge, Accounts)
    BY <1>5, <1>7, SumPlus
<1>13. Sum(delta, Accounts) = -fee
    BY <1>3, <1>4, <1>8, <1>9, <1>10, <1>11, <1>12
<1>14. /\ Inv /\ TypeOK' /\ AccountsKept
       /\ quote.command.at \in Int /\ quote.command.at <= now
    BY CommitKeeps, CommitKeepsLedger DEF MoneyInv
<1>15. \A a \in Participants(c) : Movements(a)' # {}
    <2> SUFFICES ASSUME NEW a \in Participants(c)
                 PROVE  Movements(a)' # {}
        OBVIOUS
    <2>1. a \in Accounts /\ Exists(a)
        BY <1>2
    <2>2. PICK n : n = now
        OBVIOUS
    <2>3. a \in Participants(quote.command) => Movements(a)' # {}
        BY <1>1, <1>2, <1>14, <2>1, <2>2, TransferMoves
    <2> QED
        BY <1>1, <2>3
<1>16. \A a \in Accounts \ Participants(c) : Delta(a) = 0 /\ Movements(a)' = Movements(a)
    <2> SUFFICES ASSUME NEW a \in Accounts, a \notin Participants(c)
                 PROVE  Delta(a) = 0 /\ Movements(a)' = Movements(a)
        OBVIOUS
    <2>1. \A i \in Ids : tx'[i] # tx[i] => tx[i] = NoRow /\ tx'[i].account \in Participants(c)
        BY <1>1, CommitDates
    <2>2. Movements(a)' = Movements(a)
        BY <2>1 DEF Movements, Counts, NoRow
    <2> QED
        BY <1>1, <2>2 DEF Delta
<1>17. Participants(c) \subseteq Participants(quote.command)
    BY <1>1
<1>18. Promised!Redistribute(Participants(c), fee)
    BY <1>4, <1>5, <1>13, <1>15, <1>16, <1>17, CommitRedistributes
<1>19. Participants(c) \in SUBSET Accounts
    BY <1>2
<1> QED
    BY <1>4, <1>18, <1>19 DEF Promised!BankNext

LEMMA ReconciliationIsBankStep ==
    ASSUME Skew = 0, MoneyInv, LedgerInv, Commit, NEW i \in Ids, WriteReconciliation(i)
    PROVE  Promised!BankNext
<1> DEFINE c == quote.command
           delta == c.actual - quote.balances[c.account]
           row == IF delta > 0
                  THEN Movement("RECONCILIATION_ADJUSTMENT", "INFLOW", c.account, delta, c.at)
                  ELSE Movement("RECONCILIATION_ADJUSTMENT", "OUTFLOW", c.account, -delta, c.at)
           rows == [j \in {i} |-> row]
<1>1. c.op = "RECONCILE" /\ Insert(rows)
    BY DEF WriteReconciliation
<1>2. /\ row.status = "POSTED" /\ rows[i] = row /\ DOMAIN rows = {i} /\ row.effect \in Effects
      /\ row.effect = "OUTFLOW" => row.amount = -delta
      /\ row.account = c.account /\ row.at = c.at
    <2> HIDE DEF delta, c
    <2> QED
        BY DEF Movement
<1> HIDE DEF rows, row
<1>3. /\ TypeOK /\ TypeOK' /\ AccountsKept /\ now' = now
      /\ quote.command.at \in Int /\ quote.command.at <= now
    BY CommitKeeps, CommitKeepsLedger
<1>4. Adds({i}) /\ tx'[i] = row /\ row.amount \in Amounts
    BY <1>1, <1>2, <1>3, InsertAdds
<1>5. PICK x : x = row.amount
    OBVIOUS
<1>6. PICK a : a = c.account
    OBVIOUS
<1>7. a \in Participants(c) /\ a \in Accounts /\ Exists(a)
    <2>1. a \in Participants(c)
        BY <1>1, <1>6 DEF Participants
    <2> QED
        BY <2>1, QuotedOutcome DEF Commit, Reevaluated
<1>8. Counts(i)'
    BY <1>2, <1>4 DEF Counts
<1>9. tx'[i].account = a /\ tx'[i].at <= now /\ tx'[i].amount = x /\ tx'[i].effect \in Effects
      /\ x \in Amounts
    BY <1>2, <1>3, <1>4, <1>5, <1>6
<1>10. ASSUME tx'[i].effect = "OUTFLOW", ~acct[a].allowNegative
       PROVE  BalanceAt(a, now) >= x
    <2>1. a \in Participants(quote.command) \cap Protected
        BY <1>7, <1>10 DEF Protected
    <2>2. Shown'[a] >= 0 /\ Shown[a] \in Int /\ Delta(a) \in Int /\ Shown'[a] = Shown[a] + Delta(a)
        BY <1>7, <2>1, CommitShows
    <2>3. Delta(a) = delta
        <3>1. DOMAIN quote.balances = {a}
            BY <1>1, <1>6, QuotedOutcome DEF Participants, Commit, Reevaluated
        <3> QED
            BY <1>1, <1>6, <1>7, <3>1 DEF Delta, Gain, Outcome
    <2>4. Shown[a] = BalanceAt(a, now)
        BY <1>7 DEF Shown
    <2>5. x = -delta
        BY <1>2, <1>4, <1>5, <1>10
    <2> HIDE DEF delta
    <2> QED
        BY <2>2, <2>3, <2>4, <2>5
<1>11. Promised!Deposit(a, x) \/ Promised!Withdraw(a, x)
    BY <1>3, <1>4, <1>7, <1>8, <1>9, <1>10, OneAddedIsBankStep
<1> QED
    BY <1>7, <1>9, <1>11 DEF Promised!BankNext

LEMMA ReallocationIsBankStep ==
    ASSUME Skew = 0, MoneyInv, LedgerInv, Commit, WriteReallocation
    PROVE  Promised!BankNext
<1>1. PICK c : c = quote.command
    OBVIOUS
<1>2. /\ c.op = "REALLOCATE" /\ c \in Commands /\ WellFormed(c)
      /\ quote.balances \in [Participants(c) -> Int]
      /\ \A a \in Participants(c) : a \in Accounts /\ Exists(a)
    BY <1>1, QuotedOutcome DEF WriteReallocation, Commit, Reevaluated
<1>3. Participants(c) = c.accounts /\ c.balancing \in c.accounts /\ Changed \subseteq c.accounts
      /\ c.balancing \notin Changed
    BY <1>1, <1>2, CommandFields DEF Participants, Changed
<1>4. /\ \A a \in c.accounts : Gain(a) \in Int
      /\ \A a \in c.accounts \ (Changed \cup {c.balancing}) : Gain(a) = 0
      /\ Gain(c.balancing) = -Sum(Gains, Changed)
    <2>1. /\ \A a \in quote.command.accounts : Gain(a) \in Int
          /\ \A a \in quote.command.accounts \ (Changed \cup {quote.command.balancing}) :
                 Gain(a) = 0
          /\ Gain(quote.command.balancing) = -Sum(Gains, Changed)
        BY <1>1, <1>2, ReallocationGains
    <2> QED
        BY <1>1, <2>1
<1> DEFINE S == Changed \cup {c.balancing}
           gain == [a \in Accounts |-> IF a \in Changed THEN Gain(a) ELSE 0]
           rest == [a \in Accounts |-> IF a = c.balancing THEN Gain(a) ELSE 0]
           delta == [a \in Accounts |-> Delta(a)]
<1>5. IsFiniteSet(Accounts) /\ Changed \in SUBSET Accounts /\ IsFiniteSet(Changed)
      /\ c.balancing \in Accounts
    <2>1. Changed \in SUBSET Accounts /\ c.balancing \in Accounts
        BY <1>2, <1>3
    <2> QED
        BY <2>1, FiniteAssumption, FS_Subset DEF FiniteAssumption
<1>6. \A a \in Accounts \ S : Delta(a) = 0
    BY <1>1, <1>3, <1>4 DEF Delta
<1>7. \A a \in Accounts : /\ gain[a] \in Int /\ rest[a] \in Int
                          /\ delta[a] = Delta(a) /\ delta[a] = gain[a] + rest[a]
    BY <1>1, <1>3, <1>4, <1>6 DEF Delta
<1>8. /\ \A a \in Accounts \ Changed : gain[a] = 0
      /\ \A a \in Changed : gain[a] = Gains[a] /\ Gains[a] \in Int
      /\ rest[c.balancing] = -Sum(Gains, Changed)
      /\ \A a \in Accounts \ {c.balancing} : rest[a] = 0
    BY <1>3, <1>4, <1>5 DEF Gains
<1> HIDE DEF gain, rest, delta
<1>9. Sum(gain, Accounts) = Sum(gain, Changed)
    BY <1>5, <1>7, <1>8, SumZeros
<1>10. Sum(gain, Changed) = Sum(Gains, Changed)
    BY <1>5, <1>8, SumAgree
<1>11. Sum(rest, Accounts) = rest[c.balancing]
    BY <1>5, <1>7, <1>8, SumAtOne
<1>12. Sum(delta, Accounts) = Sum(gain, Accounts) + Sum(rest, Accounts)
    BY <1>5, <1>7, SumPlus
<1>13. Sum(Gains, Changed) \in Int
    BY <1>5, <1>8, SumBasics
<1>14. Sum(delta, Accounts) = -0
    BY <1>8, <1>9, <1>10, <1>11, <1>12, <1>13
<1>15. /\ Inv /\ TypeOK' /\ AccountsKept
       /\ quote.command.at \in Int /\ quote.command.at <= now
    BY CommitKeeps, CommitKeepsLedger DEF MoneyInv
<1>16. ASSUME NEW a \in Accounts, Exists(a)
       PROVE  /\ a \in S => Movements(a)' # {}
              /\ a \notin S => Movements(a)' = Movements(a)
    <2>1. PICK n : n = now
        OBVIOUS
    <2>2. \A b \in Changed : Gain(b) \in Int
        BY <1>3, <1>4
    <2>3. /\ a \in Changed \cup {quote.command.balancing} => Movements(a)' # {}
          /\ a \notin Changed \cup {quote.command.balancing} => Movements(a)' = Movements(a)
        BY <1>1, <1>2, <1>15, <1>16, <2>1, <2>2, ReallocationMoves
    <2> QED
        BY <1>1, <2>3
<1>17. ASSUME NEW a \in Accounts, ~Exists(a)
       PROVE  Movements(a)' = Movements(a) /\ a \notin S
    <2>1. a \notin Participants(c)
        BY <1>2, <1>17
    <2>2. \A i \in Ids : tx'[i] # tx[i] => tx[i] = NoRow /\ tx'[i].account \in Participants(c)
        BY <1>1, CommitDates
    <2>3. Movements(a)' = Movements(a)
        BY <2>1, <2>2 DEF Movements, Counts, NoRow
    <2> QED
        BY <1>3, <2>1, <2>3
<1>18. S \subseteq Participants(quote.command) /\ S \in SUBSET Accounts
    BY <1>1, <1>3, <1>5
<1>19. \A a \in Accounts \ S : Delta(a) = 0 /\ Movements(a)' = Movements(a)
    BY <1>6, <1>16, <1>17
<1>20. \A a \in S : Movements(a)' # {}
    BY <1>16, <1>17, <1>18
<1>21. 0 \in Amounts \cup {0} /\ \A a \in Accounts : delta[a] = Delta(a)
    BY <1>7
<1> HIDE DEF S
<1>22. Promised!Redistribute(S, 0)
    BY <1>14, <1>18, <1>19, <1>20, <1>21, CommitRedistributes
<1> QED
    BY <1>18, <1>21, <1>22 DEF Promised!BankNext

MoneyLedgerInv == MoneyInv /\ LedgerInv

\* Every step is a step of the bank, or none.
LEMMA OperationIsBankStep ==
    ASSUME Skew = 0, MoneyLedgerInv, [FNext]_fvars
    PROVE  MoneyLedgerInv' /\ [Promised!BankNext]_(Promised!bank)
<1>1. MoneyInv'
    BY MoneyStep DEF MoneyLedgerInv
<1>2. CASE [Next]_vars
    BY <1>1, <1>2, LedgerIsBankStep DEF MoneyLedgerInv
<1>3. CASE Commit
    <2>1. LedgerInv'
        BY <1>3, CommitKeepsLedger DEF MoneyLedgerInv
    <2>2. Promised!BankNext
        BY <1>3, TransferIsBankStep, ReconciliationIsBankStep, ReallocationIsBankStep
        DEF Commit, MoneyLedgerInv
    <2> QED
        BY <1>1, <2>1, <2>2 DEF MoneyLedgerInv
<1> QED
    BY <1>2, <1>3 DEF FNext, StartPreview, FinishPreview, AbandonPreview, fvars, vars

LEMMA AccountsOpenInit ==
    ASSUME FInit
    PROVE  MoneyLedgerInv /\ Promised!BankInit
<1>1. MoneyInv /\ TypeOK
    BY MoneyInit DEF MoneyInv, Inv
<1>2. /\ \A i \in Ids : ~Counts(i)
      /\ \A a \in Accounts : acct[a].allowNegative \/ acct[a].opening >= 0
    BY DEF FInit, Counts, NoRow
<1>3. LedgerInv
    BY <1>1, <1>2 DEF LedgerInv, MovementsAfterOpening, NothingAhead
<1>4. \A a \in Accounts : Movements(a) = {}
    BY <1>2 DEF Movements
<1>5. ASSUME NEW a \in Accounts, Exists(a), ~acct[a].allowNegative
      PROVE  BalanceAt(a, now) >= 0
    <2>1. PICK n : n = now
        OBVIOUS
    <2> DEFINE w == Weight(a, n)
    <2>2. \A i \in Ids : w[i] = 0
        BY <1>2 DEF Weight
    <2>3. BalanceAt(a, n) = acct[a].opening + Sum(w, Ids)
        BY <1>1, BalanceIsSum DEF BalancesAreSums
    <2> HIDE DEF w
    <2>4. Sum(w, Ids) = 0
        BY <2>2, FiniteAssumption, SumOfZeros DEF FiniteAssumption
    <2>5. acct[a].opening \in Int /\ acct[a].opening >= 0
        BY <1>1, <1>2, <1>5, OpeningType
    <2> QED
        BY <2>1, <2>3, <2>4, <2>5
<1>6. Shown \in [Accounts -> Int]
    BY <1>1, ShownType
<1>7. Promised!BankInit
    BY <1>4, <1>5, <1>6
    DEF Promised!BankInit, Promised!BankTypeOK, Promised!Solvent, Shown
<1> QED
    BY <1>1, <1>3, <1>7 DEF MoneyLedgerInv

\* Seen through its balances, the ledger with its transfers, reconciliations and
\* reallocations is a bank: a commit of several rows is one movement of money.
THEOREM OperationsAreBank ==
    ASSUME Skew = 0
    PROVE  FSpec => ImplementsBank
BY AccountsOpenInit, OperationIsBankStep, PTL DEF FSpec, ImplementsBank, Promised!BankSpec

\* No commit of a transfer, a reconciliation or a reallocation leaves an account
\* that does not allow it below zero, whatever its preview was shown.
THEOREM BalancesNonNegativeWithCommits ==
    ASSUME Skew = 0
    PROVE  FSpec => []NonNegative
<1>1. FSpec => Promised!BankSpec
    BY OperationsAreBank DEF ImplementsBank
<1>2. Promised!BankSpec => []Promised!Solvent
    BY Promised!BankSolvent, AmountsAssumption DEF AmountsAssumption
<1> QED
    BY <1>1, <1>2, SolventMeansNonNegative, PTL

\* No movement is dated before its account was opened, those of commits included.
THEOREM OpeningRespectedByCommits == FSpec => []MovementsAfterOpening
<1>1. MoneyInv /\ MovementsAfterOpening /\ [FNext]_fvars => MovementsAfterOpening'
    <2> SUFFICES ASSUME MoneyInv, MovementsAfterOpening, [FNext]_fvars
                 PROVE  MovementsAfterOpening'
        OBVIOUS
    <2>1. CASE [Next]_vars
        BY <2>1, OpeningStep DEF MoneyInv, Inv
    <2>2. CASE Commit
        BY <2>2, CommitKeepsOpening
    <2> QED
        BY <2>1, <2>2 DEF FNext, StartPreview, FinishPreview, AbandonPreview, fvars, vars
<1>2. FInit => MovementsAfterOpening
    BY DEF FInit, MovementsAfterOpening, Counts, NoRow
<1> QED
    BY <1>1, <1>2, MoneyInit, MoneyStep, PTL DEF FSpec

-----------------------------------------------------------------------------
(* Reversals *)

LEMMA CommitKeepsReversals ==
    ASSUME MoneyInv, ReversalInv, Commit
    PROVE  ReversalInv'
<1>1. \A i \in Ids : \/ tx'[i] = tx[i]
                     \/ /\ tx[i] = NoRow
                        /\ tx'[i].status = "POSTED" /\ tx'[i].reversalOf = NoId
    <2>1. PICK S : Writes(S)
        BY CommitWrites DEF MoneyInv
    <2> QED
        BY <2>1, CommitDates DEF Writes, SideOrAdjustment
<1>2. \A r, o \in Ids : Reverses(r, o) => Offsets(r, o) /\ tx[r] # NoRow /\ tx[o] # NoRow
    BY DEF ReversalInv, ReversalCoherent, Offsets, NoRow, Reverses
<1>3. \A r, o \in Ids : Reverses(r, o)' <=> Reverses(r, o)
    BY <1>1, IdsAssumption DEF Reverses, IdsAssumption
<1>4. \A r, o \in Ids : Reverses(r, o) => tx'[r] = tx[r] /\ tx'[o] = tx[o]
    BY <1>1, <1>2
<1>5. \A r, o \in Ids : Reverses(r, o)' => Offsets(r, o)' /\ tx'[r].kind = "REVERSAL"
    BY <1>2, <1>3, <1>4 DEF Offsets, ReversalInv
<1>6. \A o \in Ids : tx'[o].status = "REVERSED" => \E r \in Ids : Reverses(r, o)'
    BY <1>1, <1>3 DEF ReversalInv, ReversalCoherent
<1>7. \A o, r, q \in Ids : Reverses(r, o)' /\ Reverses(q, o)' => r = q
    BY <1>3 DEF ReversalInv, ReversalCoherent
<1> QED
    BY <1>5, <1>6, <1>7 DEF ReversalInv, ReversalCoherent

\* Reversals stay coherent among transfers, reconciliations and reallocations.
THEOREM ReversalsCoherentWithCommits == FSpec => []ReversalCoherent
<1>1. FInit => ReversalInv
    BY DEF FInit, ReversalInv, ReversalCoherent, Reverses, NoRow
<1>2. MoneyInv /\ ReversalInv /\ [FNext]_fvars => ReversalInv'
    <2> SUFFICES ASSUME MoneyInv, ReversalInv, [FNext]_fvars
                 PROVE  ReversalInv'
        OBVIOUS
    <2>1. CASE [Next]_vars
        BY <2>1, ReversalStep DEF MoneyInv, Inv
    <2>2. CASE Commit
        BY <2>2, CommitKeepsReversals
    <2> QED
        BY <2>1, <2>2 DEF FNext, StartPreview, FinishPreview, AbandonPreview, fvars, vars
<1>3. ReversalInv => ReversalCoherent
    BY DEF ReversalInv
<1> QED
    BY <1>1, <1>2, <1>3, MoneyInit, MoneyStep, PTL DEF FSpec

-----------------------------------------------------------------------------
(* Periods add up *)

PlainKinds == CoreKinds \cup {"REVERSAL", "RECONCILIATION_ADJUSTMENT"} \cup TransferKinds

\* What the dashboard needs of the rows.
CountInv ==
    /\ KindsTellEffects
    /\ \A i \in Ids : tx[i] # NoRow => tx[i].kind \in PlainKinds

\* The two sides of every transfer cancel out.
LEMMA PrincipalCancels ==
    ASSUME PairInv, CountInv, NEW from, NEW to
    PROVE  Sum(SignedOf, {i \in InPeriod(from, to) : tx[i].kind \in Principal}) = 0
<1> DEFINE S == InPeriod(from, to)
           O == {i \in S : tx[i].kind = "TRANSFER_OUT"}
           I == {i \in S : tx[i].kind = "TRANSFER_IN"}
           group(i) == CHOOSE g \in transfers :
                          i \in Members(g) /\ \A h \in transfers \ {g} : i \notin Members(h)
           other == [o \in O |-> group(o).destination]
           minus == [o \in O |-> -SignedOf[o]]
<1>1. TypeOK /\ TransfersPaired /\ transfers \subseteq Transfer
    BY DEF PairInv, Inv
<1>2. \A i \in S : /\ i \in Ids /\ Counts(i) /\ tx[i] # NoRow /\ tx[i] \in Row
                   /\ tx[i].kind \in PlainKinds
    BY <1>1, CountedRow DEF InPeriod, CountedBefore, CountInv
<1>3. {i \in S : tx[i].kind \in Principal} = O \cup I /\ O \cap I = {}
    BY <1>2 DEF PlainKinds, TransferKinds, Principal
<1>4. ASSUME NEW i \in O \cup I
      PROVE  /\ group(i) \in transfers /\ i \in Members(group(i))
             /\ \A h \in transfers : i \in Members(h) => h = group(i)
    <2>1. i \in Ids /\ tx[i] # NoRow /\ tx[i].kind \in TransferKinds
        BY <1>2 DEF TransferKinds
    <2> QED
        BY <1>1, <2>1 DEF TransfersPaired
<1>5. ASSUME NEW g \in transfers
      PROVE  /\ g.source \in Ids /\ g.destination \in Ids
             /\ Counts(g.source) /\ Counts(g.destination)
             /\ tx[g.source].kind = "TRANSFER_OUT" /\ tx[g.source].effect = "OUTFLOW"
             /\ tx[g.destination].kind = "TRANSFER_IN" /\ tx[g.destination].effect = "INFLOW"
             /\ tx[g.source].amount = tx[g.destination].amount
             /\ tx[g.source].at = tx[g.destination].at
             /\ g.fee \in Ids => tx[g.fee].kind = "TRANSFER_FEE"
    BY <1>1, IdsAssumption DEF TransfersPaired, Paired, Transfer, Counts, IdsAssumption
<1> HIDE DEF group
<1>6. ASSUME NEW o \in O
      PROVE  /\ group(o).source = o /\ group(o).destination \in I
             /\ SignedOf[group(o).destination] = -SignedOf[o]
    <2>1. PICK g \in transfers : g = group(o) /\ o \in Members(g)
        BY <1>4
    <2>2. o \in Ids /\ tx[o].kind = "TRANSFER_OUT"
        BY <1>2
    <2>3. g.source = o
        BY <1>5, <2>1, <2>2 DEF Members
    <2>4. g.destination \in I
        BY <1>5, <2>3 DEF InPeriod, CountedBefore
    <2>5. SignedOf[g.destination] = tx[o].amount /\ SignedOf[o] = -tx[o].amount
          /\ tx[o].amount \in Int
        BY <1>1, <1>2, <1>5, <2>3, CountedRow DEF SignedOf, Signed
    <2> QED
        BY <2>1, <2>3, <2>4, <2>5
<1>7. ASSUME NEW i \in I
      PROVE  /\ group(i).source \in O /\ group(i).destination = i
             /\ group(group(i).source) = group(i)
    <2>1. PICK g \in transfers : g = group(i) /\ i \in Members(g)
        BY <1>4
    <2>2. i \in Ids /\ tx[i].kind = "TRANSFER_IN"
        BY <1>2
    <2>3. g.destination = i
        BY <1>5, <2>1, <2>2 DEF Members
    <2>4. g.source \in O
        BY <1>5, <2>3 DEF InPeriod, CountedBefore
    <2>5. group(g.source) = g
        BY <1>4, <2>4 DEF Members
    <2> QED
        BY <2>1, <2>3, <2>4, <2>5
<1>8. other \in [O -> I]
    BY <1>6
<1>9. \A x, y \in O : other[x] = other[y] => x = y
    <2> SUFFICES ASSUME NEW x \in O, NEW y \in O, other[x] = other[y]
                 PROVE  x = y
        OBVIOUS
    <2>1. group(x) \in transfers /\ group(y) \in transfers
          /\ group(x).destination = group(y).destination /\ group(x).destination \in I
        BY <1>4, <1>6
    <2>2. group(x) = group(group(x).destination) /\ group(y) = group(group(x).destination)
        BY <1>4, <2>1 DEF Members
    <2> QED
        BY <1>6, <2>2
<1>10. {other[o] : o \in O} = I
    <2>1. ASSUME NEW i \in I
          PROVE  i \in {other[o] : o \in O}
        BY <1>7
    <2>2. ASSUME NEW o \in O
          PROVE  other[o] \in I
        BY <1>8
    <2> HIDE DEF O, I, other
    <2> QED
        BY <2>1, <2>2
<1>11. IsFiniteSet(O) /\ IsFiniteSet(I)
    <2>1. O \subseteq Ids /\ I \subseteq Ids
        BY <1>2
    <2> QED
        BY <2>1, FiniteAssumption, FS_Subset DEF FiniteAssumption
<1>12. \A i \in O \cup I : SignedOf[i] \in Int
    BY <1>1, <1>2, CountedRow DEF SignedOf
<1>13. \A o \in O : minus[o] = SignedOf[other[o]] /\ SignedOf[other[o]] \in Int
    BY <1>6, <1>12
<1>14. \A o \in O : SignedOf[o] \in Int /\ minus[o] = -SignedOf[o]
    BY <1>12
<1> HIDE DEF O, I, other, minus
<1>15. Sum(minus, O) = Sum(SignedOf, I)
    <2>1. Sum(minus, O) = Sum(SignedOf, {other[o] : o \in O})
        BY <1>8, <1>9, <1>11, <1>13, SumRenamed
    <2> QED
        BY <1>10, <2>1
<1>16. Sum(minus, O) = -Sum(SignedOf, O)
    BY <1>11, <1>14, SumMinus
<1>17. Sum(SignedOf, O \cup I) = Sum(SignedOf, O) + Sum(SignedOf, I)
    BY <1>3, <1>11, <1>12, SumOfUnion
<1>18. Sum(SignedOf, O) \in Int
    <2>1. O \in SUBSET O
        OBVIOUS
    <2> QED
        BY <1>11, <1>14, <2>1, SumBasics
<1>19. Sum(SignedOf, O \cup I) = 0
    BY <1>15, <1>16, <1>17, <1>18
<1> QED
    BY <1>3, <1>19

LEMMA CountedAddsUp ==
    ASSUME PairInv, CountInv, MovementsAfterOpening
    PROVE  PeriodAddsUp
<1> SUFFICES ASSUME NEW from \in 0 .. MaxNow + Skew + 1, NEW to \in 0 .. MaxNow + Skew + 1,
                    from < to
             PROVE  /\ MoneyInAccounts(to) - MoneyInAccounts(from)
                         = OpeningTotal(from, to) + Income(from, to) - GrossSpending(from, to)
                             + ReconciliationAdjustments(from, to)
                    /\ MoneyInAccounts(to) - MoneyInAccounts(from)
                         = OpeningTotal(from, to) + CashFlow(from, to)
                             + ReconciliationAdjustments(from, to)
    BY DEF PeriodAddsUp
<1>1. from \in Int /\ to \in Int /\ 0 <= from
    BY BoundsAssumption DEF BoundsAssumption
<1>2. TypeOK /\ KindsTellEffects
    BY DEF PairInv, Inv, CountInv
<1>3. Sum(SignedOf, {i \in InPeriod(from, to) : tx[i].kind \in Principal}) = 0
    BY PrincipalCancels
<1> QED
    BY <1>1, <1>2, <1>3, PeriodExplained

LEMMA CommitKeepsKinds ==
    ASSUME MoneyInv, CountInv, Commit
    PROVE  CountInv'
<1>1. \A i \in Ids : \/ tx'[i] = tx[i]
                     \/ tx[i] = NoRow /\ Counts(i)' /\ SideOrAdjustment(tx'[i])
    BY CommitDates
<1>2. \A i \in Ids : tx[i].status = "REVERSED" => tx'[i] = tx[i]
    BY <1>1 DEF NoRow
<1>3. ASSUME NEW i \in Ids, SideOrAdjustment(tx'[i])
      PROVE  KindTellsEffect(i)' /\ tx'[i].kind \in PlainKinds
    BY <1>3 DEF SideOrAdjustment, KindTellsEffect, Inflows, Outflows, PlainKinds, TransferKinds
<1>4. KindsTellEffects'
    BY <1>1, <1>2, <1>3, KindsKept DEF CountInv
<1> QED
    BY <1>1, <1>3, <1>4 DEF CountInv

LEMMA CountStep ==
    ASSUME MoneyInv, CountInv, [FNext]_fvars
    PROVE  CountInv'
<1>1. CASE [Next]_vars
    BY <1>1, LedgerKeepsKinds DEF MoneyInv, Inv, CountInv, PlainKinds
<1>2. CASE Commit
    BY <1>2, CommitKeepsKinds
<1> QED
    BY <1>1, <1>2 DEF FNext, StartPreview, FinishPreview, AbandonPreview, fvars, vars

\* Over every period the dashboard adds up, whatever was posted, reversed, transferred,
\* reconciled and reallocated: its totals, each computed apart, explain what the
\* balances gained.
THEOREM PeriodsAddUp == FSpec => []PeriodAddsUp
<1>1. FInit => CountInv
    BY DEF FInit, CountInv, KindsTellEffects, KindTellsEffect, NoRow
<1>2. FSpec => []CountInv
    BY <1>1, MoneyInit, MoneyStep, CountStep, PTL DEF FSpec
<1>3. FInit => PairInv
    BY InvInit DEF FInit, PairInv, DraftsAreCore, TransfersPaired, NoRow
<1> QED
    BY <1>2, <1>3, PairStep, OpeningRespectedByCommits, CountedAddsUp, PTL DEF FSpec

-----------------------------------------------------------------------------
(* The database accepts what the services write *)

\* What the triggers of the transfers ask of every state.
LinksAccepted ==
    /\ \A i \in Ids : tx[i] # NoRow => LinkRequired(i)
    /\ \A g \in transfers : TransferGroupValid(g)

LEMMA PairedIsAccepted == PairInv /\ CountInv => LinksAccepted
<1> SUFFICES ASSUME PairInv, CountInv
             PROVE  LinksAccepted
    OBVIOUS
<1>1. ASSUME NEW g \in transfers
      PROVE  /\ g.source \in Ids /\ g.destination \in Ids /\ g.fee \in Ids \cup {NoId}
             /\ Paired(g)
             /\ g.fee # NoId => tx[g.fee].effect = "OUTFLOW"
    <2>1. /\ g.source \in Ids /\ g.destination \in Ids /\ g.fee \in Ids \cup {NoId}
          /\ Paired(g)
        BY DEF PairInv, TransfersPaired, Transfer
    <2>2. g.fee # NoId => tx[g.fee] # NoRow /\ KindTellsEffect(g.fee)
        BY <2>1 DEF Paired, NoRow, CountInv, KindsTellEffects
    <2> QED
        BY <2>1, <2>2 DEF KindTellsEffect, Outflows, Paired
<1>2. ASSUME NEW i \in Ids, tx[i] # NoRow
      PROVE  LinkRequired(i)
    <2> SUFFICES ASSUME tx[i].kind \in TransferKinds
                 PROVE  LinkRequired(i)
        BY DEF LinkRequired, TransferKinds
    <2>1. PICK g \in transfers : i \in Members(g)
        BY <1>2 DEF PairInv, TransfersPaired
    <2>2. /\ Paired(g) /\ g.fee \in Ids \cup {NoId}
          /\ i \in {g.source, g.destination, g.fee} /\ i # NoId
        BY <1>1, <2>1, IdsAssumption DEF Members, IdsAssumption
    <2>3. /\ tx[i].kind = "TRANSFER_OUT" => g.source = i
          /\ tx[i].kind = "TRANSFER_IN" => g.destination = i
          /\ tx[i].kind = "TRANSFER_FEE" => g.fee = i
        BY <2>2 DEF Paired
    <2> QED
        BY <2>2, <2>3 DEF LinkRequired, Paired
<1>3. ASSUME NEW g \in transfers
      PROVE  TransferGroupValid(g)
    BY <1>1, <1>3 DEF TransferGroupValid, Paired, Counts
<1> QED
    BY <1>2, <1>3 DEF LinksAccepted

LEMMA PairedIsAcceptedNext == PairInv' /\ CountInv' => LinksAccepted'
BY PairedIsAccepted, PTL

\* A row that changed is there.
LEMMA ChangedIsWritten ==
    ASSUME MoneyInv, [FNext]_fvars, NEW i \in Ids, tx'[i] # tx[i]
    PROVE  tx'[i] # NoRow
<1>1. CASE [Next]_vars
    BY <1>1, RowStep DEF MoneyInv, Inv, RowMoves
<1>2. CASE Commit
    BY <1>2, CommitDates DEF Counts, NoRow
<1> QED
    BY <1>1, <1>2 DEF FNext, StartPreview, FinishPreview, AbandonPreview, fvars, vars

\* The policy a commit evaluates again is that of the balances its preview showed.
LEMMA CommitIsAllowed ==
    ASSUME MoneyInv, Commit
    PROVE  /\ Balances(quote.command) = quote.balances
           /\ \A a \in Participants(quote.command) :
                 \/ acct'[a].allowNegative
                 \/ Outcome(quote.command, quote.balances)[a] >= 0
<1>1. Reevaluated /\ quote.phase = "QUOTED"
    BY DEF Commit, Reevaluated
<1>2. /\ quote.balances \in [Participants(quote.command) -> Int]
      /\ \A a \in Participants(quote.command) : a \in Accounts /\ Exists(a)
    BY <1>1, QuotedOutcome
<1>3. Balances(quote.command) = quote.balances
    BY <1>1, <1>2 DEF Balances, Reevaluated, SameFingerprint
<1>4. \A a \in Participants(quote.command) :
         acct[a].allowNegative \/ Outcome(quote.command, quote.balances)[a] >= 0
    BY <1>1, <1>3 DEF Reevaluated, PolicyAccepts
<1>5. AccountsKept
    BY CommitKeeps
<1> QED
    BY <1>2, <1>3, <1>4, <1>5 DEF AccountsKept

LEMMA AdjustmentAccepted ==
    ASSUME MoneyInv, Commit, quote.command.op = "RECONCILE", NEW command, command = quote.command,
           NEW delta, delta = command.actual - quote.balances[command.account]
    PROVE  \E i \in Ids : tx[i] = NoRow /\ ReconciliationGroupValid(i, command, delta)'
<1>1. PICK i \in Ids : WriteReconciliation(i)
    BY DEF Commit, WriteTransfer, WriteReallocation
<1>2. /\ command \in Commands /\ quote.balances \in [Participants(command) -> Int]
      /\ Participants(command) = {command.account}
    BY <1>1, QuotedOutcome DEF Commit, Reevaluated, Participants
<1>3. command.actual \in Int
    <2>1. command.actual \in Targets
        BY <1>2
        DEF Commands, TransferCommands, ReconciliationCommands, ReallocationCommands
    <2>2. \A x \in Targets : x \in Int
        BY TargetsAssumption DEF TargetsAssumption
    <2> QED
        BY <2>1, <2>2
<1>4. delta \in Int /\ delta # 0
    BY <1>1, <1>2, <1>3 DEF WriteReconciliation
<1> DEFINE row == IF delta > 0
                  THEN Movement("RECONCILIATION_ADJUSTMENT", "INFLOW", command.account, delta, command.at)
                  ELSE Movement("RECONCILIATION_ADJUSTMENT", "OUTFLOW", command.account, -delta, command.at)
<1>5. Insert([j \in {i} |-> row])
    BY <1>1 DEF WriteReconciliation
<1>6. tx[i] = NoRow /\ tx'[i] = row
    <2> HIDE DEF row
    <2> QED
        BY <1>5 DEF Insert
<1>7. /\ row.status = "POSTED" /\ row.kind = "RECONCILIATION_ADJUSTMENT"
      /\ row.account = command.account /\ row.at = command.at
    BY DEF Movement
<1>8. (IF row.effect = "INFLOW" THEN row.amount ELSE -row.amount) = delta
    BY <1>4 DEF Movement
<1> HIDE DEF row
<1> QED
    BY <1>6, <1>7, <1>8 DEF ReconciliationGroupValid, Counts, Signed

\* A reallocation announces balances with the total of those it read.
LEMMA TotalIsKept ==
    ASSUME NEW c \in Commands, c.op = "REALLOCATE", WellFormed(c),
           NEW b \in [c.accounts -> Int], NEW after, after = Outcome(c, b),
           \A a \in c.accounts : after[a] \in Int
    PROVE  TotalOf(after) = TotalOf(b) /\ DOMAIN after = c.accounts
<1> DEFINE others == c.accounts \ {c.balancing}
           target == [a \in others |-> IF a \in DOMAIN c.requested THEN c.requested[a] ELSE b[a]]
<1>1. /\ c.accounts \in SUBSET Accounts /\ c.balancing \in c.accounts
      /\ IsFiniteSet(c.accounts) /\ IsFiniteSet(others)
    <2>1. c.accounts \in SUBSET Accounts /\ c.balancing \in c.accounts
        BY CommandFields
    <2> QED
        BY <2>1, FiniteAssumption, FS_Subset DEF FiniteAssumption
<1>2. after = [a \in c.accounts |->
                  IF a = c.balancing THEN TotalOf(b) - TotalOf(target) ELSE target[a]]
    BY DEF Outcome, ReallocationTargets
<1>3. /\ \A a \in others : target[a] = after[a]
      /\ after[c.balancing] = TotalOf(b) - TotalOf(target)
      /\ DOMAIN after = c.accounts
    <2> HIDE DEF target
    <2> QED
        BY <1>1, <1>2
<1>4. target \in [others -> Int] /\ after \in [c.accounts -> Int]
    <2>1. \A a \in others : target[a] \in Int
        <3> HIDE DEF target
        <3> QED
            BY <1>3
    <2>2. after \in [c.accounts -> Int]
        <3> HIDE DEF target
        <3> QED
            BY <1>2
    <2> QED
        BY <2>1, <2>2
<1>5. TotalOf(target) = Sum(target, others)
    <2> HIDE DEF target, others
    <2> QED
        BY <1>1, <1>4, TotalIsSum
<1>6. TotalOf(after) = Sum(after, c.accounts) /\ TotalOf(b) = Sum(b, c.accounts)
    BY <1>1, <1>4, TotalIsSum
<1>7. Sum(after, c.accounts) = Sum(after, others) + after[c.balancing]
      /\ Sum(after, others) \in Int
    <2>1. /\ c.accounts \in SUBSET c.accounts /\ others \in SUBSET c.accounts
          /\ others = c.accounts \ {c.balancing}
        OBVIOUS
    <2> HIDE DEF others, target
    <2> QED
        BY <1>1, <2>1, SumBasics
<1>8. Sum(target, others) = Sum(after, others)
    <2> HIDE DEF target
    <2>1. \A a \in others : after[a] \in Int /\ target[a] = after[a]
        BY <1>3
    <2> HIDE DEF others
    <2> QED
        BY <1>1, <2>1, SumAgree
<1>9. Sum(b, c.accounts) \in Int
    <2>1. c.accounts \in SUBSET c.accounts /\ \A a \in c.accounts : b[a] \in Int
        OBVIOUS
    <2> QED
        BY <1>1, <2>1, SumBasics
<1> HIDE DEF target, others
<1> QED
    BY <1>3, <1>5, <1>6, <1>7, <1>8, <1>9

\* The session of a reallocation has its transfers and no other: one for each account
\* that changes, between it and the balancing account.
LEMMA SessionAccepted ==
    ASSUME MoneyInv, PairInv, Commit, quote.command.op = "REALLOCATE",
           NEW session, session = Session(quote.command, quote.balances),
           NEW groups, groups = transfers' \ transfers
    PROVE  ReallocationGroupValid(session, groups)'
<1>1. PICK c : c = quote.command
    OBVIOUS
<1>2. PICK b : b = quote.balances
    OBVIOUS
<1>3. PICK after : after = Outcome(c, b)
    OBVIOUS
<1>4. WriteReallocation /\ quote.phase = "QUOTED"
    BY DEF Commit, Reevaluated, WriteTransfer, WriteReconciliation
<1>5. /\ c \in Commands /\ c.op = "REALLOCATE" /\ WellFormed(c) /\ Participants(c) = c.accounts
      /\ b \in [c.accounts -> Int] /\ c.balancing \in c.accounts
      /\ c.accounts \in SUBSET Accounts
      /\ \A a \in c.accounts : after[a] \in Int /\ Gain(a) \in Int /\ Gain(a) = after[a] - b[a]
    <2>1. Participants(c) = c.accounts
        BY <1>1, <1>4 DEF WriteReallocation, Participants
    <2> QED
        BY <1>1, <1>2, <1>3, <1>4, <2>1, QuotedOutcome, CommandFields DEF Gain
<1>6. /\ session.before = b /\ session.balancing = c.balancing
      /\ session.total = TotalOf(b) /\ session.requested = after /\ DOMAIN b = c.accounts
    BY <1>1, <1>2, <1>3, <1>5 DEF Session
<1>7. TotalOf(after) = TotalOf(b)
    BY <1>3, <1>5, TotalIsKept
<1>8. Cardinality(c.accounts) >= 2
    <2>1. c \in ReallocationCommands
        BY <1>5 DEF Commands, TransferCommands, ReconciliationCommands
    <2> QED
        BY <2>1 DEF ReallocationCommands
<1>9. \A a \in c.accounts : acct'[a].allowNegative \/ after[a] >= 0
    BY <1>1, <1>2, <1>3, <1>5, CommitIsAllowed
<1>10. {a \in c.accounts \ {c.balancing} : after[a] - b[a] # 0} = Changed
    BY <1>1, <1>5 DEF Changed
<1>11. PICK out, into \in [Changed -> Ids] :
          /\ \A x, y \in Changed : out[x] = out[y] => x = y
          /\ \A a \in Changed : tx[out[a]] = NoRow /\ PairOf(a, out[a], into[a])
          /\ transfers' = transfers \cup
                {[source |-> out[a], destination |-> into[a], fee |-> NoId] : a \in Changed}
    BY <1>4, ReallocationRows
<1> DEFINE group == [a \in Changed |->
                        [source |-> out[a], destination |-> into[a], fee |-> NoId]]
<1>12. groups = {group[a] : a \in Changed}
    <2>1. \A g \in transfers : tx[g.source].kind = "TRANSFER_OUT"
                               /\ tx[g.source].status = "POSTED"
        BY DEF PairInv, TransfersPaired, Paired
    <2>2. \A a \in Changed : group[a].source = out[a] /\ tx[out[a]] = NoRow
        BY <1>11
    <2>3. \A a \in Changed : group[a] \notin transfers
        <3> HIDE DEF group
        <3> QED
            BY <2>1, <2>2 DEF NoRow
    <2>4. transfers' = transfers \cup {group[a] : a \in Changed}
        BY <1>11
    <2> HIDE DEF group
    <2> QED
        BY <2>3, <2>4
<1>13. \A x, y \in Changed : group[x] = group[y] => x = y
    BY <1>11
<1>14. Cardinality(groups) = Cardinality(Changed) /\ IsFiniteSet(groups)
    <2>1. IsFiniteSet(Changed)
        BY <1>1, <1>5, FiniteAssumption, FS_Subset DEF Changed, FiniteAssumption
    <2>2. group \in [Changed -> groups] /\ DOMAIN group = Changed
        <3>1. DOMAIN group = Changed /\ group = [a \in Changed |-> group[a]]
            OBVIOUS
        <3> HIDE DEF group
        <3> QED
            BY <1>12, <3>1
    <2> HIDE DEF group
    <2>3. group \in Bijection(Changed, groups)
        BY <1>12, <1>13, <2>2 DEF Bijection, Injection, Surjection, IsInjective
    <2> QED
        BY <2>1, <2>3, FS_Bijection DEF ExistsBijection
<1> DEFINE Joins(g, from, to, amount) ==
              /\ tx'[g.source].account = from /\ tx'[g.destination].account = to
              /\ tx'[g.source].amount = amount /\ g.fee = NoId
           Between(a) ==
              {g \in groups : \/ Gain(a) > 0 /\ Joins(g, c.balancing, a, Gain(a))
                              \/ Gain(a) < 0 /\ Joins(g, a, c.balancing, -Gain(a))}
<1>15. ASSUME NEW x \in Changed
       PROVE  /\ x # c.balancing /\ Gain(x) \in Int /\ Gain(x) # 0
              /\ group[x].source = out[x] /\ group[x].destination = into[x]
              /\ group[x].fee = NoId
              /\ tx'[out[x]].account = (IF Gain(x) > 0 THEN c.balancing ELSE x)
              /\ tx'[into[x]].account = (IF Gain(x) > 0 THEN x ELSE c.balancing)
              /\ tx'[out[x]].amount = (IF Gain(x) > 0 THEN Gain(x) ELSE -Gain(x))
    <2>1. x # c.balancing /\ Gain(x) \in Int /\ Gain(x) # 0
        BY <1>1, <1>5 DEF Changed
    <2>2. PairOf(x, out[x], into[x])
        BY <1>11
    <2> QED
        BY <1>1, <2>1, <2>2 DEF PairOf, Movement
<1>16. ASSUME NEW a \in Changed
       PROVE  Between(a) = {group[a]}
    <2> HIDE DEF group
    <2>1. ASSUME NEW x \in Changed
          PROVE  (\/ Gain(a) > 0 /\ Joins(group[x], c.balancing, a, Gain(a))
                  \/ Gain(a) < 0 /\ Joins(group[x], a, c.balancing, -Gain(a)))
                 <=> x = a
        BY <1>15
    <2> HIDE DEF Joins
    <2> QED
        BY <1>12, <2>1
<1>17. \A a \in Changed : 1 = Cardinality(Between(a))
    <2> HIDE DEF Between, group
    <2> QED
        BY <1>16, FS_Singleton
<1> HIDE DEF group
<1>18. \A a \in Changed : Gain(a) = after[a] - b[a]
    BY <1>1, <1>5 DEF Changed
<1> DEFINE lines == DOMAIN session.before
           delta(a) == session.requested[a] - session.before[a]
           moved == {a \in lines \ {session.balancing} : delta(a) # 0}
           Carriers(a) ==
              {g \in groups :
                 \/ delta(a) > 0 /\ Joins(g, session.balancing, a, delta(a))
                 \/ delta(a) < 0 /\ Joins(g, a, session.balancing, -delta(a))}
<1>19. lines = c.accounts /\ moved = Changed /\ \A a \in Changed : delta(a) = Gain(a)
    BY <1>6, <1>10, <1>18
<1>20. \A a \in Changed : 1 = Cardinality(Carriers(a))
    <2>1. \A a \in Changed : Carriers(a) = Between(a)
        <3> HIDE DEF delta, Joins
        <3> QED
            BY <1>6, <1>19
    <2> HIDE DEF Carriers, Between
    <2> QED
        BY <1>17, <2>1
<1>21. /\ Cardinality(lines) >= 2 /\ session.balancing \in lines
       /\ TotalOf(session.before) = session.total
       /\ TotalOf(session.requested) = session.total
       /\ Cardinality(groups) = Cardinality(moved)
       /\ \A a \in lines : acct'[a].allowNegative \/ session.requested[a] >= 0
       /\ \A a \in moved : 1 = Cardinality(Carriers(a))
    <2> HIDE DEF lines, moved, delta, Carriers
    <2> QED
        BY <1>5, <1>6, <1>7, <1>8, <1>9, <1>14, <1>19, <1>20
<1> HIDE DEF Between
<1> QED
    BY <1>21 DEF ReallocationGroupValid

\* No commit writes what the database would refuse, and no step of the ledger leaves a
\* row of a transfer without its group.
THEOREM CommitsAreAccepted == FSpec => DatabaseAccepts
<1> DEFINE Accepted ==
       /\ \A i \in Ids : tx'[i] # tx[i] => LinkRequired(i)'
       /\ \A g \in transfers' \ transfers : TransferGroupValid(g)'
       /\ Committed /\ quote.command.op = "REALLOCATE" =>
             \E session \in {Session(quote.command, quote.balances)},
                groups \in {transfers' \ transfers} :
                   ReallocationGroupValid(session, groups)'
       /\ Committed /\ quote.command.op = "RECONCILE" =>
             \E command \in {quote.command},
                delta \in {quote.command.actual - quote.balances[quote.command.account]},
                i \in Ids : tx[i] = NoRow /\ ReconciliationGroupValid(i, command, delta)'
<1>1. MoneyInv /\ PairInv /\ CountInv /\ [FNext]_fvars => [Accepted]_fvars
    <2> SUFFICES ASSUME MoneyInv, PairInv, CountInv, [FNext]_fvars
                 PROVE  Accepted
        OBVIOUS
    <2>1. LinksAccepted'
        BY PairStep, CountStep, PairedIsAcceptedNext
    <2>2. \A i \in Ids : tx'[i] # tx[i] => LinkRequired(i)'
        BY <2>1, ChangedIsWritten DEF LinksAccepted
    <2>3. \A g \in transfers' \ transfers : TransferGroupValid(g)'
        BY <2>1 DEF LinksAccepted
    <2>4. Committed => Commit
        <3> SUFFICES ASSUME Committed
                     PROVE  Commit
            OBVIOUS
        <3>1. quote # NoQuote /\ quote' = NoQuote /\ tx' # tx
            BY DEF NoQuote, Committed
        <3> QED
            BY <3>1 DEF FNext, fvars, StartPreview, FinishPreview, AbandonPreview
    <2>5. ASSUME Committed, quote.command.op = "REALLOCATE"
          PROVE  \E session \in {Session(quote.command, quote.balances)},
                    groups \in {transfers' \ transfers} :
                       ReallocationGroupValid(session, groups)'
        <3>1. PICK session : session = Session(quote.command, quote.balances)
            OBVIOUS
        <3>2. PICK groups : groups = transfers' \ transfers
            OBVIOUS
        <3>3. ReallocationGroupValid(session, groups)'
            BY <2>4, <2>5, <3>1, <3>2, SessionAccepted
        <3> QED
            BY <3>1, <3>2, <3>3
    <2>6. ASSUME Committed, quote.command.op = "RECONCILE"
          PROVE  \E command \in {quote.command},
                    delta \in {quote.command.actual - quote.balances[quote.command.account]},
                    i \in Ids : tx[i] = NoRow /\ ReconciliationGroupValid(i, command, delta)'
        <3>1. PICK command : command = quote.command
            OBVIOUS
        <3>2. PICK delta : delta = command.actual - quote.balances[command.account]
            OBVIOUS
        <3>3. \E i \in Ids : tx[i] = NoRow /\ ReconciliationGroupValid(i, command, delta)'
            BY <2>4, <2>6, <3>1, <3>2, AdjustmentAccepted
        <3> QED
            BY <3>1, <3>2, <3>3
    <2> QED
        BY <2>2, <2>3, <2>5, <2>6
<1>2. FInit => CountInv
    BY DEF FInit, CountInv, KindsTellEffects, KindTellsEffect, NoRow
<1>3. FInit => PairInv
    BY InvInit DEF FInit, PairInv, DraftsAreCore, TransfersPaired, NoRow
<1> QED
    BY <1>1, <1>2, <1>3, PairStep, CountStep, MoneyInit, MoneyStep, PTL DEF FSpec, DatabaseAccepts

=============================================================================
