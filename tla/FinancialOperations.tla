------------------------ MODULE FinancialOperations ------------------------
(***************************************************************************)
(* Transfers, reconciliations and reallocations beside the ledger.  Each   *)
(* is previewed, shown to the user, and committed with the fingerprint of  *)
(* what the preview read.                                                  *)
(*                                                                         *)
(* A preview takes no lock and reads in two statements: the account rows,  *)
(* then the balances.  The session's identity map keeps the rows of the    *)
(* first statement, so a posting that commits in between leaves the        *)
(* preview with an old version beside a new balance.  A commit evaluates   *)
(* everything again under locks on the accounts, hence is one action.      *)
(*                                                                         *)
(* One client's preview is followed; every other client is a step of       *)
(* Ledger.  All accounts share a currency.                                 *)
(***************************************************************************)
EXTENDS Ledger, Functions

CONSTANTS
    Targets,    \* balances a user asks for in a reconciliation or reallocation
    Requests    \* the commands the followed client may preview

VARIABLES
    transfers,  \* the transfers table: groups of movement identifiers
    quote       \* the followed client's preview
fvars == <<now, acct, tx, transfers, quote>>

NoQuote == [phase |-> "NONE"]
NoFee   == [account |-> "NONE"]

TransferCommands ==
    [op : {"TRANSFER"}, source : Accounts, destination : Accounts,
     amount : Amounts, fee : [account : Accounts, amount : Amounts] \cup {NoFee},
     at : Times]
ReconciliationCommands ==
    [op : {"RECONCILE"}, account : Accounts, actual : Targets, at : Times]
ReallocationCommands ==
    UNION {[op : {"REALLOCATE"}, accounts : {S}, balancing : S,
            requested : UNION {[R -> Targets] : R \in SUBSET S}, at : Times] :
           S \in {S \in SUBSET Accounts : Cardinality(S) >= 2}}
Commands == TransferCommands \cup ReconciliationCommands \cup ReallocationCommands

ASSUME TargetsAssumption == Targets \subseteq Int /\ Requests \subseteq Commands

-----------------------------------------------------------------------------
(* What a command reads, and what it would lead to *)

WithFee(command) == command.fee # NoFee

Participants(command) ==
    CASE command.op = "TRANSFER" ->
            {command.source, command.destination}
              \cup (IF WithFee(command) THEN {command.fee.account} ELSE {})
      [] command.op = "RECONCILE"  -> {command.account}
      [] command.op = "REALLOCATE" -> command.accounts

\* A reconciliation states a balance at its own date, the others at the later
\* of now and their date.
ReadAt(command) ==
    IF command.op = "RECONCILE" THEN command.at ELSE Max({now, command.at})

Balances(command) ==
    [a \in Participants(command) |-> BalanceAt(a, ReadAt(command))]

TotalOf(balances) == MapThenSumSet(LAMBDA a : balances[a], DOMAIN balances)

MutForgetsFee(command, a) ==
    (IF a = command.destination THEN command.amount ELSE 0)
      - (IF a = command.source THEN command.amount ELSE 0)

TransferDelta(command, a) ==
    (IF a = command.destination THEN command.amount ELSE 0)
      - (IF a = command.source THEN command.amount ELSE 0)
      - (IF WithFee(command) /\ a = command.fee.account THEN command.fee.amount ELSE 0)

MutTotalDrifts(command, balances) ==
    [a \in command.accounts |-> IF a \in DOMAIN command.requested
                                THEN command.requested[a] ELSE balances[a]]

\* An account nobody asked about keeps its balance; the balancing account takes
\* what is left of the total.
ReallocationTargets(command, balances) ==
    LET others == command.accounts \ {command.balancing}
        target == [a \in others |-> IF a \in DOMAIN command.requested
                                    THEN command.requested[a] ELSE balances[a]]
    IN  [a \in command.accounts |->
            IF a = command.balancing THEN TotalOf(balances) - TotalOf(target)
                                     ELSE target[a]]

\* The balances, at ReadAt, that the preview shows as the outcome.
Outcome(command, balances) ==
    CASE command.op = "TRANSFER" ->
            [a \in DOMAIN balances |-> balances[a] + TransferDelta(command, a)]
      [] command.op = "RECONCILE"  -> [a \in DOMAIN balances |-> command.actual]
      [] command.op = "REALLOCATE" -> ReallocationTargets(command, balances)

-----------------------------------------------------------------------------
(* Evaluation, shared by previews and commits *)

WellFormed(command) ==
    /\ command.op = "TRANSFER" => command.source # command.destination
    /\ command.op = "REALLOCATE" => command.balancing \notin DOMAIN command.requested

AccountsAccept(command) ==
    /\ NotFuture(command.at)
    /\ \A a \in Participants(command) :
          /\ acct[a].status = "ACTIVE"
          /\ command.at >= acct[a].openedAt

MutIgnoresTransfers(command, mayBeNegative, balances) == command.op = "TRANSFER"

MutIgnoresPresent(command, mayBeNegative, balances) ==
    \A a \in Participants(command) :
        mayBeNegative[a] \/ Outcome(command, balances)[a] >= 0

\* `mayBeNegative` is read with the account rows.  A reconciliation of the past
\* must also leave the current balance within the policy.
PolicyAccepts(command, mayBeNegative, balances) ==
    LET outcome == Outcome(command, balances)
    IN  \A a \in Participants(command) :
           \/ mayBeNegative[a]
           \/ /\ outcome[a] >= 0
              /\ command.op = "RECONCILE" =>
                    BalanceAt(a, Max({now, command.at})) + outcome[a] - balances[a] >= 0

-----------------------------------------------------------------------------
(* Previews *)

\* The first statement: the account rows.  `basis` records the movements the
\* accounts held at that moment; no code reads it.
StartPreview(command) ==
    /\ WellFormed(command)
    /\ AccountsAccept(command)
    /\ quote' = [phase   |-> "READING",
                 command |-> command,
                 rows    |-> Restrict(acct, Participants(command)),
                 basis   |-> [a \in Participants(command) |-> Movements(a)]]
    /\ UNCHANGED <<now, acct, tx, transfers>>

\* The second statement: the balances, judged with the rows of the first.
FinishPreview ==
    /\ quote.phase = "READING"
    /\ LET balances == Balances(quote.command)
       IN  quote' = IF PolicyAccepts(quote.command,
                         [a \in DOMAIN quote.rows |-> quote.rows[a].allowNegative],
                         balances)
                    THEN [phase |-> "QUOTED", command |-> quote.command,
                          rows |-> quote.rows, basis |-> quote.basis,
                          balances |-> balances]
                    ELSE NoQuote
    /\ UNCHANGED <<now, acct, tx, transfers>>

AbandonPreview ==
    /\ quote.phase # "NONE"
    /\ quote' = NoQuote
    /\ UNCHANGED <<now, acct, tx, transfers>>

-----------------------------------------------------------------------------
(* Commits: Reevaluated, then the writes of the command *)

\* The fingerprint covers, for every account, its version and its balance.
SameFingerprint ==
    \A a \in Participants(quote.command) :
        /\ acct[a].version = quote.rows[a].version
        /\ Balances(quote.command)[a] = quote.balances[a]

Reevaluated ==
    /\ quote.phase = "QUOTED"
    /\ AccountsAccept(quote.command)
    /\ PolicyAccepts(quote.command,
           [a \in Participants(quote.command) |-> acct[a].allowNegative],
           Balances(quote.command))
    /\ SameFingerprint

WriteTransfer(s, d, f) ==
    LET c == quote.command
    IN  /\ c.op = "TRANSFER"
        /\ s # d /\ f \notin {s, d}
        /\ WithFee(c) <=> f # NoId
        /\ Insert([i \in {s, d, f} \ {NoId} |->
              CASE i = s -> Movement("TRANSFER_OUT", "OUTFLOW", c.source, c.amount, c.at)
                [] i = d -> Movement("TRANSFER_IN", "INFLOW", c.destination, c.amount, c.at)
                [] i = f -> Movement("TRANSFER_FEE", "OUTFLOW", c.fee.account,
                                     c.fee.amount, c.at)])
        /\ transfers' = transfers \cup {[source |-> s, destination |-> d, fee |-> f]}
        /\ Bump(Participants(c))
        /\ quote' = NoQuote
        /\ UNCHANGED now

WriteReconciliation(i) ==
    LET c     == quote.command
        delta == c.actual - quote.balances[c.account]
    IN  /\ c.op = "RECONCILE"
        /\ delta # 0
        /\ Insert([j \in {i} |->
              IF delta > 0
              THEN Movement("RECONCILIATION_ADJUSTMENT", "INFLOW", c.account, delta, c.at)
              ELSE Movement("RECONCILIATION_ADJUSTMENT", "OUTFLOW", c.account, -delta, c.at)])
        /\ Bump({c.account})
        /\ quote' = NoQuote
        /\ UNCHANGED <<now, transfers>>

\* What a reallocation does to each account, and the accounts it changes.
Gain(a) == Outcome(quote.command, quote.balances)[a] - quote.balances[a]
Changed == {a \in quote.command.accounts \ {quote.command.balancing} : Gain(a) # 0}

\* One transfer between the balancing account and each account that changes;
\* `out` and `into` give its two rows their identifiers.
WriteReallocation ==
    LET c       == quote.command
        from(a) == IF Gain(a) > 0 THEN c.balancing ELSE a
        to(a)   == IF Gain(a) > 0 THEN a ELSE c.balancing
        size(a) == IF Gain(a) > 0 THEN Gain(a) ELSE -Gain(a)
    IN  /\ c.op = "REALLOCATE"
        /\ Changed # {}
        /\ \E out, into \in [Changed -> Ids] :
              /\ IsInjective(out) /\ IsInjective(into)
              /\ Range(out) \cap Range(into) = {}
              /\ Insert([i \in Range(out) \cup Range(into) |->
                    LET a == CHOOSE a \in Changed : i \in {out[a], into[a]}
                    IN  IF i = out[a]
                        THEN Movement("TRANSFER_OUT", "OUTFLOW", from(a), size(a), c.at)
                        ELSE Movement("TRANSFER_IN", "INFLOW", to(a), size(a), c.at)])
              /\ transfers' = transfers \cup
                    {[source |-> out[a], destination |-> into[a], fee |-> NoId] :
                        a \in Changed}
        /\ Bump(Changed \cup {c.balancing})
        /\ quote' = NoQuote
        /\ UNCHANGED now

Commit ==
    /\ Reevaluated
    /\ \/ \E s, d \in Ids, f \in Ids \cup {NoId} : WriteTransfer(s, d, f)
       \/ \E i \in Ids : WriteReconciliation(i)
       \/ WriteReallocation

-----------------------------------------------------------------------------
(* What the database validates when a commit ends.  Its deferred triggers are *)
(* no guards here: DatabaseAccepts states that no handler ever meets them.    *)

Transfer == [source : Ids, destination : Ids, fee : Ids \cup {NoId}]

TransferGroupValid(g) ==
    LET s == tx[g.source]
        d == tx[g.destination]
    IN  /\ Counts(g.source) /\ Counts(g.destination) /\ s.status = d.status
        /\ s.kind = "TRANSFER_OUT" /\ s.effect = "OUTFLOW"
        /\ d.kind = "TRANSFER_IN" /\ d.effect = "INFLOW"
        /\ s.account # d.account /\ s.at = d.at /\ s.amount = d.amount
        /\ g.fee # NoId =>
              /\ tx[g.fee].kind = "TRANSFER_FEE" /\ tx[g.fee].effect = "OUTFLOW"
              /\ tx[g.fee].status = s.status /\ tx[g.fee].at = s.at

\* The session of a reallocation, with one line per account.
Session(command, balances) ==
    [balancing |-> command.balancing, total |-> TotalOf(balances),
     before |-> balances, requested |-> Outcome(command, balances)]

\* `groups` are the transfers that carry the session's identifier.
ReallocationGroupValid(session, groups) ==
    LET lines    == DOMAIN session.before
        delta(a) == session.requested[a] - session.before[a]
        moved    == {a \in lines \ {session.balancing} : delta(a) # 0}
        Joins(g, from, to, amount) ==
            /\ tx[g.source].account = from /\ tx[g.destination].account = to
            /\ tx[g.source].amount = amount /\ g.fee = NoId
    IN  /\ Cardinality(lines) >= 2 /\ session.balancing \in lines
        /\ TotalOf(session.before) = session.total
        /\ TotalOf(session.requested) = session.total
        /\ Cardinality(groups) = Cardinality(moved)
        /\ \A a \in lines : acct[a].allowNegative \/ session.requested[a] >= 0
        /\ \A a \in moved : 1 = Cardinality({g \in groups :
              \/ delta(a) > 0 /\ Joins(g, session.balancing, a, delta(a))
              \/ delta(a) < 0 /\ Joins(g, a, session.balancing, -delta(a))})

ReconciliationGroupValid(i, command, delta) ==
    /\ Counts(i) /\ tx[i].kind = "RECONCILIATION_ADJUSTMENT"
    /\ tx[i].account = command.account /\ tx[i].at = command.at
    /\ Signed(tx[i]) = delta

\* A row of a transfer belongs to a group whose rows have one status.
LinkRequired(i) ==
    LET Part(g) ==
            CASE tx[i].kind = "TRANSFER_OUT" -> g.source
              [] tx[i].kind = "TRANSFER_IN"  -> g.destination
              [] tx[i].kind = "TRANSFER_FEE" -> g.fee
    IN  tx[i].kind \in {"TRANSFER_OUT", "TRANSFER_IN", "TRANSFER_FEE"} =>
            \E g \in transfers :
                /\ Part(g) = i
                /\ tx[g.source].status = tx[g.destination].status
                /\ g.fee # NoId => tx[g.fee].status = tx[g.source].status

-----------------------------------------------------------------------------
(* The specification: the ledger with its accounts already open. *)

FInit ==
    /\ now = 0
    /\ acct \in [Accounts -> [status : {"ACTIVE"}, opening : Openings,
                              allowNegative : BOOLEAN, openedAt : {0}, version : {1}]]
    /\ \A a \in Accounts : acct[a].allowNegative \/ acct[a].opening >= 0
    /\ tx = [i \in Ids |-> NoRow]
    /\ transfers = {}
    /\ quote = NoQuote

FNext ==
    \/ Next /\ UNCHANGED <<transfers, quote>>
    \/ \E command \in Requests : StartPreview(command)
    \/ FinishPreview
    \/ AbandonPreview
    \/ Commit

FSpec == FInit /\ [][FNext]_fvars

-----------------------------------------------------------------------------
(* Properties *)

\* Every row and every preview is well formed.
FTypeOK ==
    /\ TypeOK
    /\ quote # NoQuote =>
          /\ quote.phase \in {"READING", "QUOTED"}
          /\ quote.command \in Requests
          /\ quote.rows \in [Participants(quote.command) -> Account]

\* A preview whose versions are still the current ones was read from the ledger
\* as it is now, even when its two statements saw different ledgers: movements
\* that cancel out leave the balance as it was, but never the version.
QuoteIsCurrent ==
    quote # NoQuote =>
        \A a \in DOMAIN quote.rows :
            /\ quote.rows[a].version <= acct[a].version
            /\ quote.rows[a].version = acct[a].version =>
                  /\ quote.rows[a] = acct[a]
                  /\ quote.basis[a] = Movements(a)

\* A commit leaves every account it names at the balance its preview announced,
\* and no other account changes.  Postings, edits and the clock run between the
\* preview's statements and the commit.
CommitMatchesQuote ==
    [][quote.phase = "QUOTED" /\ quote' = NoQuote /\ tx' # tx =>
          LET outcome == Outcome(quote.command, quote.balances)
          IN  \A a \in Accounts, t \in {ReadAt(quote.command)} :
                 IF a \in Participants(quote.command)
                 THEN BalanceAt(a, t)' = outcome[a]
                 ELSE Movements(a)' = Movements(a)]_fvars

Members(g) == {g.source, g.destination, g.fee}

Paired(g) ==
    LET s == tx[g.source]
        d == tx[g.destination]
    IN  /\ s.status = "POSTED" /\ d.status = "POSTED"
        /\ s.kind = "TRANSFER_OUT" /\ s.effect = "OUTFLOW"
        /\ d.kind = "TRANSFER_IN" /\ d.effect = "INFLOW"
        /\ s.amount = d.amount /\ s.at = d.at /\ s.account # d.account
        /\ g.fee # NoId => /\ tx[g.fee].status = "POSTED"
                           /\ tx[g.fee].kind = "TRANSFER_FEE"
                           /\ tx[g.fee].at = s.at

TransferKinds == {"TRANSFER_OUT", "TRANSFER_IN", "TRANSFER_FEE"}

\* The rows of a transfer stay together: each belongs to one group, whose two
\* sides move the same amount at the same instant between different accounts,
\* and no later step undoes one of them alone.
TransfersPaired ==
    /\ \A g \in transfers : Paired(g)
    /\ \A i \in Ids :
          tx[i] # NoRow /\ tx[i].kind \in TransferKinds =>
             \E g \in transfers :
                i \in Members(g) /\ \A h \in transfers \ {g} : i \notin Members(h)

Committed == quote.phase = "QUOTED" /\ quote' = NoQuote /\ tx' # tx

\* The services never write what the database would refuse: every commit leaves
\* transfer groups, sessions and adjustments as the deferred triggers demand them,
\* a reallocation keeping the total it fixed, and no step of any handler undoes a
\* row of a transfer, however a preview and a commit interleave with other writes.
DatabaseAccepts ==
    [][/\ \A i \in Ids : tx'[i] # tx[i] => LinkRequired(i)'
       /\ \A g \in transfers' \ transfers : TransferGroupValid(g)'
       /\ Committed /\ quote.command.op = "REALLOCATE" =>
             \E session \in {Session(quote.command, quote.balances)},
                groups \in {transfers' \ transfers} :
                   ReallocationGroupValid(session, groups)'
       /\ Committed /\ quote.command.op = "RECONCILE" =>
             \E command \in {quote.command},
                delta \in {quote.command.actual - quote.balances[quote.command.account]},
                i \in Ids : tx[i] = NoRow /\ ReconciliationGroupValid(i, command, delta)']_fvars
=============================================================================
