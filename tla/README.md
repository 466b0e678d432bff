# PlanIT: formal models

PlanIT is a personal-finance program: a FastAPI backend on PostgreSQL
(`src/backend`) and a Flutter application that works offline
(`src/mobile`). These TLA+ modules model what must not lose or invent money, what
the user's devices may believe about it, and the parts of the backend in which
several requests, a worker or a crash meet.

Check a model with `tlc -config MCSharing.cfg MCSharing`; check a proof with
`tlapm SharingProofs.tla`.

## 1. The system

| Component | State | Operations | What makes it correct |
|---|---|---|---|
| **Ledger** (`application/accounts.py`, `transactions.py`, `domain/ledger`) | account rows; transaction rows (DRAFT, POSTED, REVERSED); a balance is opening + the movements dated up to an instant, never stored | create and edit accounts; create, edit, post a draft; reverse | history is append-only; one reversal per movement; no movement before its account opened; a protected account does not fall below zero; every change raises the version of what it changes |
| **Financial operations** (`transfers.py`, `corrections.py`, deferred triggers of the migrations) | transfer groups, reconciliation and reallocation sessions | preview (no lock), commit (locked, re-evaluated, judged again by the database) | a commit does exactly what its preview announced or fails; the sides of a transfer stay together |
| **Debts, shares, refunds** (`debts.py`, `sharing.py`) | people, debts, payments, shares, refunds | lend, borrow, repay, cancel; share, adjust, cancel a share; refund | a share and its claim agree; recovered never exceeds spent; a debt tells its payments |
| **Analytics** (`analytics.py`) | none: read in one `REPEATABLE READ` snapshot | the dashboard's totals | the totals, computed apart, tell one story |
| **Planning** (`planning.py`, `workers/recurring.py`) | rules, occurrences | process due rules (worker and requests); record, skip | one occurrence per due instant, which tells what became of its draft; the worker makes progress |
| **Catalog** (`catalog.py`) | categories (a forest with kinds and archiving), tags | create, move, rename, retype, archive, restore | no cycle; nothing active under something archived; requests end |
| **Sessions** (`auth.py`, the application's token store) | refresh-token chains | sign in, rotate, sign out, detect a token that comes back | a chain has one live end; what was ended stays dead; an honest device is not thrown out |
| **Media and erasure** (`media.py`, `privacy.py`, `storage.py`) | asset rows, objects, signed URLs | reserve, upload, finalize, delete; erase the profile | no finalized row without object, no object without row, but for the failures named |
| **Clients of the API** (`api/v1`, forms) | rows as last received, open forms | read, edit, confirm, undo | a request acts only on what its user saw |
| **Outbox and cache** (`app_database.dart`, `transactions_local_data_source.dart`, `transactions_repository.dart`) | cached rows with a sync state; a queue; one synchronization; refreshes beside it | queue, send, acknowledge, park, retry, discard, merge | nothing queued is lost or applied twice; what is shown as synchronized is real; the queue drains |
| **Idempotency** (`idempotency.py`) | a record per (user, scope, key) | execute or replay under an advisory lock | however many copies of a call run at once, each is handled in one step, judged at its own reading of the clock |

Interactions. Every financial request goes through `execute_idempotent`, which
opens the only database transaction; the service inside locks the row it is about,
then the accounts in identifier order (`FOR UPDATE`), and reads balances in later
statements (READ COMMITTED). Transfers, repayments, shares and refunds insert
posted rows with the same locks. Occurrences create drafts through the ledger's
service, and posting a draft closes its occurrence. Every row belongs to a user, so
any write meets the lock that an erasure takes on the user. The application talks
to the server from three places that overlap: a question or form on the screen, one
synchronization at a time, and refreshes.

`PROJECT.json` lists each hazard at its line, with the properties that cover it.

## 2. Modules

    Bank (abstract)      <- refines -  Ledger, FinancialOperations
    Ledger               <- FinancialOperations, Devices, Sharing, Planning (EXTEND it)
    Classification       <- Analytics  (with Sharing) <- SharingProofs; LedgerProofs
    RowLocks             <- Catalog, Sessions <- Access
    AtomicHandling (abstract) <- refines - Idempotency
    Outbox                  (its own, simpler server)
    LedgerProofs         <- FinancialOperationsProofs, SharingProofs, LedgerClientsProofs
    CatalogProofs, AccessProofs, OutboxProofs (with Idempotency); Bank holds its own proof

* **Ledger** - the server for one user: the clock `now` and the tables `acct`, `tx`.
  One action per handler. A handler is atomic because it holds its row locks until
  it commits and judges balances after it has them. A refusal changes nothing and is
  not written. Category, tags and payee are one bit, `classified`.
* **Bank** - what the ledger promises a user who knows nothing of rows, drafts and
  dates: balances, protected accounts, movements between them. `ImplementsBank` is
  the refinement, with the balance as mapping.
* **FinancialOperations** - a preview reads the account rows (`StartPreview`) and
  then the balances (`FinishPreview`) in two statements without locks, and anything
  may commit in between; the commit evaluates again under locks, compares the
  fingerprint and writes (`WriteTransfer`, `WriteReconciliation`,
  `WriteReallocation`). `DatabaseAccepts` states what the deferred constraint
  triggers compute, with their own formulas, over every group a commit writes (the
  link function of migration 0005 as replaced by 0006).
* **Sharing** - people, debts, payments, shares and refunds beside the ledger. The
  update of a share is two actions: a copy read without a lock (`ReadShare`) and the
  update computed from it later, because the session keeps the first copy it reads.
  All else is one action per handler, and the constraints of the tables are guards:
  what they refuse rolls back.
* **Classification**, **Analytics** - how a movement counts (income, expense, transfer,
  debt...) and the dashboard's totals. They change nothing; `PeriodAddsUp` and
  `NetPositionExplained` compare them with the balances.
* **Planning** - rules and occurrences. A batch takes the earliest due rules that
  nobody has locked (`SKIP LOCKED`), and fails as a whole if the ledger refuses one of
  its drafts. Identifiers of occurrences and drafts are derived. `CloseOccurrences` is
  conjoined to every step of the ledger, as the code calls it in the same transaction.
* **RowLocks** - what a transaction holds and what it waits for, and the database's
  breaking of a cycle of waits. **Catalog** uses it lock by lock: a change locks its
  category, then walks to the root locking each ancestor, then writes. Posting reads
  the category without a lock (`overlapped` is a history variable: the categories to
  which one posted while a change of them was under way).
* **Sessions** - sign-in, rotation and the ending of chains, lock by lock. **Access**
  extends it with media and erasure, whose locks they share. An object store is
  changed at once, the rows when the transaction commits, and any transaction may
  fail in between. The object store is the only external part.
* **Devices** - one device that keeps rows it received at different times, beside any
  number of others. `OpenForm`/`SaveForm` are the account form, `OpenDraft`/`SaveDraft` the
  transaction form: both are filled once, when they open (`form.filled`), and are saved with
  the version of the row as it was received since.
* **Outbox** - the application's local database and its dialogue with the server. An
  action is one local database transaction, one request handled, or one event of the
  network or the process. The server is a log of versions per row with idempotency
  records. `screen` is the question (`Ask`, `Answer`) or the edit form (`OpenEdit`,
  `QueueUpdate`) the user has open, with the row it was opened on, while refreshes change
  the cache behind it: a question is answered with that row's version, a form is saved with
  the version of the row as it is cached then. `shown`, `opened` and `cached` of an
  operation are history, read by a property only.
* **Idempotency** - the calls of one key, as `execute_idempotent` takes them: the advisory
  lock, the clock (read after the wait), the record, the work, and the commit of both. A
  transaction may fail or break at any point, also after its commit. **AtomicHandling** is what
  a client relies on, and what an action of `Outbox` does in one step: performed and recorded,
  or answered from the record, as it is at the instant the call read the clock (`readAt`,
  which the two modules share with the clock). (In `Outbox` no record expires: financial
  ones live a hundred years.)
* **MC...** - instances for TLC: the requests a run explores and the symmetry.

Definitions named `Mut...` are not part of the model: each is the definition after
it with a plausible bug, which a property has to detect.

## 3. Runs

| Run | Question | Outcome |
|---|---|---|
| `operations` | Under drafts, postings, reversals and account edits of others, as the clock runs: are rows coherent, previews usable only when true, commits what they announced, accounts solvent, the database's own judgment the same, the ledger a `Bank`, and a period's totals its balances? | holds |
| `ledger_ahead` | With postings dated ahead of the clock, as the code allows? | `NonNegative` is violated |
| `devices` | Does a version name one content, so that what is posted or reversed is what was shown, and no saved form overwrites a row never received? | holds |
| `stale_form` | Does a form, of an account or of a draft, undo another device's edit? | it does |
| `outbox` | Through crashes, lost answers, late copies and overlapping refreshes: is every write kept, never falsely acknowledged, never refused for its own first copy? | holds |
| `outbox_live` | Does the queue drain and the cache catch up? | holds |
| `post_overtakes` | Can a post be sent before the creation of its draft? | it can |
| `sharing` | Do recoveries, claims, debts and net position agree, with share updates from stale copies? | holds |
| `share_lost_update` | Are two updates of one version of a share both accepted? | they are |
| `planning` | Is each occurrence created once and faithful to its draft, and does the worker catch up? | holds |
| `catalog` | Is the hierarchy sound under two lock-by-lock requests, and do they end? | holds |
| `access` | What overlaps on the server: are chains and assets sound through lost answers, half-failed transactions and an erasure, and is each of several calls of one key handled in one step, judged at its own reading of the clock? | holds |

**The four violations** are disagreements between the code and its documents. An
outflow is judged at `max(now, its date)`, so one dated a few minutes ahead and one
dated now each miss the other. The account form and the transaction form send the
refreshed version with the fields they were opened with, so that the server accepts them
and another device's edit is undone without a conflict. The run shows it of the account
form; with `Edits <- NoDrafts` in `MCDevicesForm.cfg`, no edit of an account, it shows it of
the transaction form. The two operations of "save and post" are a microsecond
apart in a database that keeps whole seconds and breaks ties by a random identifier.
`update_share` reads the share before it waits for the expense, and the version it
compares after the wait is still that of the first read.

**Bounds.** The rules compare sums with zero and with each other, so the smallest
amounts reach every order: amounts and openings are 1 in the ledger, up to 3 in
`sharing`, where an expense of 3 is split between two shares and a refund in every
way. `operations` has two accounts and three rows: the two or three rows of an
operation, or one with a row of another client to interfere and its reversal; two
instants put a movement before, at and after a preview, and `MaxVersion = 3` lets two
changes follow an account's creation. `devices` has a movement and its reversal.
`planning` has two rules, batches of one (a rule is left behind), two instants, an
account whose opening date moves over them, and two edits of a rule, so that a
schedule moves back over an occurrence. `catalog` has three categories, the least in
which a cycle and a walk of two locks occur, two requests at a time, one rename onto
a taken name and one change of kind. `access` has a chain of three sessions (an end, a
rotation and the rotation of that), one device and one asset, and two transactions at
a time. `outbox` takes three operations through creation, editing, posting and
reversal beside the writes of another client, up to the second version; a question or a form
opens only while an operation is left to queue from it (`OpsLeft`); with every operation created in one second
(`MaxSecond = 0`) any order of sending occurs, which includes those of later
seconds; `Batch = 2` makes a synchronization stop short. `outbox_live` has two
operations, since liveness is costly. The three calls of one key in
`access` are the least in which one waits while another expires, one of them is of another
request, and the clock goes through two lives of a record; they share no variable with the
sessions and the media, so the run explores each of the two parts while the other is still
to begin. Identifiers are symmetric where no action
compares them and no liveness is checked. A system at its bounds stops, so deadlock is
not checked; that waiting requests end is `RequestsEnd`.

**Fairness.**
`outbox_live`: a timer starts a synchronization every 30 seconds in the foreground
(`app/planit_app.dart`): strong fairness of the unforced `StartSync`; the steps of
the loop and of a refresh, the server's handling and the delivery of an answer are
strongly fair, that is, crashes and losses may recur for ever but not at each
attempt. A backoff elapses (weak). Nothing is asked of the user, of other clients, of
a forced synchronization, nor of late copies.
`planning`: the worker polls for ever, and its container is restarted when it dies
(`infra/docker-compose.production.yml:65-77`): weak fairness of a batch that finds no
rule locked. Nothing is asked of users or the clock.
`catalog`: the database grants row locks in the order they were asked for and aborts
one of a cycle: strong fairness of each client's next step.

## 4. Properties worth knowing

The type invariants are not among the properties of the runs: those of `Ledger`,
`FinancialOperations`, `Devices`, `Sharing`, `Planning` and `Catalog` are theorems
(section 5). Where a run checks `ImplementsBank`, `NonNegative` follows from it and
from `BankSolvent`; it is checked as well because it is the promise itself.

*Ledger*: `ReversalCoherent`, `MovementsAfterOpening`, `NonNegative`,
`AccountVersionCovers` (each change to an account or its movements raises its version
by one), `HistoryIsAppendOnly`. *Financial operations*: `QuoteIsCurrent` (a torn
preview has an old version), `CommitMatchesQuote`, `TransfersPaired`,
`DatabaseAccepts`, `PeriodAddsUp`.
*Devices*: `VersionNamesRow`, `VersionNamesAccount`, `ActsOnWhatItShows`. The last one says
of a saved draft form only that it overwrites no row the device had not received. That the
form undoes nothing of what came while it was open is `SavesOnlyWhatChanged`, which the code
does not keep (`stale_form`).
*Sharing*: `RecoveryWithinExpense`, `DebtTellsPayments`, `SharesMatchClaims`,
`CancelledSharesClaimNothing`, `NetPositionExplained` (opening money + income - spending =
money + receivables - payables, whatever was reversed or cancelled).
`TwoDeadSharesFreeze` describes what the code does, as a warning: a share's debt can be cancelled by itself, which leaves
the share active; after two of those the constraint over all shares of the expense
refuses every later write to them. An expense can also be reversed
while shares and refunds of it are outstanding; its receivables outlive it.
*Planning*: `OccurrenceTellsDraft`, `OccurrencesOnlyMoveOn`, `DueIsProcessed`. The last
one carries its exception: a rule whose draft the ledger refuses stops its whole batch,
and the worker meets it again first (`docs/business-rules.md:104-107` does not say
what becomes of such a rule). The worker's transaction spans up to 100 users
(`workers/recurring.py:16-45`) and the model has one, so the exception is wider than it looks:
one user's refused draft stops the rules of every user in the batch.
*Catalog*: `NoCategoryCycle`, `ActiveUnderActive`, `KindAgreesWithHistory`, `RequestsEnd`.
`docs/business-rules.md:43` says without exception that "kind changes cannot contradict posted
history". The code breaks this where a posting and a change overlap, for which it has no
lock; the property leaves these categories out (`overlapped`), and says of the others that no
change misses what was posted before it.
*Access*: `ErasureIsComplete` (nothing of a profile survives its erasure or comes back from
a request that was under way), `OneLivePerSignIn`, `EndedStaysEnded`, `NoFalseAlarm` (a chain is taken for
stolen only if an answer was lost), `ObjectsMatchRows` (`FinalizedHasObject` and
`NoOrphanObject`, but for a removal that failed half-way and an object put by a URL that
outlived its asset: `docs/privacy-policy.md:32-33`).
*Outbox*: `PendingIsShown` (a refresh never hides what is queued), `SyncedIsReal`,
`AcknowledgedWasApplied`, `AppliedIsNeverRefused`, `ActsOnWhatWasShown` (what is posted,
reversed or edited is what was on the screen, except an edit whose form was open while another
version came into the cache: the server then overwrites a row the user never saw), `Settles` (an
operation behind a parked one waits for the user), `CatchesUp` (liveness, because the
cache does go back when a page listed before an acknowledgement is merged after it).
*Idempotency*: `ImplementsAtomicHandling`; with it, what was performed is never answered by a
failure other than a lost answer.

## 5. Proofs

The theorems hold for every set of accounts, identifiers, requests, devices, rules,
categories, media, operations, calls and clients and every bound. They assume only the `ASSUME`s
of the modules, which TLC evaluates in every run: positive amounts, of which some are the
largest; integer openings; records that live for some time; finitely many identifiers and
shares (they are 128-bit);
a null that is no identifier; well-formed requests; derived identifiers that differ. Three
of them have the hypothesis `Skew = 0`, that no movement is dated ahead of the clock:
without it they are false, as the run `ledger_ahead` shows.

Beside those below, most modules have the theorem of their types: `TypeCorrect`,
`OperationsTyped`, `DevicesTyped`, `BookTyped`, `PlansTyped`, `CatalogTyped`; those of
`Access`, `Outbox` and `Idempotency` are parts of `AccessInvariant`, `OInv` and `IInv`.

* **Sums.** Balances, payments and recoveries are folds over finite sets, of which the
  provers know nothing, and induction theorems with an operator parameter are out of their
  reach. `SubsetInduction` in `LedgerProofs` takes a set instead of an operator (the set of the
  subsets of which a claim holds), from the well-foundedness of strict subsets; with it the
  total is had as a function on subsets, then the fold as that total (`Sum`), then the laws
  that the rest cites: a sum over a union, of agreeing terms, of zeros, over renamed elements.
* **LedgerProofs**: `TypeCorrect`, `ReversalsCoherent`, `OpeningRespected`,
  `VersionsCover`, `HistoryGrows`, `LedgerIsBank`, `BalancesNonNegative`. `TypeOK` is
  inductive, and the two invariants are inductive with it. The actions that write a row fall
  in those that write one which is no reversal and is not reversed (`OrdinaryWrite`), and
  `Reverse`. The opening date holds because it is frozen once a movement exists and posting
  judges again the date a draft was given earlier. The action properties follow from each
  step (`RowStep`, `AccountStep`), which the other modules use too. The refinement: with
  `Skew = 0` every movement counts at once, so the balance at an action's instant is the
  balance the policy judged, and a step changes the sums by the movement it adds.
  `BalancesNonNegative` is then the bank's own theorem `BankSolvent` (in `Bank`), carried
  over by the mapping.
* **FinancialOperationsProofs**: `PreviewsCurrent`, `VersionsCoverCommits`,
  `HistoryGrowsWithCommits`, `TransfersStayPaired`, `CommitsMatchQuotes`,
  `OperationsAreBank`, `BalancesNonNegativeWithCommits`, `OpeningRespectedByCommits`,
  `ReversalsCoherentWithCommits`, `PeriodsAddUp`, `CommitsAreAccepted`. A commit is
  related to the ledger by what it does to each row and each account (new rows only; one
  version for every account it touches). `Inv` says of a quote that its versions are not
  ahead of the accounts', and that while they are current, what was read after them is too.
  `PairInv` adds that drafts are of the kinds a client may ask for, so that no edit,
  posting or reversal reaches one side of a transfer. That a commit matches its quote, and
  that it is one step of the bank, come from one account of what its rows add to each
  balance, for the two or three rows of a transfer, the one of a reconciliation and the
  many of a reallocation. `CountInv` gives every kind its effect, and says that the
  original of a reversal stays reversed. With it a period adds up: the balances are
  sums over all rows; in them a reversed row and its reversal cancel, and so do the two
  sides of a transfer, by renaming each source to its destination; what is left is what the
  dashboard counts. It holds also what the deferred triggers ask of a single row; what they ask
  of a reallocation is that its total is kept and that its rows are as many as the accounts
  that change, which are in bijection.
* **SharingProofs**: `SharesAgree`, `CancelledIsFinal`, `DebtsTellPayments`,
  `RecoveryBounded`, `DeadSharesFreeze`, `PositionExplained`. `BookInv` adds that every share's
  claim exists, that a debt is dated exactly when it is cancelled (what the database
  refuses a reopened one by), and that a copy read without a lock still names its share's
  claim, however old it is: the amounts it carries are
  not trusted by the proof, because the code writes both rows from the same copy. `DebtInv`
  adds that a payment is a movement that counts and pays one debt only, so that a reversal
  takes one term out of one sum; `RecoveryInv`, that refunds and shares are of
  expenses that count, so that nothing is taken back of a row whose amount may change. An
  adjustment from a stale copy is caught by the sum over all shares that the
  database takes again. `PositionExplained` rests on one equation, `Balanced`: what movements
  carry that income and spending do not tell (principal, and the part of an expense that its
  shares take off, until the expense is reversed) and what debts are due of it add up to
  zero. Most steps change one term of each sum by the same amount (`DebtWritten`,
  `RowWritten`, `ShareBalances`); the reversal of an expense puts back at once what all its
  shares took off, which is what their claims stop being due, share by share
  (`ClaimsOfExpense`). TLC checked the invariant on an instance of `sharing` first.
* **CatalogProofs**: `HierarchyHasNoCycle`, `ParentsAreActive`, `KindsAgree`. `TreeInv` says
  that locks are
  exclusive, and that a request which has walked part of the way holds every
  ancestor it has seen, and these are still the ancestors: so the walk that reached
  the root is true when the request writes. `HistoryInv` says what a change has found of the
  entries of a category, and a posting of its kind, still holds when they write, unless the
  two overlapped.
* **LedgerClientsProofs**, on `Planning`: `OccurrencesTell`, `AnswersStand`. `PlanInv` adds
  that an occurrence
  exists only for a rule that exists and an instant that has come, so that a draft written
  for it is well formed; `RowStatus` bounds what the ledger may do to a draft, and
  `OccurrencesWritten` is the one fact behind batches, recordings and skips. On `Devices`:
  `RowVersionsSound`, `AccountVersionsSound`, `DeviceIsFaithful`, from
  one invariant `DInv`: the types, which say that an open form is about a row the device has,
  and the two version properties. An accepted version means the row held is the
  server's, so what is posted or reversed is what was shown. `DeviceIsFaithful` says nothing
  of the row a form was filled with: there the code does not keep what one would want.
* **AccessProofs**: `AccessInvariant`, `ChainsDoNotFork`, `EndedIsForEver`,
  `ErasureCompletes`, `FinalizedIsStored`, `OrphansAreLate`, `ObjectsAgree`, `AlarmsAreTrue`. `AInv` says that
  of a sign-in only one session has no replacement
  (`Chained`), which alone may be alive; and what a request has found on its way still
  holds of the sessions it has locked (`Sound`): the session it rotates is that last one, of
  a chain nobody ended, and a walk that has come to the row of the user holds it. So
  of a rotation and of the end of its chain, one holds the last session, and the other
  waits. An erasure deletes only when no other request holds a row, so nobody
  writes on the strength of a row that is gone. `MediaInv` says that a row goes
  only when nothing but a late upload is left of its object (`Covered`), and what each
  request has prepared of that. `OrderInv` says of the time before any answer is lost that
  every token a device keeps, sends or is about to receive is the last of its chain, and no
  two of them are the same (`Orderly`): so none of them is ever presented twice.
* **OutboxProofs**: `WhatIsQueuedIsShown`, `SyncedRowsAreReal`, `NothingIsLost`,
  `RetriesSucceed`, `OperationsApplyOnce`, `ActionsMatchTheScreen`. `OInv` relates the four
  places a write goes through: a record names the version its operation wrote and a version
  the record of the operation that wrote it (so nothing is applied twice, and a retry finds
  its answer); pages, screens and synchronized rows are versions the server has had; one
  operation creates a transaction (`OneCreation`); and an operation names the version of the
  row that was cached when it was queued, or, where the server has none yet, the one that its
  creation will write (`Grounded`), which is what makes the version number the server compares
  stand for a content. That row is the one on the screen, but for an edit whose form was opened
  on another version (`Showing`): `ActionsMatchTheScreen` carries this exception.
  On `Idempotency`: `CallsAreAtomic`, `KeysWorkOnce`, `AnswersTell`, for any number of calls.
  `IInv` says that the call at work is the one with the lock, so the record it looked up is
  still the record when it commits: that commit is then the step in which the abstract
  call is performed, judged at the instant the call read (`ReadsOnce`), and the steps before it,
  but for the reading, are stutters. The other two are proved of
  `AtomicHandling`, whose records follow each other without overlapping (`HInv`), and
  carried over.

Only model-checked: liveness (`Settles`, `CatchesUp`, `DueIsProcessed`, `RequestsEnd`), which
is out of the provers' reach. Every invariant and every action property of a passing run is
stated by a theorem.

## 6. What could come next

`Outbox` with optimistic account rows (`replaceAccounts`, `discardAccountOperation`)
and signing out.

## 7. Not modelled

Savings goals: allocations write one goal under its lock and touch nothing else.
Purchases (merchants, products, line items): reference rows under a version check,
written with their draft; `PROJECT.json` notes the one hazard seen there. Currencies and exchange
rates: operations refuse to mix them, and analytics only reads. Exports and restore:
a read snapshot, and one transaction that fills an empty profile. The sign-in
throttle, password changes and access-token lifetimes. Breakdowns and price statistics.
The calendar of recurring rules: a period is a distance. Tags of rows, notes, audit rows,
pagination. The mobile screens and the local wallet: presentation, and single-user documents
without concurrency.
