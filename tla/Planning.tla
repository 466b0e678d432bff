------------------------------ MODULE Planning ------------------------------
(***************************************************************************)
(* Recurring rules beside the ledger.  A rule falls due again and again; a *)
(* worker, or a request, turns what is due into occurrences: reminders, or *)
(* drafts that the user posts or not.                                      *)
(*                                                                         *)
(* The worker locks the rules it processes and passes over those another   *)
(* transaction holds, and a request that changes a rule or an occurrence   *)
(* locks it first, so each handler is one action.  A batch is one database *)
(* transaction: a single refusal rolls all of it back.  The worker's spans *)
(* the rules of up to a hundred users, of which this module has one: what  *)
(* it says of a refused rule is to be read of the rules of all of them.    *)
(*                                                                         *)
(* An occurrence is known by its rule and its instant, and its draft by    *)
(* the occurrence: both identifiers are derived, and never drawn.          *)
(*                                                                         *)
(* The calendar is abstracted to distances between due instants.  Of the   *)
(* reasons to refuse a draft, one is kept: the opening date of its account *)
(* has moved past it; archived categories and merchants act alike.         *)
(***************************************************************************)
EXTENDS Ledger

CONSTANTS
    Rules,         \* identifiers of the rules
    Terms,         \* what a rule may ask for: the fields of its drafts
    Periods,       \* the distances between two due instants of a rule
    MaxPeriod,     \* bound: the longest of them
    DraftOf,       \* the transaction identifier derived from <<rule, instant>>
    BatchLimit,    \* how many rules one batch may process
    MaxEdits       \* bound: from this version on, no user edits a rule

ASSUME PeriodsAssumption == /\ MaxPeriod \in Nat /\ Periods \subseteq 1 .. MaxPeriod
                            /\ BatchLimit \in Nat \ {0}
ASSUME EditsAssumption   == MaxEdits \in Nat \ {0}

\* A rule can be due at any instant of the clock, and advances past the last.
Instants == 0 .. MaxNow + MaxPeriod
Slots    == Rules \X Instants

ASSUME DraftOfAssumption ==
    /\ DraftOf \in [Slots -> Ids]
    /\ \A s, q \in Slots : DraftOf[s] = DraftOf[q] => s = q

Term == [kind : CoreKinds, account : Accounts, amount : Amounts, classified : BOOLEAN]
Rule == [status : {"ACTIVE", "PAUSED", "ARCHIVED"}, mode : {"REMINDER", "AUTO_DRAFT"},
         terms : Term, period : Periods, due : Instants, version : Nat \ {0}]
Occurrence == [status : {"DUE", "DRAFT_CREATED", "RECORDED", "SKIPPED"},
               transaction : Ids \cup {NoId}]

ASSUME TermsAssumption == Terms \subseteq Term

NoRule       == [status |-> "NONE"]
NoOccurrence == [status |-> "NONE"]

VARIABLES
    rules,        \* the recurring_rules table
    occurrences   \* the recurring_occurrences table
plans == <<rules, occurrences>>
pvars == <<now, acct, tx, rules, occurrences>>

-----------------------------------------------------------------------------
(* Rules *)

CreateRule(r, terms, mode, period, due) ==
    /\ rules[r] = NoRule
    /\ Exists(terms.account)
    /\ rules' = [rules EXCEPT ![r] =
                   [status |-> "ACTIVE", mode |-> mode, terms |-> terms,
                    period |-> period, due |-> due, version |-> 1]]
    /\ UNCHANGED <<now, acct, tx, occurrences>>

\* The schedule may move to any instant, one that was processed already included.
UpdateRule(r, v, status, mode, terms, period, due) ==
    /\ rules[r] # NoRule
    /\ RequireVersion(rules[r], v)
    /\ v < MaxEdits
    /\ Exists(terms.account)
    /\ terms.kind = rules[r].terms.kind
    /\ rules' = [rules EXCEPT ![r].status = status, ![r].mode = mode, ![r].terms = terms,
                              ![r].period = period, ![r].due = due, ![r].version = v + 1]
    /\ UNCHANGED <<now, acct, tx, occurrences>>

-----------------------------------------------------------------------------
(* Drafts of occurrences *)

DraftFor(r, t) ==
    [kind |-> rules[r].terms.kind, amount |-> rules[r].terms.amount,
     account |-> rules[r].terms.account, at |-> t,
     classified |-> rules[r].terms.classified]

FirstDraft(r, t) == DraftRow(DraftFor(r, t), 1)

\* The drafts of a set of slots.
CreateDrafts(slots) ==
    /\ \A s \in slots : tx[DraftOf[s]] = NoRow /\ DraftAllowed(DraftFor(s[1], s[2]))
    /\ tx' = [i \in Ids |->
                IF i \in {DraftOf[s] : s \in slots}
                THEN LET slot == CHOOSE s \in slots : DraftOf[s] = i
                     IN  FirstDraft(slot[1], slot[2])
                ELSE tx[i]]

-----------------------------------------------------------------------------
(* Processing what is due *)

MutDueLate(r) == rules[r].status = "ACTIVE" /\ rules[r].due < now

Due(r) == rules[r].status = "ACTIVE" /\ rules[r].due <= now

Slot(r) == <<r, rules[r].due>>

\* The rules of one batch: the earliest of those due that nobody else has locked.
Batches(locked) ==
    LET free == {r \in Rules : Due(r)} \ locked
    IN  {batch \in SUBSET free :
            /\ Cardinality(batch) = Min({BatchLimit, Cardinality(free)})
            /\ \A r \in batch, q \in free \ batch : rules[r].due <= rules[q].due}

\* The next instant of a rule, and the version that tells.
Advanced(rule) == [rule EXCEPT !.due = @ + rule.period, !.version = @ + 1]

MutOverwrites(batch) == {Slot(r) : r \in batch}

\* An occurrence that exists already is left as it is, whatever became of it.
NewSlots(batch) == {Slot(r) : r \in {q \in batch : occurrences[Slot(q)] = NoOccurrence}}

ProcessDue(batch) ==
    LET new    == NewSlots(batch)
        auto   == {s \in new : rules[s[1]].mode = "AUTO_DRAFT"}
    IN  /\ batch # {}
        /\ CreateDrafts(auto)
        /\ occurrences' = [s \in Slots |->
                             IF s \in auto
                             THEN [status |-> "DRAFT_CREATED", transaction |-> DraftOf[s]]
                             ELSE IF s \in new
                             THEN [status |-> "DUE", transaction |-> NoId]
                             ELSE occurrences[s]]
        /\ rules' = [r \in Rules |-> IF r \in batch THEN Advanced(rules[r]) ELSE rules[r]]
        /\ UNCHANGED <<now, acct>>

\* The worker, or the request that does the same.
Work(locked) == \E batch \in Batches(locked) : ProcessDue(batch)

-----------------------------------------------------------------------------
(* Answering an occurrence *)

Recordable(s) == occurrences[s].status = "DUE"

\* The draft is written from what the rule says now.
RecordOccurrence(s) ==
    /\ Recordable(s)
    /\ CreateDrafts({s})
    /\ occurrences' = [occurrences EXCEPT ![s] =
                         [status |-> "DRAFT_CREATED", transaction |-> DraftOf[s]]]
    /\ UNCHANGED <<now, acct, rules>>

SkipOccurrence(s) ==
    /\ occurrences[s].status = "DUE"
    /\ occurrences' = [occurrences EXCEPT ![s].status = "SKIPPED"]
    /\ UNCHANGED <<now, acct, tx, rules>>

MutClosesNothing == UNCHANGED occurrences

\* Posting a draft closes the occurrence it came from.
CloseOccurrences ==
    occurrences' = [s \in Slots |->
                      IF /\ occurrences[s].status = "DRAFT_CREATED"
                         /\ tx'[occurrences[s].transaction].status = "POSTED"
                      THEN [occurrences[s] EXCEPT !.status = "RECORDED"]
                      ELSE occurrences[s]]

-----------------------------------------------------------------------------
(* The specification *)

PInit ==
    /\ Init
    /\ rules = [r \in Rules |-> NoRule]
    /\ occurrences = [s \in Slots |-> NoOccurrence]

RuleNext ==
    \E r \in Rules, terms \in Terms, mode \in {"REMINDER", "AUTO_DRAFT"},
       period \in Periods, due \in Instants :
        \/ CreateRule(r, terms, mode, period, due)
        \/ \E v \in 1 .. MaxEdits, status \in {"ACTIVE", "PAUSED", "ARCHIVED"} :
              UpdateRule(r, v, status, mode, terms, period, due)

WorkNext == \E locked \in SUBSET Rules : Work(locked)

OccurrenceNext == \E s \in Slots : RecordOccurrence(s) \/ SkipOccurrence(s)

\* A client draws its identifiers, and never draws a derived one.
LedgerNext ==
    /\ Next
    /\ \A s \in Slots : tx[DraftOf[s]] = NoRow => tx'[DraftOf[s]] = NoRow
    /\ CloseOccurrences
    /\ UNCHANGED rules

PNext == LedgerNext \/ RuleNext \/ WorkNext \/ OccurrenceNext

\* The worker runs again and again, and now and then finds no rule locked.
PSpec == PInit /\ [][PNext]_pvars /\ WF_pvars(Work({}))

-----------------------------------------------------------------------------
(* Properties *)

\* Every row of the plans is well formed.
PTypeOK ==
    /\ TypeOK
    /\ rules \in [Rules -> Rule \cup {NoRule}]
    /\ occurrences \in [Slots -> Occurrence \cup {NoOccurrence}]

\* An occurrence tells what became of it: it has a draft exactly when it says so,
\* the draft it derives and no other, and it is recorded exactly when that draft
\* was posted, however the batches, the answers and the postings interleave.
OccurrenceTellsDraft ==
    \A s \in Slots :
        LET occurrence == occurrences[s]
            row        == tx[DraftOf[s]]
        IN  /\ row = NoRow <=> occurrence.status \in {"NONE", "DUE", "SKIPPED"}
            /\ row.status = "DRAFT" <=> occurrence.status = "DRAFT_CREATED"
            /\ row # NoRow => occurrence.transaction = DraftOf[s]

\* What was answered stays answered: an occurrence is never created again, undone
\* or answered twice, even when the schedule of its rule moves back over it.
OccurrencesOnlyMoveOn ==
    [][\A s \in Slots : occurrences'[s] # occurrences[s] =>
          <<occurrences[s].status, occurrences'[s].status>> \in
              {<<"NONE", "DUE">>, <<"NONE", "DRAFT_CREATED">>, <<"DUE", "DRAFT_CREATED">>,
               <<"DUE", "SKIPPED">>, <<"DRAFT_CREATED", "RECORDED">>}]_pvars

\* A rule whose next occurrence is a draft that the ledger refuses: it stops its
\* whole batch, the rules of the other users in the worker's transaction included.
Poisoned(r) ==
    /\ rules[r].status = "ACTIVE" /\ rules[r].due <= now
    /\ rules[r].mode = "AUTO_DRAFT"
    /\ occurrences[Slot(r)] = NoOccurrence
    /\ ~DraftAllowed(DraftFor(r, rules[r].due))

\* Unless a refused draft, of this user or of another one in its batch, keeps stopping the
\* worker, it catches up with every rule that is due, in spite of the size of its batches
\* and of the locks of requests.
DueIsProcessed ==
    <>[](\A r \in Rules : ~Poisoned(r)) =>
        \A r \in Rules : []<>~(rules[r].status = "ACTIVE" /\ rules[r].due <= now)
=============================================================================
