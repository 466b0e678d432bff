------------------------ MODULE LedgerClientsProofs ------------------------
(***************************************************************************)
(* Proofs about the two clients of the ledger that write to it on what     *)
(* they were told earlier.                                                 *)
(*                                                                         *)
(* The recurring rules (Planning): an occurrence tells what became of its  *)
(* draft, and only moves on, for every number of rules, every schedule and *)
(* every size of a batch.  The devices (Devices): optimistic versions make *)
(* a device safe, for every set of accounts, identifiers and requests and  *)
(* any number of other devices.                                            *)
(***************************************************************************)
EXTENDS Planning, Devices, LedgerProofs

USE DEF Times, Versions, CoreKinds, Kinds, Effects, RequireVersion, RequireDraft,
        RequireReversible, FinancialFieldsMutable

-----------------------------------------------------------------------------
(* The recurring rules: the inductive invariant *)

PlanTypes ==
    /\ TypeOK
    /\ rules \in [Rules -> Rule \cup {NoRule}]
    /\ occurrences \in [Slots -> Occurrence \cup {NoOccurrence}]

\* An occurrence exists only for a rule that exists and an instant that has come.
OccurrencesAreDue ==
    \A s \in Slots : occurrences[s] # NoOccurrence => s[2] <= now /\ rules[s[1]] # NoRule

PlanInv == PlanTypes /\ OccurrencesAreDue /\ OccurrenceTellsDraft

LEMMA SlotFacts ==
    ASSUME NEW s \in Slots
    PROVE  /\ s[1] \in Rules /\ s[2] \in Instants /\ s[2] \in Nat
           /\ DraftOf[s] \in Ids
           /\ \A q \in Slots : DraftOf[s] = DraftOf[q] => s = q
BY DraftOfAssumption DEF Slots, Instants, DraftOfAssumption

-----------------------------------------------------------------------------
(* Writing drafts *)

LEMMA DraftsWritten ==
    ASSUME PlanTypes, NEW slots \in SUBSET Slots, CreateDrafts(slots),
           \A s \in slots : rules[s[1]] \in Rule /\ s[2] <= now
    PROVE  /\ tx' \in [Ids -> Row \cup {NoRow}]
           /\ \A s \in slots : /\ tx[DraftOf[s]] = NoRow
                               /\ tx'[DraftOf[s]].status = "DRAFT"
                               /\ tx'[DraftOf[s]] # NoRow
           /\ \A s \in Slots \ slots : tx'[DraftOf[s]] = tx[DraftOf[s]]
<1>1. \A s \in slots : FirstDraft(s[1], s[2]) \in Row /\ FirstDraft(s[1], s[2]).status = "DRAFT"
    <2> SUFFICES ASSUME NEW s \in slots
                 PROVE  FirstDraft(s[1], s[2]) \in Row /\ FirstDraft(s[1], s[2]).status = "DRAFT"
        OBVIOUS
    <2>1. s[2] \in Times
        BY SlotFacts, BoundsAssumption DEF PlanTypes, TypeOK, BoundsAssumption
    <2>2. rules[s[1]].terms \in Term
        BY DEF Rule
    <2>3. DraftFor(s[1], s[2]) \in Draft
        BY <2>1, <2>2 DEF DraftFor, Draft, Term
    <2>4. 1 \in Versions
        BY BoundsAssumption DEF BoundsAssumption
    <2> HIDE DEF Versions
    <2> QED
        BY <2>3, <2>4, DraftRowType DEF FirstDraft, DraftRow
<1> DEFINE owner(i) == CHOOSE s \in slots : DraftOf[s] = i
<1>2. \A i \in Ids : i \in {DraftOf[s] : s \in slots} =>
         owner(i) \in slots /\ tx'[i] = FirstDraft(owner(i)[1], owner(i)[2])
    BY DEF CreateDrafts
<1>3. \A i \in Ids : i \notin {DraftOf[s] : s \in slots} => tx'[i] = tx[i]
    BY DEF CreateDrafts
<1> HIDE DEF owner
<1>4. tx' \in [Ids -> Row \cup {NoRow}]
    <2>1. \A i \in Ids : tx'[i] \in Row \cup {NoRow}
        BY <1>1, <1>2, <1>3 DEF PlanTypes, TypeOK
    <2>2. tx' = [i \in Ids |-> tx'[i]]
        BY DEF CreateDrafts
    <2> QED
        BY <2>1, <2>2
<1>5. \A s \in slots : tx'[DraftOf[s]].status = "DRAFT" /\ tx[DraftOf[s]] = NoRow
    BY <1>1, <1>2, SlotFacts DEF CreateDrafts
<1>6. \A s \in Slots \ slots : tx'[DraftOf[s]] = tx[DraftOf[s]]
    <2> SUFFICES ASSUME NEW s \in Slots \ slots
                 PROVE  DraftOf[s] \notin {DraftOf[q] : q \in slots}
        BY <1>3, SlotFacts
    <2> QED
        BY SlotFacts
<1> QED
    BY <1>4, <1>5, <1>6 DEF NoRow

-----------------------------------------------------------------------------
(* The ledger *)

\* A row that exists goes from draft to posted and never back.
RowStatusMovesOn(i) ==
    /\ tx'[i] # NoRow
    /\ tx[i].status = "DRAFT" => tx'[i].status \in {"DRAFT", "POSTED"}
    /\ tx[i].status # "DRAFT" => tx'[i].status # "DRAFT"

LEMMA RowStatus ==
    ASSUME TypeOK, [Next]_vars, NEW i \in Ids, tx[i] # NoRow
    PROVE  RowStatusMovesOn(i)
<1> USE DEF RowStatusMovesOn
<1>1. tx[i] \in Row
    BY DEF TypeOK
<1>2. CASE UNCHANGED tx
    BY <1>1, <1>2
<1>3. ASSUME NEW j \in Ids, NEW draft \in Drafts, CreateDraft(j, draft)
      PROVE  RowStatusMovesOn(i)
    BY <1>3 DEF CreateDraft, TypeOK
<1>4. ASSUME NEW j \in Ids, NEW v \in Versions, NEW draft \in Drafts, UpdateDraft(j, v, draft)
      PROVE  RowStatusMovesOn(i)
    BY <1>4 DEF UpdateDraft, DraftRow, NoRow, TypeOK
<1>5. ASSUME NEW j \in Ids, NEW v \in Versions, Post(j, v)
      PROVE  RowStatusMovesOn(i)
    BY <1>1, <1>5 DEF Post, NoRow, TypeOK, Row
<1>6. ASSUME NEW j \in Ids, NEW v \in Versions, NEW r \in Ids, NEW at \in Times,
             Reverse(j, v, r, at)
      PROVE  RowStatusMovesOn(i)
    <2>1. i # r /\ tx[j].status = "POSTED"
        BY <1>6 DEF Reverse
    <2>2. CASE i # j
        BY <1>1, <1>6, <2>1, <2>2 DEF Reverse, TypeOK
    <2>3. CASE i = j
        <3>1. tx'[i] = [tx[i] EXCEPT !.status = "REVERSED", !.version = v + 1]
            BY <1>6, <2>1, <2>3 DEF Reverse, TypeOK
        <3>2. tx'[i].status = "REVERSED"
            BY <1>1, <3>1 DEF Row
        <3> QED
            BY <2>1, <2>3, <3>2 DEF NoRow
    <2> QED
        BY <2>2, <2>3
<1> QED
    BY <1>2, <1>3, <1>4, <1>5, <1>6
    DEF Next, AccountNext, TransactionNext, Tick, CreateAccount, UpdateAccount, vars

LEMMA LedgerStep ==
    ASSUME PlanInv, LedgerNext
    PROVE  PlanInv'
<1>1. TypeOK'
    BY TypeStep DEF LedgerNext, PlanInv, PlanTypes
<1>2. now <= now'
    <2>1. now \in Int
        BY BoundsAssumption DEF PlanInv, PlanTypes, TypeOK, BoundsAssumption
    <2>2. now' = now \/ now' = now + 1
        BY ClockMoves DEF LedgerNext
    <2> QED
        BY <2>1, <2>2
<1>3. ASSUME NEW s \in Slots
      PROVE  /\ occurrences'[s] \in Occurrence \cup {NoOccurrence}
             /\ occurrences'[s] # NoOccurrence => occurrences[s] # NoOccurrence
             /\ tx'[DraftOf[s]] = NoRow
                   <=> occurrences'[s].status \in {"NONE", "DUE", "SKIPPED"}
             /\ tx'[DraftOf[s]].status = "DRAFT" <=> occurrences'[s].status = "DRAFT_CREATED"
             /\ tx'[DraftOf[s]] # NoRow => occurrences'[s].transaction = DraftOf[s]
    <2> DEFINE o == occurrences[s]
               i == DraftOf[s]
    <2>1. /\ o \in Occurrence \cup {NoOccurrence} /\ i \in Ids
          /\ tx[i] = NoRow <=> o.status \in {"NONE", "DUE", "SKIPPED"}
          /\ tx[i].status = "DRAFT" <=> o.status = "DRAFT_CREATED"
          /\ tx[i] # NoRow => o.transaction = i
        BY SlotFacts DEF PlanInv, PlanTypes, OccurrenceTellsDraft
    <2>2. occurrences'[s] = IF o.status = "DRAFT_CREATED" /\ tx'[o.transaction].status = "POSTED"
                            THEN [o EXCEPT !.status = "RECORDED"]
                            ELSE o
        BY DEF LedgerNext, CloseOccurrences
    <2> HIDE DEF i, o
    <2>3. CASE tx[i] = NoRow
        <3>1. tx'[i] = NoRow
            BY <2>3 DEF LedgerNext, i
        <3> QED
            BY <2>1, <2>2, <2>3, <3>1 DEF NoRow, o, i
    <2>4. CASE tx[i] # NoRow /\ tx[i].status # "DRAFT"
        <3>1. tx'[i] # NoRow /\ tx'[i].status # "DRAFT"
            BY <2>1, <2>4, RowStatus DEF RowStatusMovesOn, LedgerNext, PlanInv, PlanTypes
        <3> QED
            BY <2>1, <2>2, <2>4, <3>1 DEF o, i
    <2>5. CASE tx[i] # NoRow /\ tx[i].status = "DRAFT"
        <3>1. tx'[i] # NoRow /\ tx'[i].status \in {"DRAFT", "POSTED"}
            BY <2>1, <2>5, RowStatus DEF RowStatusMovesOn, LedgerNext, PlanInv, PlanTypes
        <3>2. o \in Occurrence /\ o # NoOccurrence /\ o.transaction = i
              /\ o.status = "DRAFT_CREATED"
            BY <2>1, <2>5 DEF NoOccurrence
        <3>3. CASE tx'[i].status = "POSTED"
            <4>1. occurrences'[s] = [o EXCEPT !.status = "RECORDED"]
                BY <2>2, <3>2, <3>3
            <4>2. occurrences'[s] \in Occurrence /\ occurrences'[s].status = "RECORDED"
                  /\ occurrences'[s].transaction = i
                BY <3>2, <4>1 DEF Occurrence
            <4> QED
                BY <3>1, <3>2, <3>3, <4>2 DEF o, i
        <3>4. CASE tx'[i].status = "DRAFT"
            BY <2>2, <3>1, <3>2, <3>4 DEF o, i
        <3> QED
            BY <3>1, <3>3, <3>4
    <2> QED
        BY <2>3, <2>4, <2>5
<1>4. occurrences' = [s \in Slots |-> occurrences'[s]]
    BY DEF LedgerNext, CloseOccurrences
<1>5. PlanTypes'
    BY <1>1, <1>3, <1>4 DEF LedgerNext, PlanInv, PlanTypes
<1>6. OccurrencesAreDue'
    <2> SUFFICES ASSUME NEW s \in Slots, occurrences'[s] # NoOccurrence
                 PROVE  s[2] <= now' /\ rules'[s[1]] # NoRule
        BY DEF OccurrencesAreDue
    <2>1. s[2] <= now /\ rules[s[1]] # NoRule
        BY <1>3 DEF PlanInv, OccurrencesAreDue
    <2>2. rules' = rules
        BY DEF LedgerNext
    <2> QED
        BY <1>1, <1>2, <2>1, <2>2, SlotFacts DEF PlanInv, PlanTypes, TypeOK
<1>7. OccurrenceTellsDraft'
    BY <1>3 DEF OccurrenceTellsDraft
<1> QED
    BY <1>5, <1>6, <1>7 DEF PlanInv

-----------------------------------------------------------------------------
(* Occurrences *)

\* Occurrences are created or answered, some of them with a draft.
LEMMA OccurrencesWritten ==
    ASSUME PlanInv, NEW auto \in SUBSET Slots, CreateDrafts(auto), UNCHANGED <<now, acct>>,
           \A s \in auto : rules[s[1]] \in Rule /\ s[2] <= now,
           rules' \in [Rules -> Rule \cup {NoRule}],
           \A r \in Rules : rules[r] # NoRule => rules'[r] # NoRule,
           occurrences' \in [Slots -> Occurrence \cup {NoOccurrence}],
           \A s \in auto : occurrences'[s] = [status |-> "DRAFT_CREATED",
                                              transaction |-> DraftOf[s]],
           \A s \in Slots \ auto :
              \/ occurrences'[s] = occurrences[s]
              \/ /\ occurrences[s].status \in {"NONE", "DUE"}
                 /\ s[2] <= now /\ rules[s[1]] # NoRule
                 /\ occurrences'[s].status \in {"DUE", "SKIPPED"}
    PROVE  PlanInv'
<1>1. /\ tx' \in [Ids -> Row \cup {NoRow}]
      /\ \A s \in auto : /\ tx'[DraftOf[s]].status = "DRAFT" /\ tx'[DraftOf[s]] # NoRow
      /\ \A s \in Slots \ auto : tx'[DraftOf[s]] = tx[DraftOf[s]]
    BY DraftsWritten DEF PlanInv
<1>2. PlanTypes'
    BY <1>1 DEF PlanInv, PlanTypes, TypeOK
<1>3. OccurrencesAreDue'
    <2> SUFFICES ASSUME NEW s \in Slots, occurrences'[s] # NoOccurrence
                 PROVE  s[2] <= now /\ rules'[s[1]] # NoRule
        BY DEF OccurrencesAreDue
    <2>1. s[1] \in Rules
        BY SlotFacts
    <2>2. rules[s[1]] \in Rule => rules[s[1]] # NoRule
        BY DEF Rule, NoRule
    <2>3. CASE s \in auto
        BY <2>1, <2>2, <2>3
    <2>4. CASE s \notin auto
        <3>1. s[2] <= now /\ rules[s[1]] # NoRule
            BY <2>4 DEF PlanInv, OccurrencesAreDue
        <3> QED
            BY <2>1, <3>1
    <2> QED
        BY <2>3, <2>4
<1>4. OccurrenceTellsDraft'
    <2> SUFFICES ASSUME NEW s \in Slots
                 PROVE  /\ tx'[DraftOf[s]] = NoRow
                              <=> occurrences'[s].status \in {"NONE", "DUE", "SKIPPED"}
                        /\ tx'[DraftOf[s]].status = "DRAFT"
                              <=> occurrences'[s].status = "DRAFT_CREATED"
                        /\ tx'[DraftOf[s]] # NoRow => occurrences'[s].transaction = DraftOf[s]
        BY DEF OccurrenceTellsDraft
    <2>1. CASE s \in auto
        <3> DEFINE written == [status |-> "DRAFT_CREATED", transaction |-> DraftOf[s]]
        <3>0. occurrences'[s] = written
            BY <2>1
        <3>1. occurrences'[s].status = "DRAFT_CREATED" /\ occurrences'[s].transaction = DraftOf[s]
            <4>1. written.status = "DRAFT_CREATED" /\ written.transaction = DraftOf[s]
                OBVIOUS
            <4> HIDE DEF written
            <4> QED
                BY <3>0, <4>1
        <3>2. tx'[DraftOf[s]].status = "DRAFT" /\ tx'[DraftOf[s]] # NoRow
            BY <1>1, <2>1
        <3> QED
            BY <3>1, <3>2
    <2>2. CASE s \notin auto
        <3>1. tx'[DraftOf[s]] = tx[DraftOf[s]]
            BY <1>1, <2>2
        <3>2. /\ tx[DraftOf[s]] = NoRow <=> occurrences[s].status \in {"NONE", "DUE", "SKIPPED"}
              /\ tx[DraftOf[s]].status = "DRAFT" <=> occurrences[s].status = "DRAFT_CREATED"
              /\ tx[DraftOf[s]] # NoRow => occurrences[s].transaction = DraftOf[s]
            BY DEF PlanInv, OccurrenceTellsDraft
        <3> QED
            BY <2>2, <3>1, <3>2 DEF NoRow
    <2> QED
        BY <2>1, <2>2
<1> QED
    BY <1>2, <1>3, <1>4 DEF PlanInv

\* What one batch does, rule by rule and slot by slot.
LEMMA BatchFacts ==
    ASSUME PlanInv, NEW locked, NEW batch \in Batches(locked), NEW r \in batch
    PROVE  /\ r \in Rules /\ rules[r] \in Rule
           /\ Slot(r) \in Slots /\ Slot(r)[1] = r /\ Slot(r)[2] = rules[r].due
           /\ rules[r].due <= now
           /\ Advanced(rules[r]) \in Rule
<1>1. r \in Rules /\ Due(r)
    BY DEF Batches
<1>2. rules[r] \in Rule
    BY <1>1 DEF Due, NoRule, PlanInv, PlanTypes
<1>3. rules[r].due \in Instants /\ rules[r].due <= now /\ rules[r].period \in 1 .. MaxPeriod
    BY <1>1, <1>2, PeriodsAssumption DEF Due, Rule, PeriodsAssumption
<1>4. rules[r].due + rules[r].period \in Instants
    <2> DEFINE due == rules[r].due
               period == rules[r].period
    <2>1. now \in 0 .. MaxNow /\ MaxNow \in Nat /\ MaxPeriod \in Nat
        BY BoundsAssumption, PeriodsAssumption
        DEF PlanInv, PlanTypes, TypeOK, BoundsAssumption, PeriodsAssumption
    <2>2. due \in Nat /\ due <= now /\ period \in 1 .. MaxPeriod
        BY <1>3, <2>1 DEF Instants
    <2> HIDE DEF due, period
    <2>3. due + period \in Instants
        BY <2>1, <2>2 DEF Instants
    <2> QED
        BY <2>3 DEF due, period
<1>5. Advanced(rules[r]) \in Rule
    <2> DEFINE rule == rules[r]
               next == rule.due + rule.period
    <2>1. rule \in Rule /\ next \in Instants /\ rule.version + 1 \in Nat \ {0}
        BY <1>2, <1>4 DEF Rule
    <2>2. Advanced(rule) = [[rule EXCEPT !.due = next] EXCEPT !.version = rule.version + 1]
        BY <2>1 DEF Advanced, Rule
    <2> HIDE DEF rule, next
    <2>3. [rule EXCEPT !.due = next] \in Rule
          /\ [rule EXCEPT !.due = next].version = rule.version
        BY <2>1 DEF Rule
    <2>4. Advanced(rule) \in Rule
        BY <2>1, <2>2, <2>3 DEF Rule
    <2> QED
        BY <2>4 DEF rule
<1>6. <<r, rules[r].due>> \in Slots
    BY <1>1, <1>3 DEF Slots
<1>7. Slot(r) \in Slots /\ Slot(r)[1] = r /\ Slot(r)[2] = rules[r].due
    BY <1>6 DEF Slot
<1> QED
    BY <1>1, <1>2, <1>3, <1>5, <1>7

LEMMA ProcessStep ==
    ASSUME PlanInv, NEW locked, NEW batch \in Batches(locked), ProcessDue(batch)
    PROVE  PlanInv'
<1> DEFINE new  == NewSlots(batch)
           auto == {s \in new : rules[s[1]].mode = "AUTO_DRAFT"}
<1>1. \A s \in new : /\ s \in Slots /\ rules[s[1]] \in Rule /\ s[2] <= now
                     /\ occurrences[s] = NoOccurrence
    BY BatchFacts DEF NewSlots
<1>2. CreateDrafts(auto) /\ UNCHANGED <<now, acct>>
    BY DEF ProcessDue
<1>3. occurrences' = [s \in Slots |->
                        IF s \in auto
                        THEN [status |-> "DRAFT_CREATED", transaction |-> DraftOf[s]]
                        ELSE IF s \in new
                        THEN [status |-> "DUE", transaction |-> NoId]
                        ELSE occurrences[s]]
    BY DEF ProcessDue
<1>4. auto \subseteq new
    OBVIOUS
<1> HIDE DEF auto, new
<1>5. occurrences' \in [Slots -> Occurrence \cup {NoOccurrence}]
    BY <1>3, SlotFacts DEF Occurrence, PlanInv, PlanTypes
<1>6. rules' \in [Rules -> Rule \cup {NoRule}]
    BY BatchFacts DEF ProcessDue, PlanInv, PlanTypes
<1>7. \A s \in Slots \ auto :
         \/ occurrences'[s] = occurrences[s]
         \/ /\ occurrences[s].status \in {"NONE", "DUE"}
            /\ s[2] <= now /\ rules[s[1]] # NoRule
            /\ occurrences'[s].status \in {"DUE", "SKIPPED"}
    BY <1>1, <1>3 DEF NoOccurrence, Rule, NoRule
<1>8. \A s \in auto : occurrences'[s] = [status |-> "DRAFT_CREATED", transaction |-> DraftOf[s]]
    BY <1>1, <1>3, <1>4
<1>9. \A r \in Rules : rules[r] # NoRule => rules'[r] # NoRule
    <2>1. \A r \in batch : Advanced(rules[r]) # NoRule
        BY BatchFacts DEF Rule, NoRule
    <2> QED
        BY <2>1 DEF ProcessDue
<1> QED
    BY <1>1, <1>2, <1>4, <1>5, <1>6, <1>7, <1>8, <1>9, OccurrencesWritten

LEMMA AnswerStep ==
    ASSUME PlanInv, NEW s \in Slots, RecordOccurrence(s) \/ SkipOccurrence(s)
    PROVE  PlanInv'
<1>1. /\ occurrences[s].status = "DUE" /\ occurrences[s] # NoOccurrence
      /\ s[2] <= now /\ rules[s[1]] # NoRule
    BY DEF RecordOccurrence, Recordable, SkipOccurrence, NoOccurrence, PlanInv, OccurrencesAreDue
<1>2. occurrences[s] \in Occurrence
    BY <1>1 DEF PlanInv, PlanTypes
<1>3. CASE RecordOccurrence(s)
    <2>0. rules[s[1]] \in Rule
        BY <1>1, SlotFacts DEF PlanInv, PlanTypes
    <2>1. [status |-> "DRAFT_CREATED", transaction |-> DraftOf[s]] \in Occurrence
        BY SlotFacts DEF Occurrence
    <2>2. occurrences' \in [Slots -> Occurrence \cup {NoOccurrence}]
        BY <1>3, <2>1 DEF RecordOccurrence, PlanInv, PlanTypes
    <2>3. /\ occurrences'[s] = [status |-> "DRAFT_CREATED", transaction |-> DraftOf[s]]
          /\ \A q \in Slots \ {s} : occurrences'[q] = occurrences[q]
        BY <1>3 DEF RecordOccurrence, PlanInv, PlanTypes
    <2>4. CreateDrafts({s}) /\ UNCHANGED <<now, acct, rules>>
        BY <1>3 DEF RecordOccurrence
    <2>5. rules' \in [Rules -> Rule \cup {NoRule}]
        BY <2>4 DEF PlanInv, PlanTypes
    <2> QED
        BY <1>1, <2>0, <2>2, <2>3, <2>4, <2>5, OccurrencesWritten
<1>4. CASE SkipOccurrence(s)
    <2>1. [occurrences[s] EXCEPT !.status = "SKIPPED"] \in Occurrence
          /\ [occurrences[s] EXCEPT !.status = "SKIPPED"].status = "SKIPPED"
        BY <1>2 DEF Occurrence
    <2>2. /\ occurrences' = [occurrences EXCEPT ![s] = [occurrences[s] EXCEPT !.status = "SKIPPED"]]
          /\ UNCHANGED <<now, acct, tx, rules>>
        BY <1>4 DEF SkipOccurrence
    <2>3. occurrences' \in [Slots -> Occurrence \cup {NoOccurrence}]
        BY <2>1, <2>2 DEF PlanInv, PlanTypes
    <2>4. occurrences'[s].status = "SKIPPED" /\ \A q \in Slots \ {s} : occurrences'[q] = occurrences[q]
        BY <2>1, <2>2 DEF PlanInv, PlanTypes
    <2>5. CreateDrafts({})
        BY <2>2 DEF CreateDrafts, PlanInv, PlanTypes, TypeOK
    <2>6. rules' \in [Rules -> Rule \cup {NoRule}]
        BY <2>2 DEF PlanInv, PlanTypes
    <2> QED
        BY <1>1, <2>2, <2>3, <2>4, <2>5, <2>6, OccurrencesWritten
<1> QED
    BY <1>3, <1>4

LEMMA RuleStays ==
    ASSUME RuleNext
    PROVE  now' = now /\ acct' = acct /\ tx' = tx /\ occurrences' = occurrences
<1>1. ASSUME NEW r, NEW terms, NEW mode, NEW period, NEW due,
             CreateRule(r, terms, mode, period, due)
      PROVE  now' = now /\ acct' = acct /\ tx' = tx /\ occurrences' = occurrences
    BY <1>1 DEF CreateRule
<1>2. ASSUME NEW r, NEW v, NEW status, NEW terms, NEW mode, NEW period, NEW due,
             UpdateRule(r, v, status, mode, terms, period, due)
      PROVE  now' = now /\ acct' = acct /\ tx' = tx /\ occurrences' = occurrences
    BY <1>2 DEF UpdateRule
<1> QED
    BY <1>1, <1>2 DEF RuleNext

LEMMA RuleStep ==
    ASSUME PlanInv, RuleNext
    PROVE  PlanInv'
<1> USE TermsAssumption DEF TermsAssumption
<1>1. UNCHANGED <<now, acct, tx, occurrences>>
    BY RuleStays
<1>2. rules' \in [Rules -> Rule \cup {NoRule}]
    <2>1. ASSUME NEW r \in Rules, NEW terms \in Terms, NEW mode \in {"REMINDER", "AUTO_DRAFT"},
                 NEW period \in Periods, NEW due \in Instants,
                 CreateRule(r, terms, mode, period, due)
          PROVE  rules' \in [Rules -> Rule \cup {NoRule}]
        BY <2>1 DEF CreateRule, Rule, PlanInv, PlanTypes
    <2>2. ASSUME NEW r \in Rules, NEW terms \in Terms, NEW mode \in {"REMINDER", "AUTO_DRAFT"},
                 NEW period \in Periods, NEW due \in Instants, NEW v \in 1 .. MaxEdits,
                 NEW status \in {"ACTIVE", "PAUSED", "ARCHIVED"},
                 UpdateRule(r, v, status, mode, terms, period, due)
          PROVE  rules' \in [Rules -> Rule \cup {NoRule}]
        <3>1. rules[r] \in Rule /\ v + 1 \in Nat \ {0}
            BY <2>2, EditsAssumption DEF UpdateRule, PlanInv, PlanTypes, EditsAssumption
        <3> QED
            BY <2>2, <3>1 DEF UpdateRule, Rule, PlanInv, PlanTypes
    <2> QED
        BY <2>1, <2>2 DEF RuleNext
<1>3. \A r \in Rules : rules[r] # NoRule => rules'[r] # NoRule
    BY DEF RuleNext, CreateRule, UpdateRule, NoRule, PlanInv, PlanTypes, Rule
<1>4. OccurrencesAreDue'
    BY <1>1, <1>3, SlotFacts DEF PlanInv, OccurrencesAreDue
<1> QED
    BY <1>1, <1>2, <1>4 DEF PlanInv, PlanTypes, TypeOK, OccurrenceTellsDraft

LEMMA PlanStep ==
    ASSUME PlanInv, [PNext]_pvars
    PROVE  PlanInv'
<1>1. CASE LedgerNext
    BY <1>1, LedgerStep
<1>2. CASE RuleNext
    BY <1>2, RuleStep
<1>3. CASE WorkNext
    BY <1>3, ProcessStep DEF WorkNext, Work
<1>4. CASE OccurrenceNext
    BY <1>4, AnswerStep DEF OccurrenceNext
<1>5. CASE UNCHANGED pvars
    BY <1>5
    DEF pvars, PlanInv, PlanTypes, TypeOK, OccurrencesAreDue, OccurrenceTellsDraft
<1> QED
    BY <1>1, <1>2, <1>3, <1>4, <1>5 DEF PNext

LEMMA PlanInit ==
    ASSUME PInit
    PROVE  PlanInv
<1>1. TypeOK
    BY BoundsAssumption DEF PInit, Init, TypeOK, BoundsAssumption
<1>2. \A s \in Slots : tx[DraftOf[s]] = NoRow
    BY SlotFacts DEF PInit, Init
<1> QED
    BY <1>1, <1>2
    DEF PInit, PlanInv, PlanTypes, OccurrencesAreDue, OccurrenceTellsDraft, NoOccurrence, NoRow

\* An occurrence says what became of its draft, however batches, answers and
\* postings interleave.
THEOREM OccurrencesTell == PSpec => []OccurrenceTellsDraft
<1>1. PlanInv => OccurrenceTellsDraft
    BY DEF PlanInv
<1> QED
    BY <1>1, PlanInit, PlanStep, PTL DEF PSpec

-----------------------------------------------------------------------------
(* What was answered stays answered *)

MovesOn(s) ==
    occurrences'[s] # occurrences[s] =>
        <<occurrences[s].status, occurrences'[s].status>> \in
            {<<"NONE", "DUE">>, <<"NONE", "DRAFT_CREATED">>, <<"DUE", "DRAFT_CREATED">>,
             <<"DUE", "SKIPPED">>, <<"DRAFT_CREATED", "RECORDED">>}

LEMMA OccurrenceStep ==
    ASSUME PlanInv, [PNext]_pvars, NEW s \in Slots
    PROVE  MovesOn(s)
<1> USE DEF MovesOn
<1>1. /\ occurrences[s] \in Occurrence \cup {NoOccurrence}
      /\ occurrences = [q \in Slots |-> occurrences[q]]
    BY DEF PlanInv, PlanTypes
<1>2. CASE LedgerNext
    <2>1. CASE occurrences'[s] = occurrences[s]
        BY <2>1
    <2>2. CASE occurrences'[s] # occurrences[s]
        <3>1. /\ occurrences[s].status = "DRAFT_CREATED"
              /\ occurrences'[s] = [occurrences[s] EXCEPT !.status = "RECORDED"]
            BY <1>2, <2>2 DEF LedgerNext, CloseOccurrences
        <3>2. occurrences[s] \in Occurrence
            BY <1>1, <3>1 DEF NoOccurrence
        <3>3. occurrences'[s].status = "RECORDED"
            BY <3>1, <3>2 DEF Occurrence
        <3> QED
            BY <3>1, <3>3
    <2> QED
        BY <2>1, <2>2
<1>3. CASE RuleNext
    BY <1>3, RuleStays
<1>4. ASSUME NEW locked, NEW batch \in Batches(locked), ProcessDue(batch)
      PROVE  MovesOn(s)
    <2> DEFINE auto == {q \in NewSlots(batch) : rules[q[1]].mode = "AUTO_DRAFT"}
               draft == [status |-> "DRAFT_CREATED", transaction |-> DraftOf[s]]
               due == [status |-> "DUE", transaction |-> NoId]
    <2>1. occurrences'[s] = IF s \in auto THEN draft
                            ELSE IF s \in NewSlots(batch) THEN due
                            ELSE occurrences[s]
        BY <1>4 DEF ProcessDue
    <2>2. s \in NewSlots(batch) => occurrences[s].status = "NONE"
        BY DEF NewSlots, NoOccurrence
    <2>3. s \in auto => s \in NewSlots(batch)
        OBVIOUS
    <2>4. draft.status = "DRAFT_CREATED" /\ due.status = "DUE"
        OBVIOUS
    <2> HIDE DEF auto, draft, due
    <2> QED
        BY <2>1, <2>2, <2>3, <2>4
<1>5. ASSUME NEW q \in Slots, RecordOccurrence(q)
      PROVE  MovesOn(s)
    <2>1. q # s => occurrences'[s] = occurrences[s]
        BY <1>1, <1>5 DEF RecordOccurrence
    <2>2. q = s => occurrences[s].status = "DUE" /\ occurrences'[s].status = "DRAFT_CREATED"
        BY <1>1, <1>5 DEF RecordOccurrence, Recordable
    <2> QED
        BY <2>1, <2>2
<1>6. ASSUME NEW q \in Slots, SkipOccurrence(q)
      PROVE  MovesOn(s)
    <2>1. q # s => occurrences'[s] = occurrences[s]
        BY <1>1, <1>6 DEF SkipOccurrence
    <2>2. CASE q = s
        <3>1. /\ occurrences[s].status = "DUE"
              /\ occurrences'[s] = [occurrences[s] EXCEPT !.status = "SKIPPED"]
            BY <1>1, <1>6, <2>2 DEF SkipOccurrence
        <3>2. occurrences[s] \in Occurrence
            BY <1>1, <3>1 DEF NoOccurrence
        <3>3. occurrences'[s].status = "SKIPPED"
            BY <3>1, <3>2 DEF Occurrence
        <3> QED
            BY <3>1, <3>3
    <2> QED
        BY <2>1, <2>2
<1>7. CASE UNCHANGED pvars
    BY <1>7 DEF pvars
<1> QED
    BY <1>2, <1>3, <1>4, <1>5, <1>6, <1>7 DEF PNext, WorkNext, Work, OccurrenceNext

\* An answer is final: no batch, and no schedule moved back, writes an occurrence
\* again.
THEOREM AnswersStand == PSpec => OccurrencesOnlyMoveOn
<1>1. ASSUME PlanInv, [PNext]_pvars
      PROVE  [\A s \in Slots : MovesOn(s)]_pvars
    BY <1>1, OccurrenceStep
<1>2. PSpec => [][\A s \in Slots : MovesOn(s)]_pvars
    BY <1>1, PlanInit, PlanStep, PTL DEF PSpec
<1> QED
    BY <1>2 DEF OccurrencesOnlyMoveOn, MovesOn

\* Rules, occurrences and drafts are well formed.
THEOREM PlansTyped == PSpec => []PTypeOK
<1>1. PlanInv => PTypeOK
    BY DEF PlanInv, PlanTypes, PTypeOK
<1> QED
    BY <1>1, PlanInit, PlanStep, PTL DEF PSpec

-----------------------------------------------------------------------------
(* The devices *)

\* What is proved inductively: what the device keeps and its forms are well formed, and
\* the versions it holds name what it holds.
DInv == DTypeOK /\ VersionNamesRow /\ VersionNamesAccount

-----------------------------------------------------------------------------
\* An accepted request names the current version, hence the current row.
LEMMA AcceptedIsCurrent ==
    ASSUME DInv, NEW i \in Ids, shown[i] # NoRow, shown[i].version = tx[i].version
    PROVE  shown[i] = tx[i]
BY DEF DInv, VersionNamesRow

\* Every step is a step of the ledger, and changes what the device holds only by
\* receiving the server's current row.
LEMMA DeviceStep ==
    ASSUME DInv, [DNext]_dvars
    PROVE  /\ [Next]_vars
           /\ \/ UNCHANGED shown
              \/ /\ UNCHANGED <<acct, tx>>
                 /\ \E i \in Ids : tx[i] # NoRow /\ shown' = [shown EXCEPT ![i] = tx[i]]
           /\ \/ UNCHANGED page
              \/ /\ UNCHANGED <<acct, tx>>
                 /\ \E a \in Accounts :
                       /\ Exists(a)
                       /\ page' = [page EXCEPT ![a] =
                             [account |-> acct[a], movements |-> Movements(a)]]
<1>1. CASE UNCHANGED dvars
    BY <1>1 DEF dvars, vars
<1>2. CASE Next /\ UNCHANGED <<shown, page, form>>
    BY <1>2
<1>3. ASSUME NEW i \in Ids, ReceiveTransaction(i)
      PROVE  /\ UNCHANGED vars /\ UNCHANGED page
             /\ tx[i] # NoRow /\ shown' = [shown EXCEPT ![i] = tx[i]]
    BY <1>3 DEF ReceiveTransaction, vars
<1>4. ASSUME NEW wanted \in Drafts, SaveDraft(wanted)
      PROVE  Next /\ UNCHANGED <<shown, page>>
    <2>1. form.draft \in Ids /\ shown[form.draft] # NoRow
        BY <1>4 DEF SaveDraft, DInv, DTypeOK, AccountForm, DraftForm, NoForm
    <2>2. shown[form.draft].version \in Versions
        BY <2>1 DEF DInv, DTypeOK, Row
    <2> QED
        BY <1>4, <2>1, <2>2 DEF SaveDraft, Next, TransactionNext
<1>5. ASSUME NEW i \in Ids, Confirm(i)
      PROVE  Next /\ UNCHANGED <<shown, page, form>>
    <2>1. shown[i].version \in Versions
        BY <1>5 DEF Confirm, DInv, DTypeOK, Row
    <2> QED
        BY <1>5, <2>1 DEF Confirm, Next, TransactionNext
<1>6. ASSUME NEW i \in Ids, NEW r \in Ids, NEW at \in Times, Undo(i, r, at)
      PROVE  Next /\ UNCHANGED <<shown, page, form>>
    <2>1. shown[i].version \in Versions
        BY <1>6 DEF Undo, DInv, DTypeOK, Row
    <2> QED
        BY <1>6, <2>1 DEF Undo, Next, TransactionNext
<1>7. ASSUME NEW a \in Accounts, ReceiveAccount(a)
      PROVE  /\ UNCHANGED vars /\ UNCHANGED shown /\ Exists(a)
             /\ page' = [page EXCEPT ![a] =
                   [account |-> acct[a], movements |-> Movements(a)]]
    BY <1>7 DEF ReceiveAccount, vars
<1>8. CASE (\E a \in Accounts : OpenForm(a)) \/ \E i \in Ids : OpenDraft(i)
    BY <1>8 DEF OpenForm, OpenDraft, vars
<1>9. ASSUME NEW new \in Edits, NEW renamed \in BOOLEAN, SaveForm(new, renamed)
      PROVE  Next /\ UNCHANGED <<shown, page>>
    <2>1. form.account \in Accounts /\ page[form.account] # NoPage
        BY <1>9 DEF SaveForm, DInv, DTypeOK, AccountForm, DraftForm, NoForm
    <2>2. page[form.account].account.version \in Versions
        BY <2>1 DEF DInv, DTypeOK, Account
    <2> QED
        BY <1>9, <2>1, <2>2 DEF SaveForm, Next, AccountNext
<1> QED
    BY <1>1, <1>2, <1>3, <1>4, <1>5, <1>6, <1>7, <1>8, <1>9 DEF DNext, vars

-----------------------------------------------------------------------------
\* The open form is about an account, or a draft, that the device has received.
LEMMA FormStep ==
    ASSUME DInv, [DNext]_dvars
    PROVE  \/ UNCHANGED form
           \/ form' = NoForm
           \/ \E a \in Accounts :
                 /\ page[a] # NoPage
                 /\ form' = [of |-> "ACCOUNT", account |-> a,
                             filled |-> [f \in Fields |-> page[a].account[f]]]
           \/ \E i \in Ids :
                 /\ shown[i] # NoRow
                 /\ form' = [of |-> "DRAFT", draft |-> i,
                             filled |-> [f \in Content |-> shown[i][f]]]
BY DEF dvars, DNext, ReceiveTransaction, ReceiveAccount, Confirm, Undo, OpenForm, SaveForm,
       OpenDraft, SaveDraft

LEMMA DTypeStep ==
    ASSUME DInv, [DNext]_dvars
    PROVE  DTypeOK'
<1>1. TypeOK'
    BY DeviceStep, TypeStep DEF DInv, DTypeOK
<1>2. shown' \in [Ids -> Row \cup {NoRow}]
    BY DeviceStep DEF DInv, DTypeOK, TypeOK
<1>3. \A a \in Accounts : Exists(a) =>
          [account |-> acct[a], movements |-> Movements(a)]
             \in [account : Account, movements : SUBSET Ids]
    BY DEF DInv, DTypeOK, TypeOK, Movements, Exists, NoAccount
<1>4. page' \in [Accounts -> [account : Account, movements : SUBSET Ids] \cup {NoPage}]
    BY DeviceStep, <1>3 DEF DInv, DTypeOK
<1>5. \A a \in Accounts : page[a] # NoPage => page'[a] # NoPage
    <2>1. \A a \in Accounts : Exists(a) =>
              [account |-> acct[a], movements |-> Movements(a)] # NoPage
        BY DEF Exists, NoPage, NoAccount
    <2> QED
        BY <2>1, DeviceStep DEF DInv, DTypeOK
<1>6. ASSUME NEW a \in Accounts, page[a] # NoPage
      PROVE  [f \in Fields |-> page[a].account[f]]
                \in [opening : Openings, allowNegative : BOOLEAN]
    <2>1. page[a].account \in Account
        BY <1>6 DEF DInv, DTypeOK
    <2> QED
        BY <2>1 DEF Account, Fields
<1>7. \A i \in Ids : shown[i] # NoRow => shown'[i] # NoRow
    BY DeviceStep DEF DInv, DTypeOK
<1>8. ASSUME NEW i \in Ids, shown[i] # NoRow
      PROVE  [f \in Content |-> shown[i][f]]
                \in [kind : Kinds, amount : Amounts, account : Accounts,
                    at : Times, classified : BOOLEAN]
    <2>1. shown[i] \in Row
        BY <1>8 DEF DInv, DTypeOK
    <2> QED
        BY <2>1 DEF Row, Content
<1>9. /\ form' \in AccountForm \cup DraftForm \cup {NoForm}
      /\ form'.of = "ACCOUNT" => page'[form'.account] # NoPage
      /\ form'.of = "DRAFT" => shown'[form'.draft] # NoRow
    <2>1. CASE UNCHANGED form
        BY <1>5, <1>7, <2>1 DEF DInv, DTypeOK, AccountForm, DraftForm, NoForm
    <2>2. CASE form' = NoForm
        BY <2>2 DEF NoForm
    <2>3. ASSUME NEW a \in Accounts, page[a] # NoPage, NEW filled,
                 filled = [f \in Fields |-> page[a].account[f]],
                 form' = [of |-> "ACCOUNT", account |-> a, filled |-> filled]
          PROVE  form' \in AccountForm /\ form'.of = "ACCOUNT" /\ form'.account = a
        BY <1>6, <2>3 DEF AccountForm
    <2>4. ASSUME NEW i \in Ids, shown[i] # NoRow, NEW filled,
                 filled = [f \in Content |-> shown[i][f]],
                 form' = [of |-> "DRAFT", draft |-> i, filled |-> filled]
          PROVE  form' \in DraftForm /\ form'.of = "DRAFT" /\ form'.draft = i
        BY <1>8, <2>4 DEF DraftForm
    <2> QED
        BY <1>5, <1>7, <2>1, <2>2, <2>3, <2>4, FormStep
<1> QED
    BY <1>1, <1>2, <1>4, <1>9 DEF DTypeOK

LEMMA VersionNamesRowStep ==
    ASSUME DInv, [DNext]_dvars
    PROVE  VersionNamesRow'
<1> SUFFICES ASSUME NEW i \in Ids, shown'[i] # NoRow
             PROVE  /\ tx'[i] # NoRow
                    /\ shown'[i].version <= tx'[i].version
                    /\ shown'[i].version = tx'[i].version => shown'[i] = tx'[i]
    BY DEF VersionNamesRow
<1>1. \A j \in Ids : tx[j] # NoRow => tx[j].version \in Int
    BY BoundsAssumption DEF DInv, DTypeOK, TypeOK, Row, BoundsAssumption
<1>2. CASE UNCHANGED shown
    <2>1. shown[i] # NoRow /\ tx[i] # NoRow
        BY <1>2 DEF DInv, VersionNamesRow
    <2>2. RowMoves(i)
        BY <2>1, DeviceStep, RowStep DEF DInv, DTypeOK
    <2>3. shown[i].version \in Int
        BY <2>1, BoundsAssumption DEF DInv, DTypeOK, Row, BoundsAssumption
    <2> QED
        BY <1>1, <1>2, <2>1, <2>2, <2>3 DEF DInv, VersionNamesRow, RowMoves
<1>3. ASSUME UNCHANGED tx, NEW j \in Ids, tx[j] # NoRow, shown' = [shown EXCEPT ![j] = tx[j]]
      PROVE  /\ tx'[i] # NoRow
             /\ shown'[i].version <= tx'[i].version
             /\ shown'[i].version = tx'[i].version => shown'[i] = tx'[i]
    BY <1>1, <1>3 DEF DInv, DTypeOK, VersionNamesRow
<1> QED
    BY <1>2, <1>3, DeviceStep

LEMMA VersionNamesAccountStep ==
    ASSUME DInv, [DNext]_dvars
    PROVE  VersionNamesAccount'
<1> DEFINE Named(a) == /\ Exists(a)
                       /\ page[a].account.version <= acct[a].version
                       /\ page[a].account.version = acct[a].version =>
                             /\ page[a].account = acct[a]
                             /\ page[a].movements = Movements(a)
<1> SUFFICES ASSUME NEW a \in Accounts, page'[a] # NoPage
             PROVE  Named(a)'
    BY DEF VersionNamesAccount
<1>1. \A b \in Accounts : Exists(b) => acct[b].version \in Int
    BY BoundsAssumption
    DEF DInv, DTypeOK, TypeOK, Exists, Account, NoAccount, BoundsAssumption
<1>2. CASE UNCHANGED page
    <2>1. page[a] # NoPage /\ Named(a)
        BY <1>2 DEF DInv, VersionNamesAccount
    <2>2. AccountMoves(a)
        BY <2>1, DeviceStep, AccountStep DEF DInv, DTypeOK
    <2>3. page[a].account \in Account /\ page[a].account.version \in Int
        BY <2>1, BoundsAssumption DEF DInv, DTypeOK, Account, BoundsAssumption
    <2> QED
        BY <1>1, <1>2, <2>1, <2>2, <2>3 DEF AccountMoves
<1>3. ASSUME UNCHANGED <<acct, tx>>, NEW b \in Accounts, Exists(b),
             page' = [page EXCEPT ![b] = [account |-> acct[b], movements |-> Movements(b)]]
      PROVE  Named(a)'
    <2>1. Exists(a)' = Exists(a) /\ Movements(a)' = Movements(a)
        BY <1>3 DEF Exists, Movements, Counts
    <2>2. CASE a = b
        BY <1>1, <1>3, <2>1, <2>2 DEF DInv, DTypeOK
    <2>3. CASE a # b
        BY <1>3, <2>1, <2>3 DEF DInv, DTypeOK, VersionNamesAccount
    <2> QED
        BY <2>2, <2>3
<1> QED
    BY <1>2, <1>3, DeviceStep

LEMMA DInvariant == DSpec => []DInv
<1>1. DInit => DInv
    BY BoundsAssumption
    DEF DInit, Init, DInv, DTypeOK, TypeOK, BoundsAssumption, VersionNamesRow,
        VersionNamesAccount, NoPage, NoForm
<1>2. DInv /\ [DNext]_dvars => DInv'
    BY DTypeStep, VersionNamesRowStep, VersionNamesAccountStep DEF DInv
<1> QED
    BY <1>1, <1>2, PTL DEF DSpec

-----------------------------------------------------------------------------
\* A version of a transaction names one content.
THEOREM RowVersionsSound == DSpec => []VersionNamesRow
BY DInvariant, PTL DEF DInv

\* A version of an account names one account and one set of movements.
THEOREM AccountVersionsSound == DSpec => []VersionNamesAccount
BY DInvariant, PTL DEF DInv

\* What a device posts is, field by field, what it shows, and what it reverses has the
\* amount, the account and the effect it shows; whoever wrote the row in between, and
\* however often it was received again.  A draft's form overwrites no row the device had
\* not received.  Nothing is said of the row the form was filled with: the form sends old
\* fields with the version received since, and the run stale_form shows what they undo.
THEOREM DeviceIsFaithful == DSpec => ActsOnWhatItShows
<1>1. ASSUME DInv, NEW i \in Ids, Confirm(i), NEW f \in Content
      PROVE  tx'[i][f] = shown[i][f]
    <2>1. shown[i] = tx[i] /\ tx[i] \in Row
        BY <1>1, AcceptedIsCurrent DEF Confirm, Post, RequireVersion, DInv, DTypeOK
    <2>2. tx'[i] = [tx[i] EXCEPT !.status = "POSTED", !.version = shown[i].version + 1]
        BY <1>1, <2>1 DEF Confirm, Post, DInv, DTypeOK, TypeOK
    <2> QED
        BY <2>1, <2>2 DEF Content, Row
<1>2. ASSUME DInv, NEW i \in Ids, NEW r \in Ids, NEW at \in Times, Undo(i, r, at)
      PROVE  /\ tx'[r].amount = shown[i].amount /\ tx'[r].account = shown[i].account
             /\ tx'[r].effect = Opposite(shown[i].effect)
    <2>1. shown[i] = tx[i] /\ tx[i] \in Row
        BY <1>2, AcceptedIsCurrent DEF Undo, Reverse, RequireVersion, DInv, DTypeOK
    <2>2. PICK row : row = tx[i] /\ row \in Row
        BY <2>1
    <2>3. tx'[r] = [row EXCEPT !.status = "POSTED", !.kind = "REVERSAL",
                               !.effect = Opposite(row.effect), !.at = at,
                               !.reversalOf = i, !.version = 1]
        BY <1>2, <2>2 DEF Undo, Reverse, DInv, DTypeOK, TypeOK
    <2> QED
        BY <2>1, <2>2, <2>3 DEF Row
<1>3. ASSUME DInv, NEW wanted \in Drafts, SaveDraft(wanted)
      PROVE  tx[form.draft] = shown[form.draft]
    <2>1. form.draft \in Ids /\ shown[form.draft] # NoRow
        BY <1>3 DEF SaveDraft, DInv, DTypeOK, AccountForm, DraftForm, NoForm
    <2> QED
        BY <1>3, <2>1, AcceptedIsCurrent DEF SaveDraft, UpdateDraft, RequireVersion
<1>4. DInv /\ [DNext]_dvars
        => [/\ \A i \in Ids :
                  /\ Confirm(i) => \A f \in Content : tx'[i][f] = shown[i][f]
                  /\ \A r \in Ids, at \in Times : Undo(i, r, at) =>
                         /\ tx'[r].amount = shown[i].amount
                         /\ tx'[r].account = shown[i].account
                         /\ tx'[r].effect = Opposite(shown[i].effect)
            /\ \A wanted \in Drafts :
                  SaveDraft(wanted) => tx[form.draft] = shown[form.draft]]_dvars
    BY <1>1, <1>2, <1>3
<1> QED
    BY <1>4, DInvariant, PTL DEF DSpec, ActsOnWhatItShows

\* What a device keeps is well formed, and its requests leave the ledger's rows so.
THEOREM DevicesTyped == DSpec => []DTypeOK
BY DInvariant, PTL DEF DInv
=============================================================================
