------------------------------- MODULE Outbox -------------------------------
(***************************************************************************)
(* The mobile application's outbox and cache, and their dialogue with the  *)
(* server.  Every write of the user goes to the local database, together   *)
(* with a queued operation; a synchronization, one at a time, sends the    *)
(* operations in the order of their creation; a refresh, beside it, merges *)
(* what the server lists into the cache.                                   *)
(*                                                                         *)
(* An action is one local database transaction, one request handled by the *)
(* server, or one event of the network or of the process: between any two  *)
(* of them the code awaits.  The server handles a request atomically (see  *)
(* application/idempotency.py): under a lock on its key it replays the     *)
(* stored response or applies the operation and stores the response.       *)
(*                                                                         *)
(* The local database stores a creation time in whole seconds, and breaks  *)
(* a tie by the operation's random identifier: the numbers of Ops stand    *)
(* for these.  The two operations of "save and post" are created a         *)
(* microsecond apart, so in the same second.                               *)
(***************************************************************************)
EXTENDS Integers, Sequences, FiniteSets, SequencesExt

CONSTANTS
    Entities,    \* identifiers of transactions, and of specialized commits
    Ops,         \* operation identifiers, ordered like the UUIDs they stand for
    Types,       \* the types of operations the user queues
    Batch,       \* operations sent by one synchronization (50)
    MaxSecond,   \* bound: the last second of the device's clock
    MaxOthers    \* bound: other clients write a row up to this version

ASSUME OutboxAssumption ==
    /\ Ops \subseteq Nat /\ IsFiniteSet(Ops)
    /\ Types \subseteq {"CREATE_DRAFT", "UPDATE_DRAFT", "POST", "REVERSE", "COMMIT"}
    /\ Batch \in Nat \ {0} /\ MaxSecond \in Nat /\ MaxOthers \in Nat

VARIABLES
    second,    \* the device's clock when the last operation was queued
    ops,       \* the operations queued so far: what, on which entity, when
    state,     \* of each operation; its row is in the outbox while in Queued
    waiting,   \* operations whose next attempt is not due yet
    cache,     \* the cached transaction rows
    screen,    \* the row the user confirms an action on, or edits, as it was then
    sync,      \* the synchronization in progress
    page,      \* the refresh in progress: the versions the server listed
    due,       \* a synchronization has ended so that a refresh follows it
    log,       \* server: the successive contents of each row
    record,    \* server: the idempotency records, by operation
    late       \* requests the device gave up on, still on their way
device == <<second, ops, state, waiting, cache, screen, sync, page, due>>
server == <<log, record, late>>
vars   == <<device, server>>

Queued == {"PENDING", "SENDING", "RETRY", "CONFLICT"}
NoOp   == [type |-> "NONE"]
NoRow  == [sync |-> "NONE"]
NoPage == [e \in Entities |-> 0]
Idle   == [phase |-> "IDLE", op |-> 0, answer |-> 0, force |-> FALSE, left |-> 0]
NoScreen == [row |-> NoRow, edits |-> FALSE]

InOutbox   == {o \in Ops : state[o] \in Queued}
Generic(o) == ops[o].type # "COMMIT"
OpsOf(e)   == {o \in InOutbox : ops[o].entity = e}
GenericOpsOf(e) == {o \in OpsOf(e) : Generic(o)}

\* The content a row had at a version, as the cache holds it.
Canonical(e, v) ==
    [status |-> log[e][v].status, by |-> log[e][v].by, version |-> v, sync |-> "SYNCED"]

-----------------------------------------------------------------------------
(* The server *)

Latest(e) == Last(log[e])

\* MUTANT of Holds: the version is not compared.
MutAnyVersion(o, status) ==
    /\ log[ops[o].entity] # <<>>
    /\ Latest(ops[o].entity).status = status

Holds(o, status) ==
    LET e == ops[o].entity
    IN  /\ log[e] # <<>>
        /\ Latest(e).status = status
        /\ Len(log[e]) = ops[o].version

\* What the operation needs to find, and the status it leaves.
Accepts(o) ==
    CASE ops[o].type \in {"CREATE_DRAFT", "COMMIT"} -> log[ops[o].entity] = <<>>
      [] ops[o].type \in {"UPDATE_DRAFT", "POST"}   -> Holds(o, "DRAFT")
      [] ops[o].type = "REVERSE"                    -> Holds(o, "POSTED")

StatusAfter(o) ==
    CASE ops[o].type \in {"CREATE_DRAFT", "UPDATE_DRAFT"} -> "DRAFT"
      [] ops[o].type \in {"POST", "COMMIT"}               -> "POSTED"
      [] ops[o].type = "REVERSE"                          -> "REVERSED"

\* MUTANT of Recorded: no idempotency record is found.
MutForgetsRecords(o) == FALSE

Recorded(o) == record[o] # 0

\* The server's handling of a request and its answer, the version it reports or
\* 0 for a refusal.  The ledger may refuse any operation for reasons of its own
\* (an account closed, a balance too low).
Replay(o, answer) ==
    /\ Recorded(o)
    /\ answer = record[o]
    /\ UNCHANGED <<log, record>>

Apply(o, answer) ==
    /\ ~Recorded(o)
    /\ Accepts(o)
    /\ log' = [log EXCEPT ![ops[o].entity] =
                 Append(@, [status |-> StatusAfter(o), by |-> o])]
    /\ answer = Len(log'[ops[o].entity])
    /\ record' = [record EXCEPT ![o] = answer]

Refuse(o, answer) ==
    /\ ~Recorded(o)
    /\ answer = 0
    /\ UNCHANGED <<log, record>>

Handle(o, answer) == Replay(o, answer) \/ Apply(o, answer) \/ Refuse(o, answer)

\* Another client edits or posts a draft.
OthersWrite(e) ==
    /\ log[e] # <<>> /\ Latest(e).status = "DRAFT"
    /\ Len(log[e]) < MaxOthers
    /\ \E status \in {"DRAFT", "POSTED"} :
          log' = [log EXCEPT ![e] = Append(@, [status |-> status, by |-> 0])]
    /\ UNCHANGED <<device, record, late>>

-----------------------------------------------------------------------------
(* The user *)

\* The version sent is that of the cached row.  Which content that row had (cached), and
\* which content and version the user had been shown (shown, opened), is not sent and is
\* kept for the properties.
Operation(type, e, row, seen, at) ==
    [type |-> type, entity |-> e, version |-> row.version, cached |-> row.by,
     shown |-> seen.by, opened |-> seen.version, second |-> at]

Nothing == [by |-> 0, version |-> 0]

\* One local transaction: the provisional row and the operations, queued when the
\* clock shows `at`.
Save(e, row, new, at) ==
    /\ second' = at
    /\ screen' = NoScreen
    /\ \A o \in DOMAIN new : ops[o] = NoOp /\ new[o].type \in Types
    /\ ops' = [o \in Ops |-> IF o \in DOMAIN new THEN new[o] ELSE ops[o]]
    /\ state' = [o \in Ops |-> IF o \in DOMAIN new THEN "PENDING" ELSE state[o]]
    /\ cache' = [cache EXCEPT ![e] = row]
    /\ UNCHANGED <<waiting, sync, page, due, server>>

\* Bound: the user opens a screen only while an operation is left to queue from it.
OpsLeft == \E o \in Ops : ops[o] = NoOp

Fresh(e) == \A o \in Ops : ops[o] # NoOp => ops[o].entity # e

Provisional(o, version) ==
    [status |-> "DRAFT", by |-> o, version |-> version, sync |-> "PENDING"]

QueueCreate(e, o, at) ==
    /\ Fresh(e) /\ screen = NoScreen
    /\ Save(e, Provisional(o, 1),
            [i \in {o} |-> Operation("CREATE_DRAFT", e, Nothing, Nothing, at)], at)

\* "Save and post".
QueueCreateAndPost(e, o, p, at) ==
    LET row == Provisional(o, 1)
    IN  /\ Fresh(e) /\ o # p /\ screen = NoScreen
        /\ Save(e, row, [i \in {o, p} |->
                          IF i = o THEN Operation("CREATE_DRAFT", e, Nothing, Nothing, at)
                                   ELSE Operation("POST", e, row, row, at)], at)

\* The form is filled with the row that is shown when it is opened.
OpenEdit(e) ==
    /\ screen = NoScreen /\ OpsLeft
    /\ cache[e].sync = "SYNCED" /\ cache[e].status = "DRAFT" /\ "UPDATE_DRAFT" \in Types
    /\ screen' = [entity |-> e, row |-> cache[e], edits |-> TRUE]
    /\ UNCHANGED <<second, ops, state, waiting, cache, sync, page, due, server>>

\* It is sent with the version of the row as it is cached when the form is saved.
QueueUpdate(o, at) ==
    LET e   == screen.entity
        row == cache[e]
    IN  /\ screen.edits
        /\ row.sync = "SYNCED" /\ row.status = "DRAFT"
        /\ Save(e, Provisional(o, row.version),
                [i \in {o} |-> Operation("UPDATE_DRAFT", e, row, screen.row, at)], at)

\* Only expenses and incomes are reversed so, not what a commit wrote.
TypeAsked(row) ==
    LET committed == row.by # 0 /\ ops[row.by].type = "COMMIT"
    IN  CASE row.status = "DRAFT"                   -> "POST"
          [] row.status = "POSTED" /\ ~committed   -> "REVERSE"
          [] OTHER                                 -> "NONE"

\* Posting and reversing ask for a confirmation; the row confirmed is the one
\* that was shown when the question was asked.
Ask(e) ==
    /\ screen = NoScreen /\ OpsLeft
    /\ cache[e].sync = "SYNCED" /\ TypeAsked(cache[e]) \in Types
    /\ screen' = [entity |-> e, row |-> cache[e], edits |-> FALSE]
    /\ UNCHANGED <<second, ops, state, waiting, cache, sync, page, due, server>>

Answer(o, at) ==
    LET e    == screen.entity
        row  == screen.row
        type == TypeAsked(row)
    IN  /\ screen # NoScreen /\ ~screen.edits
        /\ Save(e, [row EXCEPT !.sync = "PENDING"],
                [i \in {o} |-> Operation(type, e, row, row, at)], at)

Cancel ==
    /\ screen # NoScreen
    /\ screen' = NoScreen
    /\ UNCHANGED <<second, ops, state, waiting, cache, sync, page, due, server>>

\* A transfer, a correction, a debt: no cached row of its own.
QueueCommit(e, o, at) ==
    /\ Fresh(e) /\ screen = NoScreen
    /\ Save(e, cache[e], [i \in {o} |-> Operation("COMMIT", e, Nothing, Nothing, at)], at)

\* All the operations of a transaction go, with its cached row.
DiscardEntity(e) ==
    /\ \/ \E o \in GenericOpsOf(e) : state[o] # "SENDING"
       \/ cache[e].sync = "CONFLICT"
    /\ screen = NoScreen
    /\ state' = [o \in Ops |-> IF o \in OpsOf(e) THEN "DISCARDED" ELSE state[o]]
    /\ waiting' = waiting \ OpsOf(e)
    /\ cache' = [cache EXCEPT ![e] = NoRow]
    /\ UNCHANGED <<second, ops, screen, sync, page, due, server>>

DiscardCommit(o) ==
    /\ o \in InOutbox /\ ~Generic(o) /\ state[o] # "SENDING" /\ screen = NoScreen
    /\ state' = [state EXCEPT ![o] = "DISCARDED"]
    /\ waiting' = waiting \ {o}
    /\ UNCHANGED <<second, ops, cache, screen, sync, page, due, server>>

-----------------------------------------------------------------------------
(* The synchronization *)

Before(o, p) ==
    \/ ops[o].second < ops[p].second
    \/ ops[o].second = ops[p].second /\ o < p

\* The operation the outbox yields first; only this one is considered.
NextUp == CHOOSE o \in InOutbox : \A p \in InOutbox \ {o} : Before(o, p)

\* MUTANT of Ready: an operation being sent is never sent again.
MutSkipsSending(o, force) ==
    force \/ (state[o] \in {"PENDING", "RETRY"} /\ o \notin waiting)

Ready(o, force) == force \/ (state[o] # "CONFLICT" /\ o \notin waiting)

NothingToSend == InOutbox # {} => ~Ready(NextUp, sync.force)

SetSync(e, status) ==
    IF cache[e] = NoRow THEN cache ELSE [cache EXCEPT ![e].sync = status]

StartSync(force) ==
    /\ sync.phase = "IDLE"
    /\ sync' = [Idle EXCEPT !.phase = "LOOP", !.force = force, !.left = Batch]
    /\ UNCHANGED <<second, ops, state, waiting, cache, screen, page, due, server>>

\* The loop ends; a refresh follows unless its first operation failed.
EndSync ==
    /\ sync.phase = "LOOP"
    /\ sync.left = 0 \/ NothingToSend
    /\ sync' = Idle
    /\ due' = TRUE
    /\ UNCHANGED <<second, ops, state, waiting, cache, screen, page, server>>

ReadNext ==
    /\ sync.phase = "LOOP" /\ sync.left > 0
    /\ ~NothingToSend
    /\ sync' = [sync EXCEPT !.phase = "READ", !.op = NextUp]
    /\ UNCHANGED <<second, ops, state, waiting, cache, screen, page, due, server>>

\* The operation is sent even when it was discarded since it was read.
MarkSending ==
    LET o == sync.op
    IN  /\ sync.phase = "READ"
        /\ state' = IF o \in InOutbox THEN [state EXCEPT ![o] = "SENDING"] ELSE state
        /\ cache' = IF Generic(o) THEN SetSync(ops[o].entity, "SENDING") ELSE cache
        /\ sync' = [sync EXCEPT !.phase = "SENT"]
        /\ UNCHANGED <<second, ops, waiting, screen, page, due, server>>

Serve ==
    /\ sync.phase = "SENT"
    /\ \E answer \in 0..Cardinality(Ops) + MaxOthers :
          /\ Handle(sync.op, answer)
          /\ sync' = [sync EXCEPT !.phase = "ANSWERED", !.answer = answer]
    /\ UNCHANGED <<second, ops, state, waiting, cache, screen, page, due, late>>

\* The failure is recorded on the operation, if it is still there, and on the
\* cached row, whatever became of the operation; the synchronization stops.
Fail(conflict) ==
    LET o      == sync.op
        status == IF conflict THEN "CONFLICT" ELSE "RETRY"
    IN  /\ state' = IF o \in InOutbox THEN [state EXCEPT ![o] = status] ELSE state
        /\ waiting' = IF o \in InOutbox THEN waiting \union {o} ELSE waiting
        /\ cache' = IF Generic(o) THEN SetSync(ops[o].entity, status) ELSE cache
        /\ sync' = Idle
        /\ due' = (due \/ sync.left < Batch)
        /\ UNCHANGED <<second, ops, screen, page, log, record>>

\* MUTANT of Refused: a conflict is taken for the operation's success.
MutConflictIsSuccess ==
    /\ sync.phase = "ANSWERED" /\ sync.answer = 0
    /\ sync.op \in InOutbox
    /\ state' = [state EXCEPT ![sync.op] = "ACKED"]
    /\ sync' = Idle
    /\ UNCHANGED <<second, ops, waiting, cache, screen, page, due, server>>

\* A refusal the server will not take back parks the operation: 404, 409, 422.
Refused ==
    /\ sync.phase = "ANSWERED" /\ sync.answer = 0
    /\ Fail(TRUE)
    /\ UNCHANGED late

\* The request, or its answer, is lost, or the answer is an error to retry; the
\* request may still reach the server afterwards.
NetworkFailure ==
    /\ sync.phase \in {"SENT", "ANSWERED"}
    /\ Fail(FALSE)
    /\ \/ UNCHANGED late
       \/ sync.phase = "SENT" /\ late' = late \union {sync.op}

\* MUTANT of Acknowledged: the provisional row is kept.
MutKeepsProvisional(o, others) ==
    IF others = {} /\ cache[ops[o].entity] # NoRow
    THEN [cache[ops[o].entity] EXCEPT !.sync = "SYNCED"]
    ELSE [Canonical(ops[o].entity, sync.answer) EXCEPT !.sync = "PENDING"]

\* What the cache keeps of the server's answer while other operations of the
\* same transaction are still queued.
Acknowledged(o, others) ==
    LET e == ops[o].entity
        row == Canonical(e, sync.answer)
    IN  IF others = {} THEN row ELSE [row EXCEPT !.sync = "PENDING"]

Acknowledge ==
    LET o == sync.op
        e == ops[o].entity
    IN  /\ sync.phase = "ANSWERED" /\ sync.answer > 0
        /\ o \in InOutbox
        /\ state' = [state EXCEPT ![o] = "ACKED"]
        /\ waiting' = waiting \ {o}
        /\ cache' = [cache EXCEPT ![e] = Acknowledged(o, OpsOf(e) \ {o})]
        /\ sync' = [sync EXCEPT !.phase = "LOOP", !.op = 0, !.answer = 0,
                                !.left = @ - 1]
        /\ UNCHANGED <<second, ops, screen, page, due, server>>

\* The operation was discarded while its request was out: the acknowledgement
\* raises, and is recorded as a failure.
AcknowledgeDiscarded ==
    /\ sync.phase = "ANSWERED" /\ sync.answer > 0
    /\ sync.op \notin InOutbox
    /\ Fail(FALSE)
    /\ UNCHANGED late

\* The process dies; the local database stays.
Crash ==
    /\ <<sync, screen, page, due>> # <<Idle, NoScreen, NoPage, FALSE>>
    /\ sync' = Idle /\ screen' = NoScreen /\ page' = NoPage /\ due' = FALSE
    /\ \/ UNCHANGED late
       \/ sync.phase = "SENT" /\ late' = late \union {sync.op}
    /\ UNCHANGED <<second, ops, state, waiting, cache, log, record>>

ServeLate(o) ==
    /\ o \in late
    /\ \E answer \in 0..Cardinality(Ops) + MaxOthers : Handle(o, answer)
    /\ late' = late \ {o}
    /\ UNCHANGED device

ElapseBackoff(o) ==
    /\ o \in waiting
    /\ waiting' = waiting \ {o}
    /\ UNCHANGED <<second, ops, state, cache, screen, sync, page, due, server>>

-----------------------------------------------------------------------------
(* The refresh, which a synchronization may overlap *)

Fetch ==
    /\ due /\ page = NoPage
    /\ due' = FALSE
    /\ page' = [e \in Entities |-> Len(log[e])]
    /\ UNCHANGED <<second, ops, state, waiting, cache, screen, sync, server>>

\* MUTANT of Overwrites: a row being edited is overwritten.
MutOverwritesPending(e) == page[e] > 0

\* MUTANT of Overwrites: only the rows the cache already holds are refreshed.
MutSkipsUnknown(e) == page[e] > 0 /\ GenericOpsOf(e) = {} /\ cache[e] # NoRow

\* A listed row is left alone while an operation on it is queued.
Overwrites(e) == page[e] > 0 /\ GenericOpsOf(e) = {}

Merge ==
    /\ page # NoPage
    /\ cache' = [e \in Entities |->
                   IF Overwrites(e) THEN Canonical(e, page[e]) ELSE cache[e]]
    /\ page' = NoPage
    /\ UNCHANGED <<second, ops, state, waiting, screen, sync, due, server>>

LosePage ==
    /\ page # NoPage
    /\ page' = NoPage
    /\ UNCHANGED <<second, ops, state, waiting, cache, screen, sync, due, server>>

-----------------------------------------------------------------------------
OInit ==
    /\ second = 0
    /\ ops = [o \in Ops |-> NoOp]
    /\ state = [o \in Ops |-> "NONE"]
    /\ waiting = {}
    /\ cache = [e \in Entities |-> NoRow]
    /\ screen = NoScreen
    /\ sync = Idle
    /\ page = NoPage
    /\ due = FALSE
    /\ log = [e \in Entities |-> <<>>]
    /\ record = [o \in Ops |-> 0]
    /\ late = {}

User ==
    \/ \E e \in Entities, o \in Ops, at \in second..MaxSecond :
          \/ QueueCreate(e, o, at)
          \/ QueueCommit(e, o, at)
          \/ \E p \in Ops : QueueCreateAndPost(e, o, p, at)
    \/ \E e \in Entities : Ask(e) \/ OpenEdit(e) \/ DiscardEntity(e)
    \/ Cancel
    \/ \E o \in Ops : \/ DiscardCommit(o)
                      \/ \E at \in second..MaxSecond : Answer(o, at) \/ QueueUpdate(o, at)

Synchronization ==
    \/ \E force \in BOOLEAN : StartSync(force)
    \/ EndSync \/ ReadNext \/ MarkSending \/ Serve
    \/ Acknowledge \/ AcknowledgeDiscarded \/ Refused \/ NetworkFailure

Environment ==
    \/ Crash
    \/ \E o \in Ops : ServeLate(o) \/ ElapseBackoff(o)
    \/ \E e \in Entities : OthersWrite(e)

ONext == User \/ Synchronization \/ Environment \/ Fetch \/ Merge \/ LosePage

OSpec == OInit /\ [][ONext]_vars

\* The application runs for long enough, again and again, for its timer to start
\* a synchronization, and the network delivers some of the requests it is given.
Fairness ==
    /\ SF_vars(StartSync(FALSE)) /\ SF_vars(EndSync)
    /\ SF_vars(ReadNext) /\ SF_vars(MarkSending)
    /\ SF_vars(Serve)
    /\ SF_vars(Acknowledge \/ AcknowledgeDiscarded \/ Refused)
    /\ \A o \in Ops : WF_vars(ElapseBackoff(o))
    /\ SF_vars(Fetch) /\ SF_vars(Merge)

FairOSpec == OSpec /\ Fairness

-----------------------------------------------------------------------------
(* Properties *)

\* A transaction with an operation in the outbox is shown, and never as
\* synchronized: whatever refreshes and answers cross the user's writes, what
\* the user did stays visible until the server has settled it.
PendingIsShown ==
    \A e \in Entities :
        GenericOpsOf(e) # {} => cache[e].sync \notin {"NONE", "SYNCED"}

\* What is shown as synchronized is what the server held at that version, never
\* the device's own guess.
SyncedIsReal ==
    \A e \in Entities : cache[e].sync = "SYNCED" =>
        /\ cache[e].version \in 1..Len(log[e])
        /\ cache[e] = Canonical(e, cache[e].version)

\* An operation leaves the outbox on its own only once the server has applied it:
\* no crash, lost answer or late copy makes one disappear.
AcknowledgedWasApplied == \A o \in Ops : state[o] = "ACKED" => record[o] # 0

\* An operation the server has applied is never refused when it is sent again:
\* its retry gets the stored answer, whatever has happened to the row since.
AppliedIsNeverRefused ==
    [][sync.phase = "SENT" /\ sync'.phase = "ANSWERED" /\ sync'.answer = 0
          => record[sync.op] = 0]_vars

\* What the server posts, reverses or edits is what the user was shown, though refreshes
\* and the writes of other clients came between the question and the answer, and between
\* the answer and the request.  But for an edit whose form was open while another version
\* came into the cache: it is sent with that one's version, and overwrites it unseen.
ActsOnWhatWasShown ==
    \A e \in Entities : \A v \in 2..Len(log[e]) :
        LET o == log[e][v].by
        IN  o # 0 => \/ log[e][v - 1].by = ops[o].shown
                     \/ /\ ops[o].type = "UPDATE_DRAFT" /\ ops[o].opened # ops[o].version
                        /\ log[e][v - 1].by = ops[o].cached

\* A post does not overtake the creation of its draft: it is never refused for
\* want of a draft that is still queued.  docs/architecture.md claims it.
NoPostBeforeDraft ==
    \A o, p \in Ops :
        ( /\ {o, p} \subseteq InOutbox
          /\ ops[o].type = "CREATE_DRAFT" /\ ops[p].type = "POST"
          /\ ops[o].entity = ops[p].entity )
        => ~(sync.phase \in {"SENT", "ANSWERED"} /\ sync.op = p)

\* Every operation is settled in the end: acknowledged, discarded, or behind one
\* the server refuses, which waits for the user.
Settles ==
    \A o \in Ops :
        o \in InOutbox ~> (o \notin InOutbox \/ state[NextUp] = "CONFLICT")

\* The cache catches up: again and again, a transaction with nothing queued is
\* shown as the server holds it, also after refreshes that overlapped a
\* synchronization and after failures recorded on a row nobody sends any more.
CatchesUp ==
    \A e \in Entities :
        []<>(log[e] # <<>> /\ GenericOpsOf(e) = {}
                => cache[e] = Canonical(e, Len(log[e])))
=============================================================================
