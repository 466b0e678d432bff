---------------------------- MODULE OutboxProofs ----------------------------
(***************************************************************************)
(* Proofs about Outbox: the cache never shows a guess for the server's     *)
(* word, nothing leaves the outbox without being applied, nothing is       *)
(* applied twice, and what is posted or reversed is what the user saw, for *)
(* every number of transactions, operations and other writes, every size   *)
(* of a batch, and whatever is lost, late, discarded or crashed.           *)
(***************************************************************************)
EXTENDS Outbox, Idempotency, WellFoundedInduction, NaturalsInduction, TLAPS

Statuses  == {"DRAFT", "POSTED", "REVERSED"}
Unsettled == {"PENDING", "SENDING", "RETRY", "CONFLICT"}
Creating  == {"CREATE_DRAFT", "COMMIT"}
Changing  == {"UPDATE_DRAFT", "POST", "REVERSE"}

Requests == [type : Creating \cup Changing, entity : Entities, version : Nat,
             cached : Ops \cup {0}, shown : Ops \cup {0}, opened : Nat, second : Nat]
Rows     == [status : Statuses, by : Ops \cup {0}, version : Nat,
             sync : Unsettled \cup {"SYNCED"}]
Screens  == [entity : Entities, row : Rows, edits : BOOLEAN]
Contents == [status : Statuses, by : Ops \cup {0}]
Syncs    == [phase : {"IDLE", "LOOP", "READ", "SENT", "ANSWERED"}, op : Ops \cup {0},
             answer : Nat, force : BOOLEAN, left : Int]

OTypeOK ==
    /\ second \in Nat
    /\ ops \in [Ops -> Requests \cup {NoOp}]
    /\ state \in [Ops -> Queued \cup {"NONE", "ACKED", "DISCARDED"}]
    /\ cache \in [Entities -> Rows \cup {NoRow}]
    /\ screen \in Screens \cup {NoScreen}
    /\ sync \in Syncs
    /\ page \in [Entities -> Nat]
    /\ log \in [Entities -> Seq(Contents)]
    /\ record \in [Ops -> Nat]
    /\ late \subseteq Ops

\* What is sent, or waits to be, was queued.
Asked(o) == o \in Ops /\ ops[o] # NoOp

Known ==
    /\ \A o \in InOutbox \cup late : Asked(o)
    /\ sync.phase \in {"READ", "SENT", "ANSWERED"} => Asked(sync.op)

\* The version the server reports is one the row has had.
PageIsReal == \A e \in Entities : page[e] <= Len(log[e])

ScreenIsReal ==
    screen # NoScreen =>
        /\ screen.row.version \in 1..Len(log[screen.entity])
        /\ screen.row = Canonical(screen.entity, screen.row.version)

AnswerIsRecorded ==
    sync.phase = "ANSWERED" /\ sync.answer # 0 => record[sync.op] = sync.answer

\* A record names the one version its operation wrote, and a version the record
\* of the operation that wrote it.
RecordNamesVersion ==
    \A o \in Ops : record[o] # 0 =>
        /\ Asked(o)
        /\ record[o] \in 1..Len(log[ops[o].entity])
        /\ log[ops[o].entity][record[o]].by = o

VersionNamesRecord ==
    \A e \in Entities : \A v \in 1..Len(log[e]) :
        log[e][v].by # 0 =>
            /\ Asked(log[e][v].by)
            /\ ops[log[e][v].by].entity = e
            /\ record[log[e][v].by] = v

\* One operation creates a transaction, and the server has no other.
OneCreation ==
    /\ \A o, p \in Ops :
          ( /\ Asked(o) /\ ops[o].type \in Creating
            /\ Asked(p) /\ ops[p].type \in Creating
            /\ ops[o].entity = ops[p].entity )
          => o = p
    /\ \A e \in Entities : log[e] # <<>> => ~Fresh(e)

\* An operation on a transaction names the version the cache held; where the
\* server has none yet, the one that its creation will write.
Grounded(o) ==
    LET e == ops[o].entity
        v == ops[o].version
    IN  \/ v \in 1..Len(log[e]) /\ log[e][v].by = ops[o].cached
        \/ /\ log[e] = <<>> /\ v = 1
           /\ Asked(ops[o].cached)
           /\ ops[ops[o].cached].type = "CREATE_DRAFT" /\ ops[ops[o].cached].entity = e

\* The user was shown what the cache held, but for an edit whose form was opened on
\* another version.
Showing(request) ==
    \/ request.shown = request.cached
    \/ request.type = "UPDATE_DRAFT" /\ request.opened # request.version

ChangesAreGrounded ==
    \A o \in Ops : Asked(o) /\ ops[o].type \in Changing =>
        Grounded(o) /\ Showing(ops[o])

OInv ==
    /\ OTypeOK /\ Known
    /\ PendingIsShown /\ SyncedIsReal /\ PageIsReal /\ ScreenIsReal
    /\ AnswerIsRecorded /\ RecordNamesVersion /\ VersionNamesRecord
    /\ AcknowledgedWasApplied
    /\ OneCreation /\ ChangesAreGrounded /\ ActsOnWhatWasShown

LEMMA OInitInv == OInit => OInv
<1> SUFFICES ASSUME OInit PROVE OInv
    OBVIOUS
<1>1. OTypeOK
    BY DEF OInit, OTypeOK, Syncs, Idle, NoPage
<1> QED
    BY <1>1 DEF OInit, OInv, Known, Asked, PendingIsShown, SyncedIsReal, PageIsReal, ScreenIsReal, AnswerIsRecorded, RecordNamesVersion, VersionNamesRecord, AcknowledgedWasApplied, OneCreation, ChangesAreGrounded, ActsOnWhatWasShown, InOutbox, Queued, GenericOpsOf, OpsOf, NoPage, Idle, NoRow, Fresh

-----------------------------------------------------------------------------
(* The operation the outbox yields *)

LEMMA LeastNatural ==
    ASSUME NEW S \in SUBSET Nat, S # {}
    PROVE  \E n \in S : \A m \in S : n <= m
<1> DEFINE R == OpToRel(<, Nat)
<1>1. IsWellFoundedOn(R, Nat)
    BY NatLessThanWellFounded
<1>2. PICK n \in S : \A m \in S : ~(<<m, n>> \in R)
    BY <1>1, WFMin
<1>3. \A m \in S : ~(m < n)
    BY <1>2 DEF OpToRel
<1> QED
    BY <1>3

LEMMA NextUpIsQueued ==
    ASSUME OTypeOK, Known, InOutbox # {}
    PROVE  NextUp \in InOutbox
<1> DEFINE seconds == {ops[o].second : o \in InOutbox}
<1>1. \A o \in InOutbox : o \in Nat /\ ops[o].second \in Nat
    BY OutboxAssumption DEF OTypeOK, Known, InOutbox, Asked, Requests, OutboxAssumption
<1>2. PICK s \in seconds : \A t \in seconds : s <= t
    <2>1. seconds \in SUBSET Nat /\ seconds # {}
        BY <1>1
    <2> QED
        BY <2>1, LeastNatural
<1> DEFINE firsts == {o \in InOutbox : ops[o].second = s}
<1>3. PICK o \in firsts : \A p \in firsts : o <= p
    <2>1. firsts \in SUBSET Nat /\ firsts # {}
        BY <1>1, <1>2
    <2> QED
        BY <2>1, LeastNatural
<1>4. ASSUME NEW p \in InOutbox, p # o
      PROVE  Before(o, p)
    <2>1. s = ops[o].second /\ s <= ops[p].second /\ o \in InOutbox
        BY <1>2, <1>3
    <2>2. ops[p].second = s => o <= p
        BY <1>3
    <2> QED
        BY <1>1, <1>4, <2>1, <2>2 DEF Before
<1>5. \E q \in InOutbox : \A p \in InOutbox \ {q} : Before(q, p)
    BY <1>3, <1>4
<1> QED
    BY <1>5 DEF NextUp

-----------------------------------------------------------------------------
(* What a step does, seen from the server and from the device's queue *)

Writes(o) ==
    /\ Asked(o) /\ record[o] = 0 /\ Accepts(o)
    /\ log' = [log EXCEPT ![ops[o].entity] =
                 Append(@, [status |-> StatusAfter(o), by |-> o])]
    /\ record' = [record EXCEPT ![o] = Len(log[ops[o].entity]) + 1]

OthersAppend(e, status) ==
    /\ log[e] # <<>>
    /\ log' = [log EXCEPT ![e] = Append(@, [status |-> status, by |-> 0])]
    /\ UNCHANGED record

LEMMA Handled ==
    ASSUME OTypeOK, NEW o, Asked(o), NEW answer, Handle(o, answer)
    PROVE  /\ answer = record'[o]
           /\ UNCHANGED <<log, record>> \/ Writes(o)
<1>1. o \in Ops /\ ops[o].entity \in Entities
    BY DEF Asked, OTypeOK, Requests
<1>2. CASE Replay(o, answer) \/ Refuse(o, answer)
    BY <1>1, <1>2 DEF Replay, Refuse, Recorded
<1>3. CASE Apply(o, answer)
    <2>1. Len(log'[ops[o].entity]) = Len(log[ops[o].entity]) + 1
        BY <1>1, <1>3 DEF Apply, OTypeOK
    <2> QED
        BY <1>1, <1>3, <2>1 DEF Apply, Recorded, Writes, OTypeOK
<1> QED
    BY <1>2, <1>3 DEF Handle

LEMMA ServerStep ==
    ASSUME OInv, [ONext]_vars
    PROVE  \/ UNCHANGED <<log, record>>
           \/ UNCHANGED <<ops, page, screen, cache>> /\ \E o \in Ops : Writes(o)
           \/ /\ UNCHANGED device
              /\ \E e \in Entities, status \in {"DRAFT", "POSTED"} : OthersAppend(e, status)
<1>1. CASE UNCHANGED vars
    BY <1>1 DEF vars, server
<1>2. CASE User
    <2>1. ASSUME NEW e \in Entities, NEW o \in Ops, NEW at \in second..MaxSecond,
                 QueueCreate(e, o, at) \/ QueueCommit(e, o, at)
          PROVE  UNCHANGED <<log, record>>
        BY <2>1 DEF QueueCreate, QueueCommit, Save, server
    <2>2. ASSUME NEW e \in Entities, NEW o \in Ops, NEW p \in Ops,
                 NEW at \in second..MaxSecond, QueueCreateAndPost(e, o, p, at)
          PROVE  UNCHANGED <<log, record>>
        BY <2>2 DEF QueueCreateAndPost, Save, server
    <2>3. CASE \E o \in Ops, at \in second..MaxSecond : Answer(o, at) \/ QueueUpdate(o, at)
        BY <2>3 DEF Answer, QueueUpdate, Save, server
    <2>4. CASE \/ \E e \in Entities : Ask(e) \/ OpenEdit(e) \/ DiscardEntity(e)
               \/ Cancel \/ \E o \in Ops : DiscardCommit(o)
        BY <2>4 DEF Ask, OpenEdit, DiscardEntity, Cancel, DiscardCommit, server
    <2> QED
        BY <1>2, <2>1, <2>2, <2>3, <2>4 DEF User
<1>3. CASE Serve
    <2>1. OTypeOK /\ Asked(sync.op)
        BY <1>3 DEF Serve, OInv, Known
    <2> QED
        BY <1>3, <2>1, Handled DEF Serve, Asked
<1>4. CASE Synchronization /\ ~Serve
    BY <1>4 DEF Synchronization, StartSync, EndSync, ReadNext, MarkSending, Fail,
                Acknowledge, AcknowledgeDiscarded, Refused, NetworkFailure, server
<1>5. ASSUME NEW o \in Ops, ServeLate(o)
      PROVE  \/ UNCHANGED <<log, record>>
             \/ UNCHANGED <<ops, page, screen, cache>> /\ Writes(o)
    <2>1. OTypeOK /\ Asked(o)
        BY <1>5 DEF ServeLate, OInv, Known
    <2> QED
        BY <1>5, <2>1, Handled DEF ServeLate, device
<1>6. CASE Crash \/ \E o \in Ops : ElapseBackoff(o)
    BY <1>6 DEF Crash, ElapseBackoff, server
<1>7. ASSUME NEW e \in Entities, OthersWrite(e)
      PROVE  /\ UNCHANGED device
             /\ \E status \in {"DRAFT", "POSTED"} : OthersAppend(e, status)
    BY <1>7 DEF OthersWrite, OthersAppend
<1>8. CASE Fetch \/ Merge \/ LosePage
    BY <1>8 DEF Fetch, Merge, LosePage, server
<1> QED
    BY <1>1, <1>2, <1>3, <1>4, <1>5, <1>6, <1>7, <1>8 DEF ONext, Environment

\* The operations queued by one action of the user, on one transaction.
Queues(e, new) ==
    /\ DOMAIN new \subseteq Ops
    /\ \A o \in DOMAIN new :
          /\ ops[o] = NoOp
          /\ new[o] \in Requests /\ new[o].entity = e
          /\ new[o].type \in Creating =>
                /\ Fresh(e)
                /\ \A p \in DOMAIN new : new[p].type \in Creating => p = o
          /\ new[o].type \in Changing =>
                /\ Showing(new[o])
                /\ \/ /\ new[o].version \in 1..Len(log[e])
                      /\ log[e][new[o].version].by = new[o].cached
                   \/ /\ Fresh(e) /\ new[o].version = 1
                      /\ new[o].cached \in DOMAIN new
                      /\ new[new[o].cached].type = "CREATE_DRAFT"
    /\ second' \in Nat
    /\ ops' = [o \in Ops |-> IF o \in DOMAIN new THEN new[o] ELSE ops[o]]
    /\ state' = [o \in Ops |-> IF o \in DOMAIN new THEN "PENDING" ELSE state[o]]
    /\ screen' = NoScreen
    /\ \/ UNCHANGED cache /\ \A o \in DOMAIN new : new[o].type = "COMMIT"
       \/ \E row \in Rows : row.sync = "PENDING" /\ cache' = [cache EXCEPT ![e] = row]
    /\ UNCHANGED <<sync, page, server>>

LEMMA ClockTypes ==
    ASSUME OTypeOK, NEW at \in second..MaxSecond
    PROVE  at \in Nat
BY OutboxAssumption DEF OTypeOK, OutboxAssumption

LEMMA QueueCreateQueues ==
    ASSUME OInv, NEW e \in Entities, NEW o \in Ops, NEW at \in Nat,
           QueueCreate(e, o, at)
    PROVE  \E new : Queues(e, new)
<1>1. PICK new : new = [i \in {o} |-> Operation("CREATE_DRAFT", e, Nothing, Nothing, at)]
    OBVIOUS
<1>2. DOMAIN new = {o} /\ new[o] \in Requests
      /\ new[o].entity = e /\ new[o].type = "CREATE_DRAFT"
    BY <1>1 DEF Operation, Nothing, Requests, Creating
<1>3. Provisional(o, 1) \in Rows /\ Provisional(o, 1).sync = "PENDING"
    BY DEF Provisional, Rows, Statuses, Unsettled
<1>4. Save(e, Provisional(o, 1), new, at) /\ Fresh(e)
    BY <1>1 DEF QueueCreate
<1>5. Queues(e, new)
    BY <1>2, <1>3, <1>4 DEF Queues, Save, Creating, Changing
<1> QED
    BY <1>5

LEMMA QueueCommitQueues ==
    ASSUME OInv, NEW e \in Entities, NEW o \in Ops, NEW at \in Nat,
           QueueCommit(e, o, at)
    PROVE  \E new : Queues(e, new)
<1>1. PICK new : new = [i \in {o} |-> Operation("COMMIT", e, Nothing, Nothing, at)]
    OBVIOUS
<1>2. DOMAIN new = {o} /\ new[o] \in Requests
      /\ new[o].entity = e /\ new[o].type = "COMMIT"
    BY <1>1 DEF Operation, Nothing, Requests, Creating
<1>3. Save(e, cache[e], new, at) /\ Fresh(e)
    BY <1>1 DEF QueueCommit
<1>4. UNCHANGED cache
    BY <1>3 DEF Save, OInv, OTypeOK
<1>5. Queues(e, new)
    BY <1>2, <1>3, <1>4 DEF Queues, Save, Creating, Changing
<1> QED
    BY <1>5

LEMMA QueueCreateAndPostQueues ==
    ASSUME OInv, NEW e \in Entities, NEW o \in Ops, NEW p \in Ops, NEW at \in Nat,
           QueueCreateAndPost(e, o, p, at)
    PROVE  \E new : Queues(e, new)
<1>1. PICK new : new = [i \in {o, p} |->
                          IF i = o THEN Operation("CREATE_DRAFT", e, Nothing, Nothing, at)
                                   ELSE Operation("POST", e, Provisional(o, 1),
                                                  Provisional(o, 1), at)]
    OBVIOUS
<1>2. /\ DOMAIN new = {o, p} /\ o # p
      /\ new[o] \in Requests /\ new[o].entity = e /\ new[o].type = "CREATE_DRAFT"
      /\ new[p] \in Requests /\ new[p].entity = e /\ new[p].type = "POST"
      /\ new[p].version = 1 /\ new[p].cached = o /\ Showing(new[p])
    BY <1>1 DEF Operation, Nothing, Provisional, Requests, Creating, Changing, Showing,
                QueueCreateAndPost
<1>3. Provisional(o, 1) \in Rows /\ Provisional(o, 1).sync = "PENDING"
    BY DEF Provisional, Rows, Statuses, Unsettled
<1>4. Save(e, Provisional(o, 1), new, at) /\ Fresh(e)
    BY <1>1 DEF QueueCreateAndPost
<1>5. Queues(e, new)
    BY <1>2, <1>3, <1>4 DEF Queues, Save, Creating, Changing
<1> QED
    BY <1>5

\* The row a screen was opened on tells the version it names, though the cache has
\* moved on.
LEMMA ScreenRow ==
    ASSUME OInv, screen # NoScreen
    PROVE  /\ screen.entity \in Entities /\ screen.row \in Rows
           /\ screen.row.version \in 1..Len(log[screen.entity])
           /\ log[screen.entity][screen.row.version].by = screen.row.by
<1>1. screen \in Screens
    BY DEF OInv, OTypeOK
<1> QED
    BY <1>1 DEF Screens, OInv, ScreenIsReal, Canonical

\* So does the row that is cached as synchronized.
LEMMA SyncedRow ==
    ASSUME OInv, NEW e \in Entities, cache[e].sync = "SYNCED"
    PROVE  /\ cache[e] \in Rows
           /\ cache[e].version \in 1..Len(log[e])
           /\ log[e][cache[e].version].by = cache[e].by
<1>1. cache[e] \in Rows
    BY DEF OInv, OTypeOK, NoRow
<1>2. cache[e].version \in 1..Len(log[e]) /\ cache[e] = Canonical(e, cache[e].version)
    BY DEF OInv, SyncedIsReal
<1> QED
    BY <1>1, <1>2 DEF Canonical

\* An edit goes with the version of the row as it is cached now, and the user was shown
\* that row's content if the form was opened on that version.
LEMMA QueueUpdateQueues ==
    ASSUME OInv, NEW o \in Ops, NEW at \in Nat, QueueUpdate(o, at)
    PROVE  \E e \in Entities : \E new : Queues(e, new)
<1>1. screen # NoScreen
    BY DEF QueueUpdate, NoScreen
<1>2. PICK e, row, seen : e = screen.entity /\ row = cache[e] /\ seen = screen.row
    OBVIOUS
<1>3. /\ e \in Entities /\ seen \in Rows /\ seen.version \in 1..Len(log[e])
      /\ log[e][seen.version].by = seen.by
    BY <1>1, <1>2, ScreenRow
<1>4. /\ row \in Rows /\ row.version \in 1..Len(log[e])
      /\ log[e][row.version].by = row.by
    BY <1>2, <1>3, SyncedRow DEF QueueUpdate
<1>5. PICK new : new = [i \in {o} |-> Operation("UPDATE_DRAFT", e, row, seen, at)]
    OBVIOUS
<1>6. /\ DOMAIN new = {o} /\ new[o] \in Requests
      /\ new[o].entity = e /\ new[o].type = "UPDATE_DRAFT"
      /\ new[o].version = row.version /\ new[o].cached = row.by
      /\ new[o].shown = seen.by /\ new[o].opened = seen.version
    BY <1>3, <1>4, <1>5 DEF Operation, Requests, Creating, Changing, Rows
<1>7. Showing(new[o])
    BY <1>3, <1>4, <1>6 DEF Showing
<1>8. /\ Provisional(o, row.version) \in Rows
      /\ Provisional(o, row.version).sync = "PENDING"
    BY <1>4 DEF Provisional, Rows, Statuses, Unsettled
<1>9. Save(e, Provisional(o, row.version), new, at)
    BY <1>2, <1>5 DEF QueueUpdate
<1>10. Queues(e, new)
    BY <1>4, <1>6, <1>7, <1>8, <1>9 DEF Queues, Save, Creating, Changing
<1> QED
    BY <1>3, <1>10

\* A post or a reversal goes with the version the question was asked about.
LEMMA AnswerQueues ==
    ASSUME OInv, NEW o \in Ops, NEW at \in Nat, Answer(o, at)
    PROVE  \E e \in Entities : \E new : Queues(e, new)
<1>1. PICK row, e : row = screen.row /\ e = screen.entity
    OBVIOUS
<1>2. /\ e \in Entities /\ row \in Rows /\ row.version \in 1..Len(log[e])
      /\ log[e][row.version].by = row.by
    BY <1>1, ScreenRow DEF Answer
<1>3. PICK new : new = [i \in {o} |-> Operation(TypeAsked(row), e, row, row, at)]
    OBVIOUS
<1>4. Save(e, [row EXCEPT !.sync = "PENDING"], new, at)
    BY <1>1, <1>3 DEF Answer
<1>5. DOMAIN new = {o} /\ new[o] = Operation(TypeAsked(row), e, row, row, at)
    BY <1>3
<1>6. TypeAsked(row) \in {"POST", "REVERSE"}
    <2>1. TypeAsked(row) \in Types
        BY <1>4, <1>5 DEF Save, Operation
    <2>2. TypeAsked(row) \in {"POST", "REVERSE", "NONE"}
        BY DEF TypeAsked
    <2> QED
        BY <2>1, <2>2, OutboxAssumption DEF OutboxAssumption
<1>7. /\ new[o] \in Requests /\ new[o].entity = e /\ new[o].type \in {"POST", "REVERSE"}
      /\ new[o].version = row.version /\ new[o].cached = row.by /\ Showing(new[o])
    BY <1>2, <1>5, <1>6 DEF Operation, Requests, Creating, Changing, Rows, Showing
<1>8. /\ [row EXCEPT !.sync = "PENDING"] \in Rows
      /\ [row EXCEPT !.sync = "PENDING"].sync = "PENDING"
    BY <1>2 DEF Rows, Unsettled
<1>9. Queues(e, new)
    BY <1>2, <1>4, <1>5, <1>7, <1>8 DEF Queues, Save, Creating, Changing
<1> QED
    BY <1>2, <1>9

\* Whatever else may happen.
Otherwise ==
    \/ \E e \in Entities : Ask(e) \/ OpenEdit(e) \/ DiscardEntity(e)
    \/ Cancel
    \/ \E o \in Ops : DiscardCommit(o)
    \/ Synchronization \/ Environment \/ Fetch \/ Merge \/ LosePage
    \/ UNCHANGED vars

LEMMA DeviceStep ==
    ASSUME OInv, [ONext]_vars
    PROVE  \/ \E e \in Entities : \E new : Queues(e, new)
           \/ UNCHANGED ops /\ Otherwise
<1>1. ASSUME UNCHANGED vars
      PROVE  UNCHANGED ops
    BY <1>1 DEF vars, device
<1>2. ASSUME NEW e \in Entities, NEW o \in Ops, NEW at \in second..MaxSecond,
             \/ QueueCreate(e, o, at) \/ QueueCommit(e, o, at)
             \/ \E p \in Ops : QueueCreateAndPost(e, o, p, at)
      PROVE  \E new : Queues(e, new)
    <2>1. at \in Nat
        BY <1>2, ClockTypes DEF OInv
    <2> QED
        BY <1>2, <2>1, QueueCreateQueues, QueueCommitQueues, QueueCreateAndPostQueues
<1>3. ASSUME NEW o \in Ops, NEW at \in second..MaxSecond,
             Answer(o, at) \/ QueueUpdate(o, at)
      PROVE  \E e \in Entities : \E new : Queues(e, new)
    <2>1. at \in Nat
        BY <1>3, ClockTypes DEF OInv
    <2> QED
        BY <1>3, <2>1, AnswerQueues, QueueUpdateQueues
<1>4. ASSUME \/ \E e \in Entities : Ask(e) \/ OpenEdit(e) \/ DiscardEntity(e)
             \/ Cancel
             \/ \E o \in Ops : DiscardCommit(o)
      PROVE  UNCHANGED ops
    BY <1>4 DEF Ask, OpenEdit, DiscardEntity, Cancel, DiscardCommit
<1>5. ASSUME Synchronization
      PROVE  UNCHANGED ops
    BY <1>5 DEF Synchronization, StartSync, EndSync, ReadNext, MarkSending, Serve, Fail,
                Acknowledge, AcknowledgeDiscarded, Refused, NetworkFailure
<1>6. ASSUME Environment
      PROVE  UNCHANGED ops
    BY <1>6 DEF Environment, Crash, ElapseBackoff, ServeLate, OthersWrite, device
<1>7. ASSUME Fetch \/ Merge \/ LosePage
      PROVE  UNCHANGED ops
    BY <1>7 DEF Fetch, Merge, LosePage
<1> QED
    BY <1>1, <1>2, <1>3, <1>4, <1>5, <1>6, <1>7 DEF ONext, User, Otherwise

-----------------------------------------------------------------------------
(* What only grows: the queue's history, the rows' versions, the records *)

LEMMA OpsStay ==
    ASSUME OInv, [ONext]_vars
    PROVE  /\ \A o \in Ops : ops[o] # NoOp => ops'[o] = ops[o]
           /\ \A o : Asked(o) => Asked(o)'
           /\ ops' \in [Ops -> Requests \cup {NoOp}]
<1>1. CASE UNCHANGED ops
    BY <1>1 DEF Asked, OInv, OTypeOK
<1>2. ASSUME NEW e \in Entities, NEW new, Queues(e, new)
      PROVE  /\ \A o \in Ops : ops[o] # NoOp => ops'[o] = ops[o]
             /\ ops' \in [Ops -> Requests \cup {NoOp}]
    BY <1>2 DEF Queues, OInv, OTypeOK
<1> QED
    BY <1>1, <1>2, DeviceStep DEF Asked

LEMMA StatusTypes ==
    ASSUME OTypeOK, NEW o, Asked(o)
    PROVE  StatusAfter(o) \in Statuses
BY DEF OTypeOK, Asked, StatusAfter, Statuses, Requests, Creating, Changing

LEMMA AppendGrows ==
    ASSUME OTypeOK, NEW e \in Entities, NEW c \in Contents,
           log' = [log EXCEPT ![e] = Append(@, c)]
    PROVE  /\ log' \in [Entities -> Seq(Contents)]
           /\ Len(log'[e]) = Len(log[e]) + 1 /\ log'[e][Len(log[e]) + 1] = c
           /\ \A v \in 1..Len(log[e]) : log'[e][v] = log[e][v]
           /\ \A f \in Entities \ {e} : log'[f] = log[f]
BY DEF OTypeOK

LEMMA ServerGrows ==
    ASSUME OInv, [ONext]_vars
    PROVE  /\ log' \in [Entities -> Seq(Contents)] /\ record' \in [Ops -> Nat]
           /\ \A e \in Entities : /\ Len(log[e]) <= Len(log'[e])
                                  /\ \A v \in 1..Len(log[e]) : log'[e][v] = log[e][v]
           /\ \A o \in Ops : record[o] # 0 => record'[o] = record[o]
<1>1. CASE UNCHANGED <<log, record>>
    BY <1>1 DEF OInv, OTypeOK
<1>2. ASSUME NEW o \in Ops, Writes(o)
      PROVE  /\ log' \in [Entities -> Seq(Contents)] /\ record' \in [Ops -> Nat]
             /\ \A e \in Entities : /\ Len(log[e]) <= Len(log'[e])
                                    /\ \A v \in 1..Len(log[e]) : log'[e][v] = log[e][v]
             /\ \A p \in Ops : record[p] # 0 => record'[p] = record[p]
    <2>1. PICK c, e : /\ c = [status |-> StatusAfter(o), by |-> o]
                      /\ e = ops[o].entity
        OBVIOUS
    <2>2. c \in Contents /\ e \in Entities
        BY <1>2, <2>1, StatusTypes DEF Contents, Writes, Asked, OInv, OTypeOK, Requests
    <2>3. log' = [log EXCEPT ![e] = Append(@, c)]
        BY <1>2, <2>1 DEF Writes
    <2>4. /\ log' \in [Entities -> Seq(Contents)]
          /\ Len(log'[e]) = Len(log[e]) + 1
          /\ \A v \in 1..Len(log[e]) : log'[e][v] = log[e][v]
          /\ \A f \in Entities \ {e} : log'[f] = log[f]
        BY <2>2, <2>3, AppendGrows DEF OInv
    <2>5. \A f \in Entities : Len(log[f]) \in Nat
        BY DEF OInv, OTypeOK
    <2>6. record' = [record EXCEPT ![o] = Len(log[e]) + 1] /\ record[o] = 0
        BY <1>2, <2>1 DEF Writes
    <2>7. record' \in [Ops -> Nat] /\ \A p \in Ops : record[p] # 0 => record'[p] = record[p]
        BY <2>2, <2>5, <2>6 DEF OInv, OTypeOK
    <2> QED
        BY <2>2, <2>4, <2>5, <2>7
<1>3. ASSUME NEW e \in Entities, NEW status \in {"DRAFT", "POSTED"}, OthersAppend(e, status)
      PROVE  /\ log' \in [Entities -> Seq(Contents)] /\ record' \in [Ops -> Nat]
             /\ \A f \in Entities : /\ Len(log[f]) <= Len(log'[f])
                                    /\ \A v \in 1..Len(log[f]) : log'[f][v] = log[f][v]
             /\ \A p \in Ops : record[p] # 0 => record'[p] = record[p]
    <2>1. PICK c : c = [status |-> status, by |-> 0]
        OBVIOUS
    <2>2. c \in Contents
        BY <2>1 DEF Contents, Statuses
    <2>3. log' = [log EXCEPT ![e] = Append(@, c)]
        BY <1>3, <2>1 DEF OthersAppend
    <2>4. /\ log' \in [Entities -> Seq(Contents)]
          /\ Len(log'[e]) = Len(log[e]) + 1
          /\ \A v \in 1..Len(log[e]) : log'[e][v] = log[e][v]
          /\ \A f \in Entities \ {e} : log'[f] = log[f]
        BY <2>2, <2>3, AppendGrows DEF OInv
    <2>5. \A f \in Entities : Len(log[f]) \in Nat
        BY DEF OInv, OTypeOK
    <2> QED
        BY <1>3, <2>4, <2>5 DEF OthersAppend, OInv, OTypeOK
<1> QED
    BY <1>1, <1>2, <1>3, ServerStep

-----------------------------------------------------------------------------
(* The cache *)

LEMMA MarkedRows ==
    ASSUME OTypeOK, NEW e \in Entities, NEW status \in Unsettled,
           cache' = SetSync(e, status)
    PROVE  /\ cache' \in [Entities -> Rows \cup {NoRow}]
           /\ \A f \in Entities \ {e} : cache'[f] = cache[f]
           /\ cache[e] = NoRow => cache'[e] = NoRow
           /\ cache[e] # NoRow => cache'[e] \in Rows /\ cache'[e].sync = status
<1>1. CASE cache[e] = NoRow
    BY <1>1 DEF SetSync, OTypeOK
<1>2. CASE cache[e] # NoRow
    <2>1. PICK row : row = [cache[e] EXCEPT !.sync = status]
        OBVIOUS
    <2>2. cache[e] \in Rows
        BY <1>2 DEF OTypeOK
    <2>3. row \in Rows /\ row.sync = status
        BY <2>1, <2>2 DEF Rows
    <2>4. cache' = [cache EXCEPT ![e] = row]
        BY <1>2, <2>1, <2>2 DEF SetSync, Rows, OTypeOK
    <2> QED
        BY <1>2, <2>3, <2>4 DEF OTypeOK
<1> QED
    BY <1>1, <1>2

LEMMA CanonicalTypes ==
    ASSUME OTypeOK, NEW e \in Entities, NEW v \in 1..Len(log[e])
    PROVE  Canonical(e, v) \in Rows
<1>1. log[e][v] \in Contents
    BY DEF OTypeOK
<1> QED
    BY <1>1 DEF Canonical, Rows, Contents

\* A row of the cache becomes unsettled, goes, or is what the server held.
CacheMoves(e) ==
    \/ cache'[e] = cache[e]
    \/ cache'[e] \in Rows /\ cache'[e].sync # "SYNCED"
    \/ cache'[e] = NoRow
    \/ UNCHANGED log /\ \E v \in 1..Len(log[e]) : cache'[e] = Canonical(e, v)

LEMMA FailMoves ==
    ASSUME OInv, NEW conflict \in BOOLEAN, Fail(conflict), Asked(sync.op)
    PROVE  /\ cache' \in [Entities -> Rows \cup {NoRow}]
           /\ \A e \in Entities : CacheMoves(e)
<1>1. ops[sync.op].entity \in Entities
    BY DEF Asked, OInv, OTypeOK, Requests
<1>2. PICK status \in {"CONFLICT", "RETRY"} :
          cache' = IF Generic(sync.op) THEN SetSync(ops[sync.op].entity, status) ELSE cache
    BY DEF Fail
<1>3. CASE Generic(sync.op)
    BY <1>1, <1>2, <1>3, MarkedRows DEF CacheMoves, OInv, Unsettled
<1>4. CASE ~Generic(sync.op)
    BY <1>2, <1>4 DEF CacheMoves, OInv, OTypeOK
<1> QED
    BY <1>3, <1>4

LEMMA AcknowledgeMoves ==
    ASSUME OInv, Acknowledge
    PROVE  /\ cache' \in [Entities -> Rows \cup {NoRow}]
           /\ \A e \in Entities : CacheMoves(e)
<1>1. PICK o, e, v : o = sync.op /\ e = ops[o].entity /\ v = sync.answer
    OBVIOUS
<1>2. o \in Ops /\ e \in Entities /\ v \in 1..Len(log[e])
    BY <1>1 DEF Acknowledge, OInv, Known, Asked, OTypeOK, Requests, Syncs,
                AnswerIsRecorded, RecordNamesVersion
<1>3. PICK row : row = Canonical(e, v)
    OBVIOUS
<1>4. PICK new : new = Acknowledged(o, OpsOf(e) \ {o})
    OBVIOUS
<1>5. row \in Rows
    BY <1>2, <1>3, CanonicalTypes DEF OInv
<1>6. new = row \/ new = [row EXCEPT !.sync = "PENDING"]
    BY <1>1, <1>3, <1>4 DEF Acknowledged
<1>7. new \in Rows /\ (new = row \/ new.sync # "SYNCED")
    BY <1>5, <1>6 DEF Rows, Unsettled
<1>8. cache' = [cache EXCEPT ![e] = new] /\ UNCHANGED log
    BY <1>1, <1>4 DEF Acknowledge, server
<1> QED
    BY <1>2, <1>3, <1>7, <1>8 DEF CacheMoves, OInv, OTypeOK

LEMMA MergeMoves ==
    ASSUME OInv, Merge
    PROVE  /\ cache' \in [Entities -> Rows \cup {NoRow}]
           /\ \A e \in Entities : CacheMoves(e)
<1>1. ASSUME NEW e \in Entities, Overwrites(e)
      PROVE  page[e] \in 1..Len(log[e]) /\ Canonical(e, page[e]) \in Rows
    <2>1. page[e] \in 1..Len(log[e])
        BY <1>1 DEF Overwrites, OInv, PageIsReal, OTypeOK
    <2> QED
        BY <2>1, CanonicalTypes DEF OInv
<1>2. \A e \in Entities : cache'[e] = IF Overwrites(e) THEN Canonical(e, page[e]) ELSE cache[e]
    BY DEF Merge
<1>3. cache' = [e \in Entities |-> cache'[e]] /\ UNCHANGED log
    BY DEF Merge, server
<1>4. \A e \in Entities : cache'[e] \in Rows \cup {NoRow}
    BY <1>1, <1>2 DEF OInv, OTypeOK
<1> QED
    BY <1>1, <1>2, <1>3, <1>4 DEF CacheMoves

LEMMA CacheStep ==
    ASSUME OInv, [ONext]_vars
    PROVE  /\ cache' \in [Entities -> Rows \cup {NoRow}]
           /\ \A e \in Entities : CacheMoves(e)
<1>1. CASE UNCHANGED cache
    BY <1>1 DEF CacheMoves, OInv, OTypeOK
<1>2. ASSUME NEW e \in Entities, NEW new, Queues(e, new)
      PROVE  /\ cache' \in [Entities -> Rows \cup {NoRow}]
             /\ \A f \in Entities : CacheMoves(f)
    <2>1. CASE UNCHANGED cache
        BY <1>1, <2>1 DEF CacheMoves
    <2>2. ASSUME NEW row \in Rows, row.sync = "PENDING", cache' = [cache EXCEPT ![e] = row]
          PROVE  /\ cache' \in [Entities -> Rows \cup {NoRow}]
                 /\ \A f \in Entities : CacheMoves(f)
        <3>1. cache'[e] = row /\ \A f \in Entities \ {e} : cache'[f] = cache[f]
            BY <2>2 DEF OInv, OTypeOK
        <3>2. cache' \in [Entities -> Rows \cup {NoRow}]
            BY <2>2 DEF OInv, OTypeOK
        <3> QED
            BY <2>2, <3>1, <3>2 DEF CacheMoves
    <2> QED
        BY <1>2, <2>1, <2>2 DEF Queues
<1>3. ASSUME NEW e \in Entities, DiscardEntity(e)
      PROVE  /\ cache' \in [Entities -> Rows \cup {NoRow}]
             /\ \A f \in Entities : CacheMoves(f)
    BY <1>3 DEF DiscardEntity, CacheMoves, OInv, OTypeOK
<1>4. CASE MarkSending
    <2>1. ops[sync.op].entity \in Entities
        BY <1>4 DEF MarkSending, OInv, Known, Asked, OTypeOK, Requests
    <2>2. CASE Generic(sync.op)
        <3>1. cache' = SetSync(ops[sync.op].entity, "SENDING")
            BY <1>4, <2>2 DEF MarkSending
        <3> QED
            BY <2>1, <3>1, MarkedRows DEF CacheMoves, OInv, Unsettled
    <2>3. CASE ~Generic(sync.op)
        BY <1>4, <2>3 DEF MarkSending, CacheMoves, OInv, OTypeOK
    <2> QED
        BY <2>2, <2>3
<1>5. CASE AcknowledgeDiscarded \/ Refused \/ NetworkFailure
    <2>1. Asked(sync.op)
        BY <1>5 DEF AcknowledgeDiscarded, Refused, NetworkFailure, OInv, Known
    <2> QED
        BY <1>5, <2>1, FailMoves DEF AcknowledgeDiscarded, Refused, NetworkFailure
<1>7. CASE Synchronization
    BY <1>1, <1>4, <1>5, <1>7, AcknowledgeMoves
    DEF Synchronization, StartSync, EndSync, ReadNext, Serve
<1>8. CASE Environment
    BY <1>1, <1>8 DEF Environment, Crash, ElapseBackoff, ServeLate, OthersWrite, device
<1>9. CASE Fetch \/ Merge \/ LosePage
    BY <1>1, <1>9, MergeMoves DEF Fetch, LosePage
<1>10. CASE \/ \E e \in Entities : Ask(e) \/ OpenEdit(e)
            \/ Cancel
            \/ \E o \in Ops : DiscardCommit(o)
            \/ UNCHANGED vars
    BY <1>1, <1>10 DEF Ask, OpenEdit, Cancel, DiscardCommit, vars, device
<1> QED
    BY <1>2, <1>3, <1>7, <1>8, <1>9, <1>10, DeviceStep DEF Otherwise

-----------------------------------------------------------------------------
(* The queue *)

\* An operation is queued by the user, moves within the queue, is given up, or is
\* acknowledged, and then the server has recorded it.
StateMoves(o) ==
    \/ state'[o] = state[o]
    \/ o \in InOutbox /\ state'[o] \in {"SENDING", "RETRY", "CONFLICT", "DISCARDED"}
    \/ state'[o] = "PENDING" /\ Asked(o)'
    \/ state'[o] = "ACKED" /\ o \in InOutbox /\ record[o] # 0

LEMMA StateStep ==
    ASSUME OInv, [ONext]_vars
    PROVE  /\ state' \in [Ops -> Queued \cup {"NONE", "ACKED", "DISCARDED"}]
           /\ \A o \in Ops : StateMoves(o)
<1>1. ASSUME UNCHANGED state
      PROVE  /\ state' \in [Ops -> Queued \cup {"NONE", "ACKED", "DISCARDED"}]
             /\ \A o \in Ops : StateMoves(o)
    BY <1>1 DEF StateMoves, OInv, OTypeOK
<1>2. ASSUME NEW e \in Entities, NEW new, Queues(e, new)
      PROVE  /\ state' \in [Ops -> Queued \cup {"NONE", "ACKED", "DISCARDED"}]
             /\ \A o \in Ops : StateMoves(o)
    <2>1. \A o \in DOMAIN new : new[o] # NoOp
        BY <1>2 DEF Queues, Requests, Creating, Changing, NoOp
    <2> QED
        BY <1>2, <2>1 DEF Queues, StateMoves, Asked, Queued, OInv, OTypeOK
<1>3. ASSUME NEW e \in Entities, DiscardEntity(e)
      PROVE  /\ state' \in [Ops -> Queued \cup {"NONE", "ACKED", "DISCARDED"}]
             /\ \A o \in Ops : StateMoves(o)
    BY <1>3 DEF DiscardEntity, StateMoves, OpsOf, OInv, OTypeOK
<1>4. ASSUME NEW o \in Ops, DiscardCommit(o)
      PROVE  /\ state' \in [Ops -> Queued \cup {"NONE", "ACKED", "DISCARDED"}]
             /\ \A p \in Ops : StateMoves(p)
    BY <1>4 DEF DiscardCommit, StateMoves, OInv, OTypeOK
<1>5. ASSUME MarkSending
      PROVE  /\ state' \in [Ops -> Queued \cup {"NONE", "ACKED", "DISCARDED"}]
             /\ \A o \in Ops : StateMoves(o)
    <2>1. state' = IF sync.op \in InOutbox THEN [state EXCEPT ![sync.op] = "SENDING"]
                                           ELSE state
        BY <1>5 DEF MarkSending
    <2> QED
        BY <2>1 DEF StateMoves, Queued, OInv, OTypeOK
<1>6. ASSUME NEW conflict \in BOOLEAN, Fail(conflict)
      PROVE  /\ state' \in [Ops -> Queued \cup {"NONE", "ACKED", "DISCARDED"}]
             /\ \A o \in Ops : StateMoves(o)
    <2>1. PICK status \in {"CONFLICT", "RETRY"} :
            state' = IF sync.op \in InOutbox THEN [state EXCEPT ![sync.op] = status]
                                             ELSE state
        BY <1>6 DEF Fail
    <2> QED
        BY <2>1 DEF StateMoves, Queued, OInv, OTypeOK
<1>7. ASSUME Acknowledge
      PROVE  /\ state' \in [Ops -> Queued \cup {"NONE", "ACKED", "DISCARDED"}]
             /\ \A o \in Ops : StateMoves(o)
    <2>1. record[sync.op] # 0 /\ sync.op \in InOutbox
        BY <1>7 DEF Acknowledge, OInv, AnswerIsRecorded, OTypeOK, Syncs
    <2>2. state' = [state EXCEPT ![sync.op] = "ACKED"]
        BY <1>7 DEF Acknowledge
    <2> QED
        BY <2>1, <2>2 DEF StateMoves, OInv, OTypeOK
<1>8. ASSUME Synchronization
      PROVE  /\ state' \in [Ops -> Queued \cup {"NONE", "ACKED", "DISCARDED"}]
             /\ \A o \in Ops : StateMoves(o)
    BY <1>1, <1>5, <1>6, <1>7, <1>8
    DEF Synchronization, StartSync, EndSync, ReadNext, Serve, AcknowledgeDiscarded,
        Refused, NetworkFailure
<1>9. ASSUME Environment
      PROVE  /\ state' \in [Ops -> Queued \cup {"NONE", "ACKED", "DISCARDED"}]
             /\ \A o \in Ops : StateMoves(o)
    BY <1>1, <1>9 DEF Environment, Crash, ElapseBackoff, ServeLate, OthersWrite, device
<1>10. ASSUME \/ \E e \in Entities : Ask(e) \/ OpenEdit(e)
              \/ Cancel \/ Fetch \/ Merge \/ LosePage \/ UNCHANGED vars
       PROVE  /\ state' \in [Ops -> Queued \cup {"NONE", "ACKED", "DISCARDED"}]
              /\ \A o \in Ops : StateMoves(o)
    BY <1>1, <1>10 DEF Ask, OpenEdit, Cancel, Fetch, Merge, LosePage, vars, device
<1> QED
    BY <1>2, <1>3, <1>4, <1>8, <1>9, <1>10, DeviceStep DEF Otherwise

LEMMA AcknowledgedStep ==
    ASSUME OInv, [ONext]_vars
    PROVE  AcknowledgedWasApplied'
BY StateStep, ServerGrows DEF StateMoves, AcknowledgedWasApplied, OInv, OTypeOK, Queued

-----------------------------------------------------------------------------
(* The synchronization *)

LEMMA SyncStep ==
    ASSUME OInv, [ONext]_vars
    PROVE  /\ sync' \in Syncs
           /\ sync'.phase \in {"READ", "SENT", "ANSWERED"} => Asked(sync'.op)
           /\ sync'.phase = "ANSWERED" /\ sync'.answer # 0 =>
                  record'[sync'.op] = sync'.answer
<1>1. ASSUME UNCHANGED sync
      PROVE  /\ sync' \in Syncs
             /\ sync'.phase \in {"READ", "SENT", "ANSWERED"} => Asked(sync'.op)
             /\ sync'.phase = "ANSWERED" /\ sync'.answer # 0 =>
                    record'[sync'.op] = sync'.answer
    <2>1. sync.phase = "ANSWERED" /\ sync.answer # 0 => record'[sync.op] = sync.answer
        BY ServerGrows DEF OInv, AnswerIsRecorded, Known, Asked
    <2> QED
        BY <1>1, <2>1 DEF OInv, Known, OTypeOK
<1>2. ASSUME sync' = Idle
      PROVE  /\ sync' \in Syncs
             /\ sync'.phase \notin {"READ", "SENT", "ANSWERED"}
    BY <1>2 DEF Syncs, Idle
<1>3. ASSUME NEW force \in BOOLEAN, StartSync(force)
      PROVE  sync' \in Syncs /\ sync'.phase = "LOOP"
    <2>1. sync' = [phase |-> "LOOP", op |-> 0, answer |-> 0, force |-> force,
                   left |-> Batch]
        BY <1>3 DEF StartSync, Idle
    <2>2. Batch \in Int
        BY OutboxAssumption DEF OutboxAssumption
    <2> QED
        BY <2>1, <2>2 DEF Syncs
<1>4. ASSUME ReadNext
      PROVE  sync' \in Syncs /\ sync'.phase = "READ" /\ Asked(sync'.op)
    <2>1. InOutbox # {}
        BY <1>4 DEF ReadNext, NothingToSend
    <2>2. NextUp \in InOutbox
        BY <2>1, NextUpIsQueued DEF OInv
    <2>3. Asked(NextUp)
        BY <2>2 DEF OInv, Known
    <2>4. sync' = [sync EXCEPT !.phase = "READ", !.op = NextUp]
        BY <1>4 DEF ReadNext
    <2>5. sync' \in Syncs /\ sync'.phase = "READ" /\ sync'.op = NextUp
        BY <2>3, <2>4 DEF OInv, OTypeOK, Syncs, Asked
    <2> QED
        BY <2>3, <2>5
<1>5. ASSUME MarkSending
      PROVE  sync' \in Syncs /\ sync'.phase = "SENT" /\ Asked(sync'.op)
    <2>1. sync.phase = "READ" /\ sync' = [sync EXCEPT !.phase = "SENT"]
        BY <1>5 DEF MarkSending
    <2>2. sync' \in Syncs /\ sync'.phase = "SENT" /\ sync'.op = sync.op
        BY <2>1 DEF OInv, OTypeOK, Syncs
    <2> QED
        BY <2>1, <2>2 DEF OInv, Known
<1>6. ASSUME Serve
      PROVE  /\ sync' \in Syncs /\ Asked(sync'.op)
             /\ record'[sync'.op] = sync'.answer
    <2>1. sync.phase = "SENT" /\ Asked(sync.op)
        BY <1>6 DEF Serve, OInv, Known
    <2>2. PICK answer \in 0..Cardinality(Ops) + MaxOthers :
             /\ Handle(sync.op, answer)
             /\ sync' = [sync EXCEPT !.phase = "ANSWERED", !.answer = answer]
        BY <1>6 DEF Serve
    <2>3. answer = record'[sync.op]
        BY <2>1, <2>2, Handled DEF OInv
    <2>4. answer \in Nat
        BY <2>1, <2>3, ServerGrows DEF Asked
    <2>5. sync' \in Syncs /\ sync'.op = sync.op /\ sync'.answer = answer
        BY <2>2, <2>4 DEF OInv, OTypeOK, Syncs
    <2> QED
        BY <2>1, <2>3, <2>5
<1>7. ASSUME Acknowledge
      PROVE  sync' \in Syncs /\ sync'.phase = "LOOP"
    <2>1. sync' = [sync EXCEPT !.phase = "LOOP", !.op = 0, !.answer = 0, !.left = @ - 1]
        BY <1>7 DEF Acknowledge
    <2>2. sync' = [phase |-> "LOOP", op |-> 0, answer |-> 0, force |-> sync.force,
                   left |-> sync.left - 1]
        BY <2>1 DEF OInv, OTypeOK, Syncs
    <2>3. sync.force \in BOOLEAN /\ sync.left - 1 \in Int
        BY DEF OInv, OTypeOK, Syncs
    <2> QED
        BY <2>2, <2>3 DEF Syncs
<1>8. ASSUME Synchronization
      PROVE  \/ sync' = Idle
             \/ \E force \in BOOLEAN : StartSync(force)
             \/ ReadNext \/ MarkSending \/ Serve \/ Acknowledge
    BY <1>8 DEF Synchronization, EndSync, AcknowledgeDiscarded, Refused, NetworkFailure, Fail
<1>9. ASSUME Otherwise, ~Synchronization
      PROVE  sync' = Idle \/ UNCHANGED sync
    BY <1>9 DEF Otherwise, Ask, OpenEdit, DiscardEntity, Cancel, DiscardCommit, Environment, Crash,
                ServeLate, ElapseBackoff, OthersWrite, Fetch, Merge, LosePage, vars, device
<1>10. ASSUME NEW e \in Entities, NEW new, Queues(e, new)
       PROVE  UNCHANGED sync
    BY <1>10 DEF Queues
<1> QED
    BY <1>1, <1>2, <1>3, <1>4, <1>5, <1>6, <1>7, <1>8, <1>9, <1>10, DeviceStep

LEMMA LateStep ==
    ASSUME OInv, [ONext]_vars
    PROVE  late' \subseteq {o \in Ops : Asked(o)}
<1>1. late \subseteq {o \in Ops : Asked(o)}
    BY DEF OInv, OTypeOK, Known
<1>2. sync.phase = "SENT" => Asked(sync.op)
    BY DEF OInv, Known
<1>3. ASSUME Otherwise
      PROVE  late' \subseteq late \/ (sync.phase = "SENT" /\ late' = late \cup {sync.op})
    <2>1. CASE Synchronization
        BY <2>1 DEF Synchronization, StartSync, EndSync, ReadNext, MarkSending, Serve,
                    Acknowledge, AcknowledgeDiscarded, Refused, NetworkFailure, server
    <2>2. CASE Environment
        BY <2>2 DEF Environment, Crash, ServeLate, ElapseBackoff, OthersWrite, server
    <2>3. CASE ~Synchronization /\ ~Environment
        BY <1>3, <2>3 DEF Otherwise, Ask, OpenEdit, DiscardEntity, Cancel, DiscardCommit, Fetch, Merge,
                    LosePage, vars, server
    <2> QED
        BY <2>1, <2>2, <2>3
<1>4. ASSUME NEW e \in Entities, NEW new, Queues(e, new)
      PROVE  UNCHANGED late
    BY <1>4 DEF Queues, server
<1> QED
    BY <1>1, <1>2, <1>3, <1>4, DeviceStep DEF Asked

LEMMA KnownStep ==
    ASSUME OInv, [ONext]_vars
    PROVE  Known'
<1>1. \A o \in Ops : state'[o] \in Queued => Asked(o)'
    BY StateStep, OpsStay DEF StateMoves, OInv, Known, InOutbox, Queued
<1>2. \A o \in late' : Asked(o)'
    BY LateStep, OpsStay
<1>3. PICK q : q = sync'.op
    OBVIOUS
<1>4. sync'.phase \in {"READ", "SENT", "ANSWERED"} => Asked(q)'
    BY <1>3, SyncStep, OpsStay
<1> QED
    BY <1>1, <1>2, <1>3, <1>4 DEF Known, InOutbox, Asked

-----------------------------------------------------------------------------
(* What the device shows *)

LEMMA ScreenStep ==
    ASSUME OInv, [ONext]_vars
    PROVE  \/ UNCHANGED screen
           \/ screen' = NoScreen
           \/ /\ UNCHANGED log
              /\ \E e \in Entities, edits \in BOOLEAN :
                    /\ cache[e].sync = "SYNCED"
                    /\ screen' = [entity |-> e, row |-> cache[e], edits |-> edits]
<1>1. ASSUME NEW e \in Entities, NEW new, Queues(e, new)
      PROVE  screen' = NoScreen
    BY <1>1 DEF Queues
<1>2. ASSUME NEW e \in Entities, Ask(e) \/ OpenEdit(e)
      PROVE  /\ UNCHANGED log /\ cache[e].sync = "SYNCED"
             /\ \E edits \in BOOLEAN :
                    screen' = [entity |-> e, row |-> cache[e], edits |-> edits]
    BY <1>2 DEF Ask, OpenEdit, server
<1>3. ASSUME Synchronization
      PROVE  UNCHANGED screen
    BY <1>3 DEF Synchronization, StartSync, EndSync, ReadNext, MarkSending, Serve,
                Acknowledge, AcknowledgeDiscarded, Refused, NetworkFailure, Fail
<1>4. ASSUME Environment
      PROVE  UNCHANGED screen \/ screen' = NoScreen
    BY <1>4 DEF Environment, Crash, ServeLate, ElapseBackoff, OthersWrite, device
<1>5. ASSUME \/ \E e \in Entities : DiscardEntity(e)
             \/ \E o \in Ops : DiscardCommit(o)
             \/ Cancel \/ Fetch \/ Merge \/ LosePage \/ UNCHANGED vars
      PROVE  UNCHANGED screen \/ screen' = NoScreen
    BY <1>5 DEF DiscardEntity, DiscardCommit, Cancel, Fetch, Merge, LosePage, vars, device
<1> QED
    BY <1>1, <1>2, <1>3, <1>4, <1>5, DeviceStep DEF Otherwise

LEMMA PageStep ==
    ASSUME OInv, [ONext]_vars
    PROVE  \/ UNCHANGED page
           \/ page' = NoPage
           \/ UNCHANGED log /\ page' = [e \in Entities |-> Len(log[e])]
<1>1. ASSUME NEW e \in Entities, NEW new, Queues(e, new)
      PROVE  UNCHANGED page
    BY <1>1 DEF Queues
<1>2. ASSUME Synchronization
      PROVE  UNCHANGED page
    BY <1>2 DEF Synchronization, StartSync, EndSync, ReadNext, MarkSending, Serve,
                Acknowledge, AcknowledgeDiscarded, Refused, NetworkFailure, Fail
<1>3. ASSUME Environment
      PROVE  UNCHANGED page \/ page' = NoPage
    BY <1>3 DEF Environment, Crash, ServeLate, ElapseBackoff, OthersWrite, device
<1>4. ASSUME Fetch
      PROVE  UNCHANGED log /\ page' = [e \in Entities |-> Len(log[e])]
    BY <1>4 DEF Fetch, server
<1>5. ASSUME \/ \E e \in Entities : Ask(e) \/ OpenEdit(e) \/ DiscardEntity(e)
             \/ \E o \in Ops : DiscardCommit(o)
             \/ Cancel \/ Merge \/ LosePage \/ UNCHANGED vars
      PROVE  UNCHANGED page \/ page' = NoPage
    BY <1>5 DEF Ask, OpenEdit, DiscardEntity, DiscardCommit, Cancel, Merge, LosePage, vars, device
<1> QED
    BY <1>1, <1>2, <1>3, <1>4, <1>5, DeviceStep DEF Otherwise

LEMMA OTypeStep ==
    ASSUME OInv, [ONext]_vars
    PROVE  OTypeOK'
<1>1. second' \in Nat
    <2>1. ASSUME Otherwise
          PROVE  UNCHANGED second
        <3>1. ASSUME Synchronization
              PROVE  UNCHANGED second
            BY <3>1 DEF Synchronization, StartSync, EndSync, ReadNext, MarkSending, Serve,
                        Acknowledge, AcknowledgeDiscarded, Refused, NetworkFailure, Fail
        <3>2. ASSUME ~Synchronization
              PROVE  UNCHANGED second
            BY <2>1, <3>2
            DEF Otherwise, Ask, OpenEdit, DiscardEntity, Cancel, DiscardCommit, Environment, Crash,
                ServeLate, ElapseBackoff, OthersWrite, Fetch, Merge, LosePage, vars, device
        <3> QED
            BY <3>1, <3>2
    <2> QED
        BY <2>1, DeviceStep DEF Queues, OInv, OTypeOK
<1>2. screen' \in Screens \cup {NoScreen}
    <2>1. \A e \in Entities : cache[e].sync = "SYNCED" => cache[e] \in Rows
        BY DEF OInv, OTypeOK, NoRow
    <2>2. ASSUME NEW e \in Entities, NEW edits \in BOOLEAN, cache[e].sync = "SYNCED",
                 screen' = [entity |-> e, row |-> cache[e], edits |-> edits]
          PROVE  screen' \in Screens
        BY <2>1, <2>2 DEF Screens
    <2> QED
        BY <2>2, ScreenStep DEF OInv, OTypeOK
<1>3. page' \in [Entities -> Nat]
    <2>1. \A e \in Entities : Len(log[e]) \in Nat
        BY DEF OInv, OTypeOK
    <2> QED
        BY <2>1, PageStep DEF OInv, OTypeOK, NoPage
<1>4. late' \subseteq Ops
    BY LateStep
<1> QED
    BY <1>1, <1>2, <1>3, <1>4, OpsStay, StateStep, CacheStep, SyncStep, ServerGrows
    DEF OTypeOK

\* The log at a version never changes, so a row that was canonical stays so.
LEMMA CanonicalStays ==
    ASSUME OInv, [ONext]_vars, NEW e \in Entities, NEW v \in 1..Len(log[e]),
           NEW row, row = Canonical(e, v)
    PROVE  /\ v \in 1..Len(log'[e])
           /\ row = Canonical(e, v)'
<1>1. Len(log[e]) \in Nat /\ Len(log'[e]) \in Nat
    BY ServerGrows DEF OInv, OTypeOK
<1> QED
    BY <1>1, ServerGrows DEF Canonical

LEMMA CanonicalVersion ==
    ASSUME NEW e, NEW v
    PROVE  Canonical(e, v).version = v
BY DEF Canonical

LEMMA SyncedStep ==
    ASSUME OInv, [ONext]_vars
    PROVE  SyncedIsReal'
<1> SUFFICES ASSUME NEW e \in Entities, cache'[e].sync = "SYNCED"
             PROVE  \E v \in 1..Len(log'[e]) : cache'[e] = Canonical(e, v)'
    <2>1. ASSUME NEW e \in Entities, NEW v \in 1..Len(log'[e]), cache'[e] = Canonical(e, v)'
          PROVE  /\ cache'[e].version \in 1..Len(log'[e])
                 /\ cache'[e] = Canonical(e, cache[e].version)'
        BY <2>1 DEF Canonical
    <2> QED
        BY <2>1 DEF SyncedIsReal
<1>1. \E v \in 1..Len(log[e]) : cache'[e] = Canonical(e, v)
    <2>1. cache'[e] # NoRow
        BY DEF NoRow
    <2>2. ASSUME cache'[e] = cache[e]
          PROVE  \E v \in 1..Len(log[e]) : cache'[e] = Canonical(e, v)
        BY <2>2 DEF OInv, SyncedIsReal
    <2> QED
        BY <2>1, <2>2, CacheStep DEF CacheMoves
<1>2. PICK v \in 1..Len(log[e]) : cache'[e] = Canonical(e, v)
    BY <1>1
<1>3. PICK row : row = Canonical(e, v)
    OBVIOUS
<1> QED
    BY <1>2, <1>3, CanonicalStays

LEMMA PageIsRealStep ==
    ASSUME OInv, [ONext]_vars
    PROVE  PageIsReal'
<1> SUFFICES ASSUME NEW e \in Entities
             PROVE  page'[e] <= Len(log'[e])
    BY DEF PageIsReal
<1>1. /\ Len(log[e]) \in Nat /\ Len(log'[e]) \in Nat /\ Len(log[e]) <= Len(log'[e])
      /\ page[e] \in Nat /\ page[e] <= Len(log[e])
    BY ServerGrows DEF OInv, OTypeOK, PageIsReal
<1> QED
    BY <1>1, PageStep DEF NoPage

LEMMA ScreenIsRealStep ==
    ASSUME OInv, [ONext]_vars
    PROVE  ScreenIsReal'
<1>1. ASSUME NEW e \in Entities, NEW v \in 1..Len(log[e]), NEW row,
             row = Canonical(e, v), NEW edits,
             screen' = [entity |-> e, row |-> row, edits |-> edits]
      PROVE  ScreenIsReal'
    <2>1. v \in 1..Len(log'[e]) /\ row = Canonical(e, v)'
        BY <1>1, CanonicalStays
    <2>2. screen'.entity = e /\ screen'.row = row /\ row.version = v
        BY <1>1 DEF Canonical
    <2> QED
        BY <2>1, <2>2 DEF ScreenIsReal, Canonical
<1>2. ASSUME UNCHANGED screen, screen # NoScreen
      PROVE  ScreenIsReal'
    <2>1. PICK e, row, edits :
              e = screen.entity /\ row = screen.row /\ edits = screen.edits
        OBVIOUS
    <2>2. /\ e \in Entities /\ row.version \in 1..Len(log[e])
          /\ row = Canonical(e, row.version)
        BY <1>2, <2>1 DEF OInv, OTypeOK, Screens, ScreenIsReal
    <2>3. screen' = [entity |-> e, row |-> row, edits |-> edits]
        BY <1>2, <2>1 DEF OInv, OTypeOK, Screens
    <2> QED
        BY <1>1, <2>2, <2>3
<1>3. ASSUME NEW e \in Entities, NEW edits \in BOOLEAN, cache[e].sync = "SYNCED",
             screen' = [entity |-> e, row |-> cache[e], edits |-> edits]
      PROVE  ScreenIsReal'
    <2>1. PICK row : row = cache[e]
        OBVIOUS
    <2>2. row.version \in 1..Len(log[e]) /\ row = Canonical(e, row.version)
        BY <1>3, <2>1 DEF OInv, SyncedIsReal
    <2> QED
        BY <1>1, <1>3, <2>1, <2>2
<1>4. ASSUME screen' = NoScreen
      PROVE  ScreenIsReal'
    BY <1>4 DEF ScreenIsReal
<1> QED
    BY <1>2, <1>3, <1>4, ScreenStep

-----------------------------------------------------------------------------
(* What is queued is shown *)

\* No operation is queued on a transaction by a step that does not queue any.
LEMMA NothingNewQueued ==
    ASSUME UNCHANGED ops, \A o \in Ops : state'[o] \in Queued => state[o] \in Queued
    PROVE  \A e : GenericOpsOf(e)' \subseteq GenericOpsOf(e)
BY DEF GenericOpsOf, OpsOf, InOutbox, Generic

LEMMA QueuesShown ==
    ASSUME OInv, NEW e \in Entities, NEW new, Queues(e, new)
    PROVE  PendingIsShown'
<1> SUFFICES ASSUME NEW f \in Entities, NEW q \in GenericOpsOf(f)'
             PROVE  cache'[f].sync \notin {"NONE", "SYNCED"}
    BY DEF PendingIsShown
<1>1. /\ q \in Ops /\ state'[q] \in Queued /\ ops'[q].entity = f
      /\ ops'[q].type # "COMMIT"
    BY DEF GenericOpsOf, OpsOf, InOutbox, Generic
<1>2. CASE q \in DOMAIN new
    <2>1. ops'[q] = new[q] /\ f = e /\ new[q].type # "COMMIT"
        BY <1>1, <1>2 DEF Queues
    <2>2. PICK row \in Rows : row.sync = "PENDING" /\ cache' = [cache EXCEPT ![e] = row]
        BY <1>2, <2>1 DEF Queues
    <2> QED
        BY <2>1, <2>2 DEF OInv, OTypeOK
<1>3. CASE q \notin DOMAIN new
    <2>1. ops'[q] = ops[q] /\ state'[q] = state[q]
        BY <1>1, <1>3 DEF Queues
    <2>2. q \in GenericOpsOf(f)
        BY <1>1, <2>1 DEF GenericOpsOf, OpsOf, InOutbox, Generic
    <2>3. cache[f].sync \notin {"NONE", "SYNCED"}
        BY <2>2 DEF OInv, PendingIsShown
    <2>4. \/ cache'[f] = cache[f]
          \/ cache'[f].sync = "PENDING"
        BY DEF Queues, OInv, OTypeOK
    <2> QED
        BY <2>3, <2>4
<1> QED
    BY <1>2, <1>3

\* A row marked with the state of its operation is still shown.
LEMMA MarkedShown ==
    ASSUME OInv, UNCHANGED ops, \A o \in Ops : state'[o] \in Queued => state[o] \in Queued,
           NEW e \in Entities, NEW status \in Unsettled, cache' = SetSync(e, status)
    PROVE  PendingIsShown'
<1> SUFFICES ASSUME NEW f \in Entities, GenericOpsOf(f)' # {}
             PROVE  cache'[f].sync \notin {"NONE", "SYNCED"}
    BY DEF PendingIsShown
<1>1. cache[f].sync \notin {"NONE", "SYNCED"}
    BY NothingNewQueued DEF OInv, PendingIsShown
<1>2. cache[f] # NoRow
    BY <1>1 DEF NoRow
<1>3. cache'[f] = cache[f] \/ cache'[f].sync = status
    BY <1>2, MarkedRows DEF OInv
<1> QED
    BY <1>1, <1>3 DEF Unsettled

LEMMA SameShown ==
    ASSUME OInv, UNCHANGED <<ops, cache>>,
           \A o \in Ops : state'[o] \in Queued => state[o] \in Queued
    PROVE  PendingIsShown'
BY NothingNewQueued DEF OInv, PendingIsShown

LEMMA DiscardShown ==
    ASSUME OInv, NEW e \in Entities, DiscardEntity(e)
    PROVE  PendingIsShown'
<1> SUFFICES ASSUME NEW f \in Entities, GenericOpsOf(f)' # {}
             PROVE  cache'[f].sync \notin {"NONE", "SYNCED"}
    BY DEF PendingIsShown
<1>1. UNCHANGED ops /\ \A o \in Ops : state'[o] \in Queued => state[o] \in Queued
    BY DEF DiscardEntity, Queued
<1>2. GenericOpsOf(f) # {}
    BY <1>1, NothingNewQueued
<1>3. GenericOpsOf(e)' = {}
    BY DEF DiscardEntity, GenericOpsOf, OpsOf, InOutbox, Queued
<1>4. cache'[f] = cache[f]
    BY <1>3 DEF DiscardEntity, OInv, OTypeOK
<1> QED
    BY <1>2, <1>4 DEF OInv, PendingIsShown

LEMMA AcknowledgeShown ==
    ASSUME OInv, Acknowledge
    PROVE  PendingIsShown'
<1> SUFFICES ASSUME NEW f \in Entities, GenericOpsOf(f)' # {}
             PROVE  cache'[f].sync \notin {"NONE", "SYNCED"}
    BY DEF PendingIsShown
<1>1. PICK o, e, v : o = sync.op /\ e = ops[o].entity /\ v = sync.answer
    OBVIOUS
<1>2. o \in Ops /\ e \in Entities
    BY <1>1 DEF Acknowledge, OInv, Known, Asked, OTypeOK, Requests
<1>3. UNCHANGED ops /\ state' = [state EXCEPT ![o] = "ACKED"]
    BY <1>1 DEF Acknowledge
<1>4. \A p \in Ops : state'[p] \in Queued => state[p] \in Queued /\ p # o
    BY <1>2, <1>3 DEF Queued, OInv, OTypeOK
<1>5. GenericOpsOf(f) # {}
    BY <1>3, <1>4, NothingNewQueued
<1>6. cache' = [cache EXCEPT ![e] = Acknowledged(o, OpsOf(e) \ {o})]
    BY <1>1 DEF Acknowledge
<1>7. CASE f # e
    BY <1>2, <1>5, <1>6, <1>7 DEF OInv, OTypeOK, PendingIsShown
<1>8. CASE f = e
    <2>1. OpsOf(e) \ {o} # {}
        BY <1>3, <1>4, <1>8 DEF GenericOpsOf, OpsOf, InOutbox, Generic
    <2>2. Acknowledged(o, OpsOf(e) \ {o}) = [Canonical(e, v) EXCEPT !.sync = "PENDING"]
        BY <1>1, <2>1 DEF Acknowledged
    <2>3. [Canonical(e, v) EXCEPT !.sync = "PENDING"].sync = "PENDING"
        BY DEF Canonical
    <2> QED
        BY <1>2, <1>6, <1>8, <2>2, <2>3 DEF OInv, OTypeOK
<1> QED
    BY <1>7, <1>8

LEMMA MergeShown ==
    ASSUME OInv, Merge
    PROVE  PendingIsShown'
<1> SUFFICES ASSUME NEW f \in Entities, GenericOpsOf(f)' # {}
             PROVE  cache'[f].sync \notin {"NONE", "SYNCED"}
    BY DEF PendingIsShown
<1>1. UNCHANGED <<ops, state>>
    BY DEF Merge
<1>2. GenericOpsOf(f) # {}
    BY <1>1, NothingNewQueued
<1>3. cache'[f] = cache[f]
    BY <1>2 DEF Merge, Overwrites
<1> QED
    BY <1>2, <1>3 DEF OInv, PendingIsShown

LEMMA MarkSendingShown ==
    ASSUME OInv, MarkSending
    PROVE  PendingIsShown'
<1>1. UNCHANGED ops /\ \A o \in Ops : state'[o] \in Queued => state[o] \in Queued
    <2>1. state' = IF sync.op \in InOutbox THEN [state EXCEPT ![sync.op] = "SENDING"]
                                           ELSE state
        BY DEF MarkSending
    <2> QED
        BY <2>1 DEF MarkSending, InOutbox, OInv, OTypeOK
<1>2. ops[sync.op].entity \in Entities
    BY DEF MarkSending, OInv, Known, Asked, OTypeOK, Requests
<1>3. CASE Generic(sync.op)
    <2>1. cache' = SetSync(ops[sync.op].entity, "SENDING") /\ "SENDING" \in Unsettled
        BY <1>3 DEF MarkSending, Unsettled
    <2> QED
        BY <1>1, <1>2, <2>1, MarkedShown
<1>4. CASE ~Generic(sync.op)
    <2>1. UNCHANGED cache
        BY <1>4 DEF MarkSending
    <2> QED
        BY <1>1, <2>1, SameShown
<1> QED
    BY <1>3, <1>4

LEMMA FailShown ==
    ASSUME OInv, NEW conflict \in BOOLEAN, Fail(conflict), Asked(sync.op)
    PROVE  PendingIsShown'
<1>1. PICK status \in {"CONFLICT", "RETRY"} :
        /\ state' = IF sync.op \in InOutbox THEN [state EXCEPT ![sync.op] = status] ELSE state
        /\ cache' = IF Generic(sync.op) THEN SetSync(ops[sync.op].entity, status) ELSE cache
    BY DEF Fail
<1>2. UNCHANGED ops /\ \A o \in Ops : state'[o] \in Queued => state[o] \in Queued
    BY <1>1 DEF Fail, InOutbox, OInv, OTypeOK
<1>3. ops[sync.op].entity \in Entities /\ status \in Unsettled
    BY DEF Asked, OInv, OTypeOK, Requests, Unsettled
<1>4. CASE Generic(sync.op)
    <2>1. cache' = SetSync(ops[sync.op].entity, status)
        BY <1>1, <1>4
    <2> QED
        BY <1>2, <1>3, <2>1, MarkedShown
<1>5. CASE ~Generic(sync.op)
    <2>1. UNCHANGED cache
        BY <1>1, <1>5
    <2> QED
        BY <1>2, <2>1, SameShown
<1> QED
    BY <1>4, <1>5

LEMMA PendingStep ==
    ASSUME OInv, [ONext]_vars
    PROVE  PendingIsShown'
<1>1. ASSUME UNCHANGED <<ops, state, cache>>
      PROVE  PendingIsShown'
    BY <1>1, SameShown
<1>2. ASSUME NEW o \in Ops, DiscardCommit(o)
      PROVE  PendingIsShown'
    <2>1. UNCHANGED <<ops, cache>> /\ \A p \in Ops : state'[p] \in Queued => state[p] \in Queued
        BY <1>2 DEF DiscardCommit, Queued, OInv, OTypeOK
    <2> QED
        BY <2>1, SameShown
<1>3. ASSUME AcknowledgeDiscarded \/ Refused \/ NetworkFailure
      PROVE  PendingIsShown'
    <2>1. Asked(sync.op)
        BY <1>3 DEF AcknowledgeDiscarded, Refused, NetworkFailure, OInv, Known
    <2> QED
        BY <1>3, <2>1, FailShown DEF AcknowledgeDiscarded, Refused, NetworkFailure
<1>4. ASSUME Synchronization
      PROVE  PendingIsShown'
    BY <1>1, <1>3, <1>4, MarkSendingShown, AcknowledgeShown
    DEF Synchronization, StartSync, EndSync, ReadNext, Serve
<1>5. ASSUME Environment
      PROVE  PendingIsShown'
    BY <1>1, <1>5 DEF Environment, Crash, ServeLate, ElapseBackoff, OthersWrite, device
<1>6. ASSUME \/ \E e \in Entities : Ask(e) \/ OpenEdit(e)
             \/ Cancel \/ Fetch \/ LosePage \/ UNCHANGED vars
      PROVE  PendingIsShown'
    BY <1>1, <1>6 DEF Ask, OpenEdit, Cancel, Fetch, LosePage, vars, device
<1> QED
    BY <1>2, <1>4, <1>5, <1>6, QueuesShown, DiscardShown, MergeShown, DeviceStep DEF Otherwise

-----------------------------------------------------------------------------
(* Records and versions *)

\* What the server writes for an operation, spelled out.
LEMMA Written ==
    ASSUME OInv, [ONext]_vars, NEW o \in Ops, Writes(o), NEW e, e = ops[o].entity
    PROVE  /\ e \in Entities /\ Len(log[e]) \in Nat
           /\ Len(log'[e]) = Len(log[e]) + 1
           /\ log'[e][Len(log[e]) + 1].by = o
           /\ \A v \in 1..Len(log[e]) : log'[e][v] = log[e][v]
           /\ \A f \in Entities \ {e} : log'[f] = log[f]
           /\ record' = [record EXCEPT ![o] = Len(log[e]) + 1]
<1>1. PICK c : c = [status |-> StatusAfter(o), by |-> o]
    OBVIOUS
<1>2. c \in Contents /\ e \in Entities /\ c.by = o
    BY <1>1, StatusTypes DEF Contents, Writes, Asked, OInv, OTypeOK, Requests
<1>3. log' = [log EXCEPT ![e] = Append(@, c)]
    BY <1>1 DEF Writes
<1>4. Len(log[e]) \in Nat
    BY <1>2 DEF OInv, OTypeOK
<1>5. record' = [record EXCEPT ![o] = Len(log[e]) + 1]
    BY DEF Writes
<1>6. /\ Len(log'[e]) = Len(log[e]) + 1 /\ log'[e][Len(log[e]) + 1] = c
      /\ \A v \in 1..Len(log[e]) : log'[e][v] = log[e][v]
      /\ \A f \in Entities \ {e} : log'[f] = log[f]
    BY <1>2, <1>3, AppendGrows DEF OInv
<1> QED
    BY <1>2, <1>4, <1>5, <1>6

LEMMA OthersWritten ==
    ASSUME OInv, NEW e \in Entities, NEW status \in {"DRAFT", "POSTED"},
           OthersAppend(e, status)
    PROVE  /\ Len(log[e]) \in Nat \ {0}
           /\ Len(log'[e]) = Len(log[e]) + 1
           /\ log'[e][Len(log[e]) + 1].by = 0
           /\ \A v \in 1..Len(log[e]) : log'[e][v] = log[e][v]
           /\ \A f \in Entities \ {e} : log'[f] = log[f]
<1>1. PICK c : c = [status |-> status, by |-> 0]
    OBVIOUS
<1>2. c \in Contents /\ c.by = 0
    BY <1>1 DEF Contents, Statuses
<1>3. log' = [log EXCEPT ![e] = Append(@, c)]
    BY <1>1 DEF OthersAppend
<1>4. Len(log[e]) \in Nat \ {0}
    BY DEF OInv, OTypeOK, OthersAppend
<1> QED
    BY <1>2, <1>3, <1>4, AppendGrows DEF OInv

LEMMA RecordStep ==
    ASSUME OInv, [ONext]_vars
    PROVE  RecordNamesVersion'
<1> SUFFICES ASSUME NEW o \in Ops, record'[o] # 0
             PROVE  /\ Asked(o)'
                    /\ record'[o] \in 1..Len(log'[ops'[o].entity])
                    /\ log'[ops'[o].entity][record'[o]].by = o
    BY DEF RecordNamesVersion
<1>1. CASE record[o] # 0
    <2>1. PICK e, v : e = ops[o].entity /\ v = record[o]
        OBVIOUS
    <2>2. Asked(o) /\ v \in 1..Len(log[e]) /\ log[e][v].by = o
        BY <1>1, <2>1 DEF OInv, RecordNamesVersion
    <2>3. e \in Entities
        BY <2>1, <2>2 DEF OInv, OTypeOK, Asked, Requests
    <2>4. Asked(o)' /\ ops'[o].entity = e /\ record'[o] = v
        BY <1>1, <2>1, <2>2, OpsStay, ServerGrows DEF Asked
    <2>5. Len(log[e]) \in Nat /\ Len(log'[e]) \in Nat
        BY <2>3, ServerGrows DEF OInv, OTypeOK
    <2>6. v \in 1..Len(log'[e]) /\ log'[e][v] = log[e][v]
        BY <2>2, <2>3, <2>5, ServerGrows
    <2> QED
        BY <2>2, <2>4, <2>6
<1>2. CASE record[o] = 0
    <2>1. PICK p \in Ops : UNCHANGED ops /\ Writes(p)
        BY <1>2, ServerStep DEF OthersAppend
    <2>2. p = o
        BY <1>2, <2>1 DEF Writes, OInv, OTypeOK
    <2>3. PICK e : e = ops[o].entity
        OBVIOUS
    <2>4. /\ Len(log[e]) \in Nat /\ Len(log'[e]) = Len(log[e]) + 1
          /\ log'[e][Len(log[e]) + 1].by = o
          /\ record' = [record EXCEPT ![o] = Len(log[e]) + 1]
        BY <2>1, <2>2, <2>3, Written
    <2>5. record'[o] = Len(log[e]) + 1
        BY <2>4 DEF OInv, OTypeOK
    <2> QED
        BY <2>1, <2>2, <2>3, <2>4, <2>5, OpsStay DEF Writes, Asked
<1> QED
    BY <1>1, <1>2

LEMMA VersionStep ==
    ASSUME OInv, [ONext]_vars
    PROVE  VersionNamesRecord'
<1> SUFFICES ASSUME NEW e \in Entities, NEW v \in 1..Len(log'[e]), NEW o,
                    o = log'[e][v].by, o # 0
             PROVE  Asked(o)' /\ ops'[o].entity = e /\ record'[o] = v
    BY DEF VersionNamesRecord, Asked
<1>1. CASE v \in 1..Len(log[e])
    <2>1. log[e][v].by = o
        BY <1>1, ServerGrows
    <2>2. Asked(o) /\ ops[o].entity = e /\ record[o] = v
        BY <1>1, <2>1 DEF OInv, VersionNamesRecord
    <2>3. record[o] # 0 /\ o \in Ops
        BY <1>1, <2>2 DEF Asked
    <2> QED
        BY <2>2, <2>3, OpsStay, ServerGrows DEF Asked
<1>2. CASE v \notin 1..Len(log[e])
    <2>1. CASE UNCHANGED <<log, record>>
        BY <1>2, <2>1
    <2>2. ASSUME UNCHANGED ops, NEW p \in Ops, Writes(p)
          PROVE  Asked(o)' /\ ops'[o].entity = e /\ record'[o] = v
        <3>1. PICK f : f = ops[p].entity
            OBVIOUS
        <3>2. /\ Len(log[f]) \in Nat /\ Len(log'[f]) = Len(log[f]) + 1
              /\ log'[f][Len(log[f]) + 1].by = p
              /\ \A g \in Entities \ {f} : log'[g] = log[g]
              /\ record' = [record EXCEPT ![p] = Len(log[f]) + 1]
            BY <2>2, <3>1, Written
        <3>3. e = f /\ v = Len(log[e]) + 1 /\ o = p
            BY <1>2, <3>2
        <3>4. record'[p] = Len(log[f]) + 1
            BY <3>2 DEF OInv, OTypeOK
        <3>5. Asked(p) /\ ops' = ops
            BY <2>2 DEF Writes
        <3> QED
            BY <3>1, <3>3, <3>4, <3>5 DEF Asked
    <2>3. ASSUME NEW f \in Entities, NEW status \in {"DRAFT", "POSTED"},
                 OthersAppend(f, status)
          PROVE  FALSE
        <3>1. /\ Len(log[f]) \in Nat /\ Len(log'[f]) = Len(log[f]) + 1
              /\ log'[f][Len(log[f]) + 1].by = 0
              /\ \A g \in Entities \ {f} : log'[g] = log[g]
            BY <2>3, OthersWritten
        <3>2. e = f /\ v = Len(log[e]) + 1
            BY <1>2, <3>1
        <3> QED
            BY <3>1, <3>2
    <2> QED
        BY <2>1, <2>2, <2>3, ServerStep
<1> QED
    BY <1>1, <1>2

-----------------------------------------------------------------------------
(* Creations *)

LEMMA FreshStays ==
    ASSUME OInv, [ONext]_vars, NEW e, ~Fresh(e)
    PROVE  ~Fresh(e)'
BY OpsStay DEF Fresh

LEMMA OneCreationStep ==
    ASSUME OInv, [ONext]_vars
    PROVE  OneCreation'
<1>1. \A o, p \in Ops :
          ( /\ Asked(o)' /\ ops'[o].type \in Creating
            /\ Asked(p)' /\ ops'[p].type \in Creating
            /\ ops'[o].entity = ops'[p].entity )
          => o = p
    <2>1. ASSUME UNCHANGED ops, NEW o \in Ops, NEW p \in Ops,
                 Asked(o)', ops'[o].type \in Creating,
                 Asked(p)', ops'[p].type \in Creating,
                 ops'[o].entity = ops'[p].entity
          PROVE  o = p
        BY <2>1 DEF OInv, OneCreation, Asked
    <2>2. ASSUME NEW e \in Entities, NEW new, Queues(e, new),
                 NEW o \in Ops, NEW p \in Ops,
                 Asked(o)', ops'[o].type \in Creating,
                 Asked(p)', ops'[p].type \in Creating,
                 ops'[o].entity = ops'[p].entity
          PROVE  o = p
        <3>1. ASSUME NEW a \in Ops, NEW b \in Ops, a \in DOMAIN new, b \notin DOMAIN new,
                     ops'[a].type \in Creating, Asked(b)', ops'[a].entity = ops'[b].entity
              PROVE  FALSE
            <4>1. ops'[a] = new[a] /\ ops'[b] = ops[b]
                BY <2>2, <3>1 DEF Queues
            <4>2. Fresh(e) /\ new[a].entity = e
                BY <2>2, <3>1, <4>1 DEF Queues
            <4> QED
                BY <3>1, <4>1, <4>2 DEF Fresh, Asked
        <3>2. CASE o \in DOMAIN new /\ p \in DOMAIN new
            <4>1. ops'[o] = new[o] /\ ops'[p] = new[p]
                BY <2>2, <3>2 DEF Queues
            <4> QED
                BY <2>2, <3>2, <4>1 DEF Queues
        <3>3. CASE o \notin DOMAIN new /\ p \notin DOMAIN new
            <4>1. ops'[o] = ops[o] /\ ops'[p] = ops[p]
                BY <2>2, <3>3 DEF Queues
            <4> QED
                BY <2>2, <4>1 DEF OInv, OneCreation, Asked
        <3> QED
            BY <2>2, <3>1, <3>2, <3>3
    <2> QED
        BY <2>1, <2>2, DeviceStep
<1>2. ASSUME NEW e \in Entities, log'[e] # <<>>
      PROVE  ~Fresh(e)'
    <2>1. CASE log[e] # <<>>
        BY <2>1, FreshStays DEF OInv, OneCreation
    <2>2. CASE log[e] = <<>>
        <3>1. PICK o \in Ops : UNCHANGED ops /\ Writes(o)
            BY <1>2, <2>2, ServerStep DEF OthersAppend, OInv, OTypeOK
        <3>2. ops[o].entity = e
            BY <1>2, <2>2, <3>1 DEF Writes, OInv, OTypeOK
        <3> QED
            BY <3>1, <3>2 DEF Writes, Asked, Fresh
    <2> QED
        BY <2>1, <2>2
<1> QED
    BY <1>1, <1>2 DEF OneCreation

-----------------------------------------------------------------------------
(* What the user saw *)

\* A change stays grounded while the server's rows grow: what it names is there
\* for good, and a creation awaited is the only one that can come.
LEMMA StaysGrounded ==
    ASSUME OInv, [ONext]_vars, NEW o \in Ops, Asked(o), ops[o].type \in Changing
    PROVE  Grounded(o)'
<1>1. PICK e, v, s : e = ops[o].entity /\ v = ops[o].version /\ s = ops[o].cached
    OBVIOUS
<1>2. e \in Entities /\ v \in Nat
    BY <1>1 DEF Asked, OInv, OTypeOK, Requests
<1>3. /\ ops'[o].entity = e /\ ops'[o].version = v /\ ops'[o].cached = s
    BY <1>1, OpsStay DEF Asked
<1>4. Grounded(o)
    BY DEF OInv, ChangesAreGrounded
<1>5. CASE v \in 1..Len(log[e]) /\ log[e][v].by = s
    <2>1. Len(log[e]) \in Nat /\ Len(log'[e]) \in Nat
        BY <1>2, ServerGrows DEF OInv, OTypeOK
    <2>2. v \in 1..Len(log'[e]) /\ log'[e][v].by = s
        BY <1>2, <1>5, <2>1, ServerGrows
    <2> QED
        BY <1>3, <2>2 DEF Grounded
<1>6. CASE /\ log[e] = <<>> /\ v = 1 /\ Asked(s)
           /\ ops[s].type = "CREATE_DRAFT" /\ ops[s].entity = e
    <2>1. Asked(s)' /\ ops'[s].type = "CREATE_DRAFT" /\ ops'[s].entity = e
        BY <1>6, OpsStay DEF Asked
    <2>2. CASE log'[e] = <<>>
        BY <1>3, <1>6, <2>1, <2>2 DEF Grounded
    <2>3. CASE log'[e] # <<>>
        <3>1. PICK p \in Ops : Writes(p)
            BY <1>2, <1>6, <2>3, ServerStep DEF OthersAppend, OInv, OTypeOK
        <3>2. PICK f : f = ops[p].entity
            OBVIOUS
        <3>3. /\ Len(log'[f]) = Len(log[f]) + 1 /\ log'[f][Len(log[f]) + 1].by = p
              /\ \A g \in Entities \ {f} : log'[g] = log[g]
            BY <3>1, <3>2, Written
        <3>4. f = e /\ Len(log[e]) = 0
            BY <1>2, <1>6, <2>3, <3>3
        <3>5. ops[p].type \in Creating
            BY <1>6, <3>1, <3>2, <3>4
            DEF Writes, Accepts, Holds, Asked, OInv, OTypeOK, Requests, Creating, Changing
        <3>6. p = s
            BY <1>6, <3>1, <3>2, <3>4, <3>5
            DEF OInv, OneCreation, Asked, Creating, Writes
        <3>7. v \in 1..Len(log'[e]) /\ log'[e][v].by = s
            BY <1>6, <3>3, <3>4, <3>6
        <3> QED
            BY <1>3, <3>7 DEF Grounded
    <2> QED
        BY <2>2, <2>3
<1> QED
    BY <1>1, <1>4, <1>5, <1>6 DEF Grounded

\* What the user asks for is grounded from the start, and shown.
LEMMA StartsGrounded ==
    ASSUME OInv, NEW e \in Entities, NEW new, Queues(e, new),
           NEW o \in DOMAIN new, new[o].type \in Changing
    PROVE  Grounded(o)' /\ Showing(ops'[o])
<1>1. /\ o \in Ops /\ ops'[o] = new[o] /\ new[o].entity = e
    BY DEF Queues
<1>2. UNCHANGED log
    BY DEF Queues, server
<1>3. Showing(ops'[o])
    <2>1. Showing(new[o])
        BY DEF Queues
    <2> QED
        BY <1>1, <2>1 DEF Showing
<1>4. CASE new[o].version \in 1..Len(log[e]) /\ log[e][new[o].version].by = new[o].cached
    <2>1. PICK v, s : v = new[o].version /\ s = new[o].cached
        OBVIOUS
    <2>2. ops'[o].entity = e /\ ops'[o].version = v /\ ops'[o].cached = s
        BY <1>1, <2>1
    <2>3. v \in 1..Len(log'[e]) /\ log'[e][v].by = s
        BY <1>2, <1>4, <2>1
    <2> QED
        BY <1>3, <2>2, <2>3 DEF Grounded
<1>5. CASE /\ Fresh(e) /\ new[o].version = 1
           /\ new[o].cached \in DOMAIN new
           /\ new[new[o].cached].type = "CREATE_DRAFT"
    <2>1. PICK s : s = new[o].cached
        OBVIOUS
    <2>2. /\ s \in Ops /\ ops'[s] = new[s] /\ new[s].entity = e
          /\ new[s].type = "CREATE_DRAFT"
        BY <1>5, <2>1 DEF Queues
    <2>3. Asked(s)'
        BY <2>2 DEF Asked, NoOp
    <2>4. log[e] = <<>>
        BY <1>5 DEF OInv, OneCreation
    <2> QED
        BY <1>1, <1>2, <1>3, <1>5, <2>1, <2>2, <2>3, <2>4 DEF Grounded
<1> QED
    BY <1>3, <1>4, <1>5 DEF Queues

LEMMA GroundedStep ==
    ASSUME OInv, [ONext]_vars
    PROVE  ChangesAreGrounded'
<1> SUFFICES ASSUME NEW o \in Ops, Asked(o)', ops'[o].type \in Changing
             PROVE  Grounded(o)' /\ Showing(ops'[o])
    BY DEF ChangesAreGrounded
<1>1. CASE Asked(o)
    <2>1. ops'[o] = ops[o]
        BY <1>1, OpsStay DEF Asked
    <2>2. Showing(ops[o])
        BY <1>1, <2>1 DEF OInv, ChangesAreGrounded
    <2> QED
        BY <1>1, <2>1, <2>2, StaysGrounded
<1>2. CASE ~Asked(o)
    <2>1. PICK e \in Entities : \E new : Queues(e, new)
        BY <1>2, DeviceStep DEF Asked
    <2>2. PICK new : Queues(e, new)
        BY <2>1
    <2>3. o \in DOMAIN new /\ ops'[o] = new[o]
        BY <1>2, <2>2 DEF Queues, Asked
    <2> QED
        BY <2>2, <2>3, StartsGrounded
<1> QED
    BY <1>1, <1>2

LEMMA ActsStep ==
    ASSUME OInv, [ONext]_vars
    PROVE  ActsOnWhatWasShown'
<1> DEFINE Meets(request, by) ==
        \/ by = request.shown
        \/ /\ request.type = "UPDATE_DRAFT" /\ request.opened # request.version
           /\ by = request.cached
<1> SUFFICES ASSUME NEW e \in Entities, NEW v \in 2..Len(log'[e]), NEW o,
                    o = log'[e][v].by, o # 0
             PROVE  Meets(ops'[o], log'[e][v - 1].by)
    BY DEF ActsOnWhatWasShown
<1>1. Len(log[e]) \in Nat
    BY DEF OInv, OTypeOK
<1>2. CASE v \in 1..Len(log[e])
    <2>1. log[e][v].by = o /\ log'[e][v - 1] = log[e][v - 1]
        BY <1>1, <1>2, ServerGrows
    <2>2. Meets(ops[o], log[e][v - 1].by)
        BY <1>2, <2>1 DEF OInv, ActsOnWhatWasShown
    <2>3. Asked(o)
        BY <1>2, <2>1 DEF OInv, VersionNamesRecord
    <2> QED
        BY <2>1, <2>2, <2>3, OpsStay DEF Asked
<1>3. CASE v \notin 1..Len(log[e])
    <2>1. CASE UNCHANGED <<log, record>>
        BY <1>3, <2>1
    <2>2. ASSUME UNCHANGED ops, NEW p \in Ops, Writes(p)
          PROVE  Meets(ops'[o], log'[e][v - 1].by)
        <3>1. PICK f : f = ops[p].entity
            OBVIOUS
        <3>2. /\ Len(log[f]) \in Nat /\ Len(log'[f]) = Len(log[f]) + 1
              /\ log'[f][Len(log[f]) + 1].by = p
              /\ \A g \in Entities \ {f} : log'[g] = log[g]
              /\ \A w \in 1..Len(log[f]) : log'[f][w] = log[f][w]
            <4>1. /\ Len(log[f]) \in Nat /\ Len(log'[f]) = Len(log[f]) + 1
                  /\ log'[f][Len(log[f]) + 1].by = p
                  /\ \A g \in Entities \ {f} : log'[g] = log[g]
                BY <2>2, <3>1, Written
            <4>2. ASSUME NEW w \in 1..Len(log[f])
                  PROVE  log'[f][w] = log[f][w]
                BY <2>2, <3>1, Written
            <4> QED
                BY <4>1, <4>2
        <3>3. e = f /\ v = Len(log[e]) + 1 /\ o = p
            BY <1>1, <1>3, <3>2
        <3>4. ops[p].type \in Changing /\ ops[p].version = Len(log[e]) /\ log[e] # <<>>
            <4>1. log[e] # <<>>
                BY <1>1, <3>3
            <4>2. ops[p] \in Requests /\ Accepts(p) /\ ops[p].entity = e
                BY <2>2, <3>1, <3>3 DEF Writes, Asked, OInv, OTypeOK
            <4> QED
                BY <4>1, <4>2 DEF Accepts, Holds, Requests, Creating, Changing
        <3>5. Grounded(p) /\ Showing(ops[p])
            BY <2>2, <3>4 DEF Writes, OInv, ChangesAreGrounded
        <3>6. log[e][Len(log[e])].by = ops[p].cached
            BY <3>1, <3>3, <3>4, <3>5 DEF Grounded
        <3>7. log'[e][v - 1] = log[e][Len(log[e])]
            BY <1>1, <3>2, <3>3
        <3>8. Meets(ops[p], log[e][Len(log[e])].by)
            BY <3>5, <3>6 DEF Showing
        <3> QED
            BY <2>2, <3>3, <3>7, <3>8
    <2>3. ASSUME NEW f \in Entities, NEW status \in {"DRAFT", "POSTED"},
                 OthersAppend(f, status)
          PROVE  FALSE
        <3>1. /\ Len(log[f]) \in Nat /\ Len(log'[f]) = Len(log[f]) + 1
              /\ log'[f][Len(log[f]) + 1].by = 0
              /\ \A g \in Entities \ {f} : log'[g] = log[g]
            BY <2>3, OthersWritten
        <3>2. e = f /\ v = Len(log[e]) + 1
            BY <1>1, <1>3, <3>1
        <3> QED
            BY <3>1, <3>2
    <2> QED
        BY <2>1, <2>2, <2>3, ServerStep
<1> QED
    BY <1>2, <1>3

-----------------------------------------------------------------------------
(* The theorems *)

LEMMA OInvStep ==
    ASSUME OInv, [ONext]_vars
    PROVE  OInv'
<1>1. AnswerIsRecorded'
    BY SyncStep DEF AnswerIsRecorded
<1> QED
    BY <1>1, OTypeStep, KnownStep, PendingStep, SyncedStep, PageIsRealStep,
       ScreenIsRealStep, RecordStep, VersionStep, AcknowledgedStep, OneCreationStep,
       GroundedStep, ActsStep
    DEF OInv

LEMMA OInvariant == OSpec => []OInv
<1>1. OInv /\ [ONext]_vars => OInv'
    BY OInvStep
<1> QED
    BY <1>1, OInitInv, PTL DEF OSpec

\* What is queued is shown, and never as settled, whatever crosses the user's
\* writes.
THEOREM WhatIsQueuedIsShown == OSpec => []PendingIsShown
<1>1. OInv => PendingIsShown
    BY DEF OInv
<1> QED
    BY <1>1, OInvariant, PTL

\* What is shown as synchronized is what the server held at that version.
THEOREM SyncedRowsAreReal == OSpec => []SyncedIsReal
<1>1. OInv => SyncedIsReal
    BY DEF OInv
<1> QED
    BY <1>1, OInvariant, PTL

\* What left the outbox as done was done.
THEOREM NothingIsLost == OSpec => []AcknowledgedWasApplied
<1>1. OInv => AcknowledgedWasApplied
    BY DEF OInv
<1> QED
    BY <1>1, OInvariant, PTL

\* The server posts and reverses what the user saw.  An edit overwrites what the user saw,
\* or, where the form was open while another version came into the cache, what the cache
\* held when it was saved, which the user need not have seen.
THEOREM ActionsMatchTheScreen == OSpec => []ActsOnWhatWasShown
<1>1. OInv => ActsOnWhatWasShown
    BY DEF OInv
<1> QED
    BY <1>1, OInvariant, PTL

\* An operation is applied once: however often it is sent, by retries or by late
\* copies of lost requests, no two versions of the server's rows are its work.
AppliedOnce ==
    \A e, f \in Entities : \A v \in 1..Len(log[e]), w \in 1..Len(log[f]) :
        log[e][v].by = log[f][w].by /\ log[e][v].by # 0 => e = f /\ v = w

THEOREM OperationsApplyOnce == OSpec => []AppliedOnce
<1>1. OInv => AppliedOnce
    BY DEF OInv, VersionNamesRecord, AppliedOnce
<1> QED
    BY <1>1, OInvariant, PTL

\* What was applied is not refused when it is sent again.
THEOREM RetriesSucceed == OSpec => AppliedIsNeverRefused
<1>1. ASSUME OInv, [ONext]_vars, sync.phase = "SENT", sync'.phase = "ANSWERED",
             sync'.answer = 0
      PROVE  record[sync.op] = 0
    <2>1. Serve
        <3>1. ASSUME Synchronization
              PROVE  Serve
            BY <1>1, <3>1
            DEF Synchronization, StartSync, EndSync, ReadNext, MarkSending, Acknowledge,
                AcknowledgeDiscarded, Refused, NetworkFailure, Fail, Idle
        <3>2. ASSUME Otherwise, ~Synchronization
              PROVE  FALSE
            <4>1. sync' = Idle \/ UNCHANGED sync
                BY <3>2
                DEF Otherwise, Ask, OpenEdit, DiscardEntity, Cancel, DiscardCommit, Environment,
                    Crash, ServeLate, ElapseBackoff, OthersWrite, Fetch, Merge, LosePage,
                    vars, device
            <4> QED
                BY <1>1, <4>1 DEF Idle
        <3>3. ASSUME NEW e \in Entities, NEW new, Queues(e, new)
              PROVE  FALSE
            BY <1>1, <3>3 DEF Queues
        <3> QED
            BY <1>1, <3>1, <3>2, <3>3, DeviceStep
    <2>2. PICK answer \in 0..Cardinality(Ops) + MaxOthers :
             /\ Handle(sync.op, answer)
             /\ sync' = [sync EXCEPT !.phase = "ANSWERED", !.answer = answer]
        BY <2>1 DEF Serve
    <2>3. answer = 0 /\ Asked(sync.op)
        BY <1>1, <2>2 DEF OInv, OTypeOK, Syncs, Known
    <2>4. record'[sync.op] = 0
        BY <1>1, <2>2, <2>3, Handled DEF OInv
    <2> QED
        BY <1>1, <2>3, <2>4, ServerGrows DEF Asked
<1>2. OInv /\ [ONext]_vars =>
        (sync.phase = "SENT" /\ sync'.phase = "ANSWERED" /\ sync'.answer = 0
            => record[sync.op] = 0)
    BY <1>1
<1> QED
    BY <1>2, OInvariant, PTL DEF OSpec, AppliedIsNeverRefused

-----------------------------------------------------------------------------
(* The handling of a call, which the outbox takes for atomic *)

AtWork == {"LOCKED", "TIMED", "RUNNING"}

\* Only the call with the lock is at work, on the record it has looked up.
OneAtWork == \A c \in Calls : phase[c] \in AtWork => holders = {c}

RunsWithoutRecord == \A c \in Calls : phase[c] = "RUNNING" => ~Existing(c)

AnsweredOnce == \A c \in Calls : phase[c] # "ENDED" => answers[c] = "NONE"

ReadsOnce ==
    \A c \in Calls : /\ phase[c] \in {"BEGUN", "LOCKED"} => readAt[c] = Never
                     /\ phase[c] \in {"TIMED", "RUNNING"} => readAt[c] # Never

IInv == ITypeOK /\ OneAtWork /\ RunsWithoutRecord /\ AnsweredOnce /\ ReadsOnce

LEMMA InstantsAreNumbers ==
    /\ Instants \subseteq Nat /\ 0 \in Instants
    /\ \A t \in Instants : t + Ttl \in Nat \ {0}
    /\ ITypeOK => stored.expires \in Nat
BY CallsAssumption DEF CallsAssumption, Instants, ITypeOK, NoRecord

LEMMA IInitInv == IInit => IInv
BY InstantsAreNumbers
DEF IInit, IInv, ITypeOK, OneAtWork, AtWork, RunsWithoutRecord, AnsweredOnce, ReadsOnce

\* A transaction that ends leaves every other one, and the record unless it commits it.
LEMMA EndKeeps ==
    ASSUME IInv, NEW c \in Calls, phase[c] # "ENDED",
           NEW answer \in Calls \cup {"CONFLICT", "FAILED", "LOST"}, End(c, answer)
    PROVE  /\ OneAtWork' /\ AnsweredOnce' /\ ReadsOnce'
           /\ clock' = clock /\ holders' \subseteq Calls /\ readAt' = readAt
           /\ phase' \in [Calls -> {"BEGUN", "LOCKED", "TIMED", "RUNNING", "ENDED"}]
           /\ answers' \in [Calls -> Calls \cup {"NONE", "CONFLICT", "FAILED", "LOST"}]
           /\ \A d \in Calls : phase'[d] = "RUNNING" => phase[d] = "RUNNING" /\ d # c
<1>1. /\ phase'[c] = "ENDED" /\ \A d \in Calls \ {c} : phase'[d] = phase[d]
      /\ \A d \in Calls \ {c} : answers'[d] = answers[d]
    BY DEF End, IInv, ITypeOK
<1>2. /\ clock' = clock /\ holders' = holders \ {c} /\ readAt' = readAt
      /\ phase' \in [Calls -> {"BEGUN", "LOCKED", "TIMED", "RUNNING", "ENDED"}]
      /\ answers' \in [Calls -> Calls \cup {"NONE", "CONFLICT", "FAILED", "LOST"}]
    BY DEF End, IInv, ITypeOK
<1>3. OneAtWork'
    <2> SUFFICES ASSUME NEW d \in Calls, phase'[d] \in AtWork
                 PROVE  holders' = {d}
        BY DEF OneAtWork
    <2>1. d # c /\ phase[d] \in AtWork
        BY <1>1 DEF AtWork
    <2>2. holders = {d}
        BY <2>1 DEF IInv, OneAtWork
    <2> QED
        BY <1>2, <2>1, <2>2
<1>4. AnsweredOnce'
    BY <1>1 DEF IInv, AnsweredOnce
<1>5. ReadsOnce'
    BY <1>1, <1>2 DEF IInv, ReadsOnce
<1> QED
    BY <1>1, <1>2, <1>3, <1>4, <1>5 DEF IInv, ITypeOK

LEMMA IStep ==
    ASSUME IInv, [INext]_ivars
    PROVE  IInv'
<1>1. CASE UNCHANGED ivars
    BY <1>1
    DEF IInv, ITypeOK, OneAtWork, RunsWithoutRecord, AnsweredOnce, ReadsOnce, Existing, ivars,
        progress
<1>2. CASE Tick
    <2>1. clock' \in Instants
        BY <1>2, CallsAssumption DEF Tick, IInv, ITypeOK, Instants, CallsAssumption
    <2> QED
        BY <1>2, <2>1
        DEF Tick, IInv, ITypeOK, OneAtWork, RunsWithoutRecord, AnsweredOnce, ReadsOnce, Existing
<1>3. ASSUME NEW c \in Calls, Lock(c)
      PROVE  IInv'
    <2>1. /\ phase'[c] = "LOCKED" /\ \A d \in Calls \ {c} : phase'[d] = phase[d]
          /\ holders = {} /\ holders' = {c} /\ phase[c] = "BEGUN"
          /\ UNCHANGED <<clock, readAt, stored, applied, answers>>
        BY <1>3 DEF Lock, LockIsFree, IInv, ITypeOK
    <2>2. ITypeOK'
        BY <1>3, <2>1 DEF Lock, IInv, ITypeOK
    <2>3. OneAtWork'
        BY <2>1 DEF IInv, OneAtWork
    <2> QED
        BY <2>1, <2>2, <2>3 DEF IInv, RunsWithoutRecord, AnsweredOnce, ReadsOnce, Existing
<1>4. ASSUME NEW c \in Calls, ReadClock(c)
      PROVE  IInv'
    <2>1. /\ phase'[c] = "TIMED" /\ \A d \in Calls \ {c} : phase'[d] = phase[d]
          /\ \A d \in Calls \ {c} : readAt'[d] = readAt[d]
          /\ phase[c] = "LOCKED" /\ UNCHANGED <<clock, holders, stored, applied, answers>>
        BY <1>4 DEF ReadClock, IInv, ITypeOK
    <2>2. ITypeOK' /\ readAt'[c] # Never
        BY <1>4, <2>1, InstantsAreNumbers DEF ReadClock, IInv, ITypeOK, Never
    <2>3. OneAtWork'
        BY <2>1 DEF IInv, OneAtWork, AtWork
    <2> QED
        BY <2>1, <2>2, <2>3 DEF IInv, RunsWithoutRecord, AnsweredOnce, ReadsOnce, Existing
<1>5. ASSUME NEW c \in Calls, Run(c)
      PROVE  IInv'
    <2>1. /\ phase'[c] = "RUNNING" /\ \A d \in Calls \ {c} : phase'[d] = phase[d]
          /\ phase[c] = "TIMED" /\ ~Existing(c)
          /\ UNCHANGED <<clock, holders, readAt, stored, applied, answers>>
        BY <1>5 DEF Run, IInv, ITypeOK
    <2>2. ITypeOK'
        BY <1>5, <2>1 DEF Run, IInv, ITypeOK
    <2>3. OneAtWork'
        BY <2>1 DEF IInv, OneAtWork, AtWork
    <2> QED
        BY <2>1, <2>2, <2>3 DEF IInv, RunsWithoutRecord, AnsweredOnce, ReadsOnce, Existing
<1>6. ASSUME NEW c \in Calls, phase[c] # "ENDED",
             NEW answer \in Calls \cup {"CONFLICT", "FAILED", "LOST"}, End(c, answer),
             UNCHANGED <<stored, applied>>
      PROVE  IInv'
    BY <1>6, EndKeeps DEF IInv, ITypeOK, RunsWithoutRecord, Existing
<1>7. ASSUME NEW c \in Calls, AnswerFromRecord(c)
      PROVE  IInv'
    <2>1. PICK answer : answer = IF Body[stored.by] = Body[c] THEN stored.by ELSE "CONFLICT"
        OBVIOUS
    <2>2. stored.by \in Calls
        <3>1. readAt[c] \in Nat
            BY <1>7, InstantsAreNumbers DEF AnswerFromRecord, IInv, ITypeOK, ReadsOnce
        <3>2. stored # NoRecord
            BY <1>7, <3>1 DEF AnswerFromRecord, Existing, NoRecord
        <3> QED
            BY <3>2 DEF IInv, ITypeOK
    <2>3. answer \in Calls \cup {"CONFLICT", "FAILED", "LOST"}
        BY <2>1, <2>2
    <2>4. phase[c] # "ENDED" /\ End(c, answer) /\ UNCHANGED <<stored, applied>>
        BY <1>7, <2>1 DEF AnswerFromRecord
    <2> QED
        BY <1>6, <2>3, <2>4
<1>8. ASSUME NEW c \in Calls, Commit(c)
      PROVE  IInv'
    <2>1. PICK answer \in Calls \cup {"CONFLICT", "FAILED", "LOST"} : End(c, answer)
        BY <1>8 DEF Commit
    <2>2. phase[c] = "RUNNING" /\ c \in Calls
        BY <1>8 DEF Commit
    <2>3. /\ OneAtWork' /\ AnsweredOnce' /\ ReadsOnce'
          /\ clock' = clock /\ holders' \subseteq Calls /\ readAt' = readAt
          /\ phase' \in [Calls -> {"BEGUN", "LOCKED", "TIMED", "RUNNING", "ENDED"}]
          /\ answers' \in [Calls -> Calls \cup {"NONE", "CONFLICT", "FAILED", "LOST"}]
          /\ \A d \in Calls : phase'[d] = "RUNNING" => phase[d] = "RUNNING" /\ d # c
        BY <2>1, <2>2, EndKeeps
    <2>4. \A d \in Calls : phase'[d] # "RUNNING"
        BY <2>2, <2>3 DEF IInv, OneAtWork, AtWork
    <2>5. readAt[c] \in Instants
        BY <2>2 DEF IInv, ITypeOK, ReadsOnce
    <2>6. stored' \in [by : Calls, expires : Nat \ {0}]
          /\ applied' \in [Calls -> Instants \cup {Never}]
        BY <1>8, <2>5, InstantsAreNumbers DEF Commit, IInv, ITypeOK
    <2> QED
        BY <2>3, <2>4, <2>6 DEF IInv, ITypeOK, RunsWithoutRecord
<1>9. ASSUME NEW c \in Calls, RollBack(c) \/ Break(c)
      PROVE  IInv'
    BY <1>6, <1>9 DEF RollBack, Break
<1> QED
    BY <1>1, <1>2, <1>3, <1>4, <1>5, <1>7, <1>8, <1>9 DEF INext

\* Each step of a transaction that shows is the handling of its call, judged at the
\* instant it read; the others change nothing a client can tell.
LEMMA StepIsAtomic ==
    ASSUME IInv, [INext]_ivars
    PROVE  [Atomic!HNext]_(Atomic!handling)
<1>1. CASE UNCHANGED <<clock, readAt, stored, applied, answers>>
    BY <1>1 DEF Atomic!handling
<1>2. ASSUME NEW c \in Calls, phase[c] # "ENDED", NEW answer, End(c, answer)
      PROVE  Atomic!Answered(c, answer)
    BY <1>2 DEF End, Atomic!Answered, IInv, AnsweredOnce
<1>3. ASSUME NEW c \in Calls, AnswerFromRecord(c)
      PROVE  Atomic!HNext
    <2>1. readAt[c] # Atomic!Never /\ Atomic!Alive(c)
        BY <1>3 DEF AnswerFromRecord, Existing, Atomic!Alive, IInv, ReadsOnce, Never,
                    Atomic!Never
    <2>2. CASE Body[stored.by] = Body[c]
        <3>1. Atomic!Repeat(c)
            BY <1>2, <1>3, <2>1, <2>2 DEF AnswerFromRecord, Atomic!Repeat
        <3> QED
            BY <3>1 DEF Atomic!HNext
    <2>3. CASE Body[stored.by] # Body[c]
        <3>1. Atomic!Conflict(c)
            BY <1>2, <1>3, <2>1, <2>3 DEF AnswerFromRecord, Atomic!Conflict
        <3> QED
            BY <3>1 DEF Atomic!HNext
    <2> QED
        BY <2>2, <2>3
<1>4. ASSUME NEW c \in Calls, phase[c] = "RUNNING"
      PROVE  readAt[c] # Atomic!Never /\ ~Atomic!Alive(c)
    BY <1>4 DEF Existing, Atomic!Alive, IInv, RunsWithoutRecord, ReadsOnce, Never,
                Atomic!Never
<1>5. ASSUME NEW c \in Calls, Commit(c)
      PROVE  Atomic!HNext
    <2>1. phase[c] = "RUNNING" /\ (End(c, c) \/ End(c, "LOST"))
        BY <1>5 DEF Commit
    <2>2. Atomic!Answered(c, c) \/ Atomic!Answered(c, "LOST")
        BY <1>2, <2>1
    <2>3. Atomic!Perform(c)
        BY <1>4, <1>5, <2>1, <2>2 DEF Commit, Atomic!Perform
    <2> QED
        BY <2>3 DEF Atomic!HNext
<1>6. ASSUME NEW c \in Calls, RollBack(c)
      PROVE  Atomic!HNext
    <2>1. Atomic!Decline(c)
        BY <1>2, <1>4, <1>6 DEF RollBack, Atomic!Decline
    <2> QED
        BY <2>1 DEF Atomic!HNext
<1>7. ASSUME NEW c \in Calls, Break(c)
      PROVE  Atomic!HNext
    <2>1. Atomic!Lose(c)
        BY <1>2, <1>7 DEF Break, Atomic!Lose
    <2> QED
        BY <2>1 DEF Atomic!HNext
<1>8. CASE Tick
    <2>1. Atomic!Pass
        BY <1>8, CallsAssumption
        DEF Tick, Atomic!Pass, IInv, ITypeOK, Instants, CallsAssumption
    <2> QED
        BY <2>1 DEF Atomic!HNext
<1>9. ASSUME NEW c \in Calls, ReadClock(c)
      PROVE  Atomic!HNext
    <2>1. answers[c] = "NONE" /\ readAt[c] = Atomic!Never
        BY <1>9 DEF ReadClock, IInv, AnsweredOnce, ReadsOnce, Never, Atomic!Never
    <2>2. Atomic!Read(c)
        BY <1>9, <2>1 DEF ReadClock, Atomic!Read
    <2> QED
        BY <2>2 DEF Atomic!HNext
<1>10. CASE \E c \in Calls : Lock(c) \/ Run(c)
    BY <1>1, <1>10 DEF Lock, Run
<1> QED
    BY <1>1, <1>3, <1>5, <1>6, <1>7, <1>8, <1>9, <1>10 DEF INext, ivars, progress

LEMMA IInvariant == ISpec => []IInv
<1>1. IInv /\ [INext]_ivars => IInv'
    BY IStep
<1> QED
    BY <1>1, IInitInv, PTL DEF ISpec

\* However the calls made with one key interleave, wait for its lock, fail or break, each
\* is handled in one step, judged at the instant it read the clock (execute_idempotent).
THEOREM CallsAreAtomic == ISpec => ImplementsAtomicHandling
<1>1. IInit => Atomic!HInit
    BY DEF IInit, Atomic!HInit, NoRecord, Atomic!NoRecord, Never, Atomic!Never
<1>2. IInv /\ [INext]_ivars => [Atomic!HNext]_(Atomic!handling)
    BY StepIsAtomic
<1> QED
    BY <1>1, <1>2, IInvariant, PTL DEF ISpec, ImplementsAtomicHandling, Atomic!HSpec

\* What an atomic handling keeps: the record is of the last call performed, and every
\* other one was performed a lifetime before.
HInv ==
    /\ clock \in Instants /\ readAt \in [Calls -> Instants \cup {Never}]
    /\ applied \in [Calls -> Instants \cup {Never}]
    /\ answers \in [Calls -> Calls \cup {"NONE", "CONFLICT", "FAILED", "LOST"}]
    /\ \A c \in Calls : answers[c] = "NONE" => applied[c] = Never
    /\ stored = NoRecord => \A c \in Calls : applied[c] = Never
    /\ stored # NoRecord =>
          /\ stored.by \in Calls /\ applied[stored.by] # Never
          /\ stored.expires = applied[stored.by] + Ttl
          /\ \A c \in Calls \ {stored.by} :
                applied[c] # Never => applied[c] + Ttl <= applied[stored.by]
    /\ Atomic!OncePerLifetime
    /\ Atomic!AnswersAreOfTheRequest

LEMMA HInitInv == Atomic!HInit => HInv
BY CallsAssumption, InstantsAreNumbers
DEF HInv, Atomic!HInit, Atomic!NoRecord, NoRecord, Atomic!Never, Never, CallsAssumption,
    Atomic!OncePerLifetime, Atomic!AnswersAreOfTheRequest

\* An answer changes nothing else.
LEMMA AnswerKeeps ==
    ASSUME HInv, NEW c \in Calls, NEW answer, Atomic!Answered(c, answer),
           \/ answer \in {"CONFLICT", "FAILED", "LOST"}
           \/ answer \in Calls /\ Body[answer] = Body[c] /\ applied[answer] # Never,
           UNCHANGED <<stored, applied>>
    PROVE  HInv'
<1>1. /\ answers' \in [Calls -> Calls \cup {"NONE", "CONFLICT", "FAILED", "LOST"}]
      /\ answers'[c] = answer /\ answers[c] = "NONE"
      /\ \A d \in Calls \ {c} : answers'[d] = answers[d]
    BY DEF HInv, Atomic!Answered
<1>2. \A d \in Calls : answers'[d] = "NONE" => applied'[d] = Never
    BY <1>1 DEF HInv
<1>3. Atomic!AnswersAreOfTheRequest'
    <2> SUFFICES ASSUME NEW d \in Calls, answers'[d] \notin {"NONE"} \cup Atomic!Failures
                 PROVE  /\ answers'[d] \in Calls /\ Body[answers'[d]] = Body[d]
                        /\ applied'[answers'[d]] # Never
        BY DEF Atomic!AnswersAreOfTheRequest, Atomic!Never, Never
    <2>1. CASE d = c
        BY <1>1, <2>1 DEF Atomic!Failures
    <2>2. CASE d # c
        <3>1. answers[d] \notin {"NONE"} \cup Atomic!Failures
            BY <1>1, <2>2
        <3> QED
            BY <1>1, <2>2, <3>1 DEF HInv, Atomic!AnswersAreOfTheRequest, Atomic!Never, Never
    <2> QED
        BY <2>1, <2>2
<1>4. Atomic!OncePerLifetime'
    BY DEF HInv, Atomic!OncePerLifetime
<1>5. clock' \in Instants /\ readAt' \in [Calls -> Instants \cup {Never}]
    BY DEF HInv, Atomic!Answered
<1> QED
    BY <1>1, <1>2, <1>3, <1>4, <1>5 DEF HInv

LEMMA PerformKeeps ==
    ASSUME HInv, NEW c \in Calls, Atomic!Perform(c)
    PROVE  HInv'
<1>0. PICK t \in Instants : t = readAt[c]
    BY DEF HInv, Atomic!Perform, Never, Atomic!Never
<1>1. t \in Nat /\ t # Never /\ Ttl \in Nat
    BY InstantsAreNumbers, CallsAssumption DEF CallsAssumption, Never
<1>2. PICK answer : answer \in {c, "LOST"} /\ Atomic!Answered(c, answer)
    BY DEF Atomic!Perform
<1>3. /\ applied' \in [Calls -> Instants \cup {Never}]
      /\ applied'[c] = t /\ \A d \in Calls \ {c} : applied'[d] = applied[d]
      /\ stored' = [by |-> c, expires |-> t + Ttl] /\ ~(stored.expires > t)
    BY <1>0 DEF HInv, Atomic!Perform, Atomic!Alive
<1>4. /\ answers' \in [Calls -> Calls \cup {"NONE", "CONFLICT", "FAILED", "LOST"}]
      /\ answers'[c] = answer /\ answers[c] = "NONE"
      /\ \A d \in Calls \ {c} : answers'[d] = answers[d]
    BY <1>2 DEF HInv, Atomic!Answered
<1>5. \A d \in Calls \ {c} : applied[d] # Never => applied[d] + Ttl <= t
    <2> SUFFICES ASSUME NEW d \in Calls \ {c}, applied[d] # Never
                 PROVE  applied[d] + Ttl <= t
        OBVIOUS
    <2>1. stored # NoRecord
        BY DEF HInv
    <2>2. PICK p \in Calls : p = stored.by /\ applied[p] # Never
        BY <2>1 DEF HInv
    <2>3. applied[p] \in Nat /\ applied[d] \in Nat
        BY <2>2, InstantsAreNumbers DEF HInv
    <2>4. stored.expires = applied[p] + Ttl /\ (d # p => applied[d] + Ttl <= applied[p])
        BY <2>1, <2>2 DEF HInv
    <2>5. applied[p] + Ttl <= t
        BY <1>1, <1>3, <2>3, <2>4
    <2> QED
        BY <1>1, <2>3, <2>4, <2>5
<1>6. \A d \in Calls : answers'[d] = "NONE" => applied'[d] = Never
    <2>1. answer # "NONE"
        BY <1>2, CallsAssumption DEF CallsAssumption
    <2> QED
        BY <1>3, <1>4, <2>1 DEF HInv
<1>7. stored' # NoRecord /\ stored'.by = c /\ stored'.expires = t + Ttl
    BY <1>3 DEF NoRecord
<1>8. Atomic!OncePerLifetime'
    <2> SUFFICES ASSUME NEW d \in Calls, NEW e \in Calls,
                        applied'[d] # Never, applied'[e] # Never, d # e
                 PROVE  applied'[d] + Ttl <= applied'[e] \/ applied'[e] + Ttl <= applied'[d]
        BY DEF Atomic!OncePerLifetime, Atomic!Never, Never
    <2>1. CASE d = c \/ e = c
        BY <1>3, <1>5, <2>1
    <2>2. CASE d # c /\ e # c
        BY <1>3, <2>2 DEF HInv, Atomic!OncePerLifetime, Atomic!Never, Never
    <2> QED
        BY <2>1, <2>2
<1>9. Atomic!AnswersAreOfTheRequest'
    <2> SUFFICES ASSUME NEW d \in Calls, answers'[d] \notin {"NONE"} \cup Atomic!Failures
                 PROVE  /\ answers'[d] \in Calls /\ Body[answers'[d]] = Body[d]
                        /\ applied'[answers'[d]] # Never
        BY DEF Atomic!AnswersAreOfTheRequest, Atomic!Never, Never
    <2>1. CASE d = c
        BY <1>1, <1>2, <1>3, <1>4, <2>1 DEF Atomic!Failures
    <2>2. CASE d # c
        <3>1. /\ answers[d] \in Calls /\ Body[answers[d]] = Body[d]
              /\ applied[answers[d]] # Never
            BY <1>4, <2>2 DEF HInv, Atomic!AnswersAreOfTheRequest, Atomic!Never, Never
        <3> QED
            BY <1>1, <1>3, <1>4, <2>2, <3>1
    <2> QED
        BY <2>1, <2>2
<1>10. clock' \in Instants /\ readAt' \in [Calls -> Instants \cup {Never}]
    BY <1>2 DEF HInv, Atomic!Answered
<1> QED
    BY <1>1, <1>3, <1>4, <1>5, <1>6, <1>7, <1>8, <1>9, <1>10 DEF HInv

LEMMA HStep ==
    ASSUME HInv, [Atomic!HNext]_(Atomic!handling)
    PROVE  HInv'
<1>1. CASE UNCHANGED Atomic!handling
    BY <1>1 DEF Atomic!handling, HInv, Atomic!OncePerLifetime, Atomic!AnswersAreOfTheRequest
<1>2. ASSUME NEW c \in Calls, Atomic!Repeat(c)
      PROVE  HInv'
    <2>1. stored # NoRecord
        <3>1. readAt[c] \in Nat
            BY <1>2, InstantsAreNumbers DEF HInv, Atomic!Repeat, Never, Atomic!Never
        <3> QED
            BY <1>2, <3>1 DEF Atomic!Repeat, Atomic!Alive, NoRecord
    <2>2. stored.by \in Calls /\ applied[stored.by] # Never
        BY <2>1 DEF HInv
    <2> QED
        BY <1>2, <2>2, AnswerKeeps DEF Atomic!Repeat
<1>3. ASSUME NEW c \in Calls, Atomic!Conflict(c) \/ Atomic!Decline(c)
      PROVE  HInv'
    BY <1>3, AnswerKeeps DEF Atomic!Conflict, Atomic!Decline
<1>4. ASSUME NEW c \in Calls, Atomic!Lose(c)
      PROVE  HInv'
    BY <1>4, AnswerKeeps DEF Atomic!Lose
<1>5. CASE Atomic!Pass
    BY <1>5 DEF Atomic!Pass, HInv, Atomic!OncePerLifetime, Atomic!AnswersAreOfTheRequest
<1>6. ASSUME NEW c \in Calls, Atomic!Read(c)
      PROVE  HInv'
    BY <1>6 DEF Atomic!Read, HInv, Atomic!OncePerLifetime, Atomic!AnswersAreOfTheRequest
<1> QED
    BY <1>1, <1>2, <1>3, <1>4, <1>5, <1>6, PerformKeeps DEF Atomic!HNext

LEMMA HInvariant == Atomic!HSpec => []HInv
<1>1. HInv /\ [Atomic!HNext]_(Atomic!handling) => HInv'
    BY HStep
<1> QED
    BY <1>1, HInitInv, PTL DEF Atomic!HSpec

\* Two calls of one key are both performed only if the record of one expired before the
\* other read the clock, for any number of calls.
THEOREM KeysWorkOnce == ISpec => []Atomic!OncePerLifetime
<1>1. HInv => Atomic!OncePerLifetime
    BY DEF HInv
<1> QED
    BY <1>1, HInvariant, CallsAreAtomic, PTL DEF ImplementsAtomicHandling

\* What a call is answered is the answer of a call of the same request whose work is
\* committed: never of work that was rolled back, nor of another request.
THEOREM AnswersTell == ISpec => []Atomic!AnswersAreOfTheRequest
<1>1. HInv => Atomic!AnswersAreOfTheRequest
    BY DEF HInv
<1> QED
    BY <1>1, HInvariant, CallsAreAtomic, PTL DEF ImplementsAtomicHandling
=============================================================================
