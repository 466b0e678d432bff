--------------------------- MODULE AtomicHandling ---------------------------
(***************************************************************************)
(* What a client relies on when it sends a request again under the same    *)
(* idempotency key: the server handles each call in one step, judged at    *)
(* the one instant at which that call read the clock.  If the key has a    *)
(* record that lives at that instant, a call of the same request gets the  *)
(* answer recorded and a call of another request is refused; otherwise the *)
(* call is performed and recorded from that instant on, or fails and       *)
(* leaves nothing.                                                         *)
(***************************************************************************)
EXTENDS Integers

CONSTANTS
    Calls,    \* the calls made with one key
    Body,     \* the request each of them carries
    Instants, \* what a clock shows
    Ttl       \* how long a record lives

VARIABLES
    clock,    \* what a clock shows now
    readAt,   \* what it showed when each call read it, or Never
    stored,   \* the record of the key, or NoRecord
    applied,  \* the instant each call was performed at, or Never
    answers   \* what each call was answered: the call whose answer it is, or a failure
handling == <<clock, readAt, stored, applied, answers>>

NoRecord == [expires |-> 0]
Never    == -1
Failures == {"CONFLICT", "FAILED", "LOST"}

\* The record lives at the call's own instant.
Alive(c) == stored.expires > readAt[c]

HInit ==
    /\ clock = 0
    /\ readAt = [c \in Calls |-> Never]
    /\ stored = NoRecord
    /\ applied = [c \in Calls |-> Never]
    /\ answers = [c \in Calls |-> "NONE"]

Pass ==
    /\ clock' \in Instants /\ clock' > clock
    /\ UNCHANGED <<readAt, stored, applied, answers>>

\* Once, while the call is under way.
Read(c) ==
    /\ answers[c] = "NONE" /\ readAt[c] = Never
    /\ readAt' = [readAt EXCEPT ![c] = clock]
    /\ UNCHANGED <<clock, stored, applied, answers>>

Answered(c, answer) ==
    /\ answers[c] = "NONE"
    /\ answers' = [answers EXCEPT ![c] = answer]
    /\ UNCHANGED <<clock, readAt>>

\* The answer may not reach the client.
Perform(c) ==
    /\ readAt[c] # Never /\ ~Alive(c)
    /\ stored' = [by |-> c, expires |-> readAt[c] + Ttl]
    /\ applied' = [applied EXCEPT ![c] = readAt[c]]
    /\ Answered(c, c) \/ Answered(c, "LOST")

Repeat(c) ==
    /\ readAt[c] # Never /\ Alive(c) /\ Body[stored.by] = Body[c]
    /\ Answered(c, stored.by)
    /\ UNCHANGED <<stored, applied>>

Conflict(c) ==
    /\ readAt[c] # Never /\ Alive(c) /\ Body[stored.by] # Body[c]
    /\ Answered(c, "CONFLICT")
    /\ UNCHANGED <<stored, applied>>

\* What was performed is never answered by a failure.
Decline(c) ==
    /\ readAt[c] # Never /\ ~Alive(c)
    /\ Answered(c, "FAILED")
    /\ UNCHANGED <<stored, applied>>

Lose(c) ==
    /\ Answered(c, "LOST")
    /\ UNCHANGED <<stored, applied>>

HNext ==
    \/ Pass
    \/ \E c \in Calls :
          Read(c) \/ Perform(c) \/ Repeat(c) \/ Conflict(c) \/ Decline(c) \/ Lose(c)

HSpec == HInit /\ [][HNext]_handling

-----------------------------------------------------------------------------
\* Two calls of one key are both performed only if the record of one expired
\* before the other read the clock.
OncePerLifetime ==
    \A c, d \in Calls :
        applied[c] # Never /\ applied[d] # Never /\ c # d =>
            applied[c] + Ttl <= applied[d] \/ applied[d] + Ttl <= applied[c]

\* An answer tells of a call of the same request that was performed.
AnswersAreOfTheRequest ==
    \A c \in Calls :
        \/ answers[c] \in {"NONE"} \cup Failures
        \/ /\ answers[c] \in Calls /\ Body[answers[c]] = Body[c]
           /\ applied[answers[c]] # Never
=============================================================================
