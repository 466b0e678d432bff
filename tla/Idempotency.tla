---------------------------- MODULE Idempotency -----------------------------
(***************************************************************************)
(* The calls that one user makes in one scope with one key, as             *)
(* execute_idempotent runs them: each in a database transaction that takes *)
(* the advisory lock of the key, looks its record up, performs the         *)
(* operation when there is none that lives, and commits what the operation *)
(* wrote together with the record.  The lock goes with the transaction.    *)
(*                                                                         *)
(* What a transaction has not committed is not part of the state: the      *)
(* phase RUNNING stands for what the operation wrote and for the deletion  *)
(* of an expired record.  A key whose lock identifier collides with        *)
(* another's only waits for it.                                            *)
(***************************************************************************)
EXTENDS Integers

CONSTANTS
    Calls,     \* the calls made with the key, retries and copies included
    Body,      \* the hash of the request each of them carries
    Ttl,       \* how long a record lives
    MaxClock   \* bound: the last instant

ASSUME CallsAssumption == Ttl \in Nat \ {0} /\ MaxClock \in Nat /\ "NONE" \notin Calls

VARIABLES
    clock,
    holders,   \* the call, if any, whose transaction has the advisory lock
    phase,     \* how far each call's transaction is
    readAt,    \* the clock each call has read, or Never
    stored,    \* the committed record of the key
    applied,   \* the clock read by each call whose operation is committed
    answers    \* what each call was answered
progress == <<clock, holders, phase, readAt>>
ivars == <<progress, stored, applied, answers>>

Instants == 0 .. MaxClock
NoRecord == [expires |-> 0]
Never    == -1

IInit ==
    /\ clock = 0
    /\ holders = {}
    /\ phase = [c \in Calls |-> "BEGUN"]
    /\ readAt = [c \in Calls |-> Never]
    /\ stored = NoRecord
    /\ applied = [c \in Calls |-> Never]
    /\ answers = [c \in Calls |-> "NONE"]

Tick ==
    /\ clock < MaxClock
    /\ clock' = clock + 1
    /\ UNCHANGED <<holders, phase, readAt, stored, applied, answers>>

\* MUTANT of LockIsFree: nobody waits.
MutNoLock == TRUE

LockIsFree == holders = {}

Lock(c) ==
    /\ phase[c] = "BEGUN"
    /\ LockIsFree
    /\ holders' = holders \cup {c}
    /\ phase' = [phase EXCEPT ![c] = "LOCKED"]
    /\ UNCHANGED <<clock, readAt, stored, applied, answers>>

ReadClock(c) ==
    /\ phase[c] = "LOCKED"
    /\ readAt' = [readAt EXCEPT ![c] = clock]
    /\ phase' = [phase EXCEPT ![c] = "TIMED"]
    /\ UNCHANGED <<clock, holders, stored, applied, answers>>

\* The record of the key, unless it has expired.
Existing(c) == stored.expires > readAt[c]

\* The transaction ends, and the lock with it.
End(c, answer) ==
    /\ phase' = [phase EXCEPT ![c] = "ENDED"]
    /\ holders' = holders \ {c}
    /\ answers' = [answers EXCEPT ![c] = answer]
    /\ UNCHANGED <<clock, readAt>>

AnswerFromRecord(c) ==
    /\ phase[c] = "TIMED" /\ Existing(c)
    /\ End(c, IF Body[stored.by] = Body[c] THEN stored.by ELSE "CONFLICT")
    /\ UNCHANGED <<stored, applied>>

Run(c) ==
    /\ phase[c] = "TIMED" /\ ~Existing(c)
    /\ phase' = [phase EXCEPT ![c] = "RUNNING"]
    /\ UNCHANGED <<clock, holders, readAt, stored, applied, answers>>

\* uq_idempotency_user_scope_key holds, and the connection may break before the
\* answer is sent.
Commit(c) ==
    /\ phase[c] = "RUNNING" /\ ~Existing(c)
    /\ stored' = [by |-> c, expires |-> readAt[c] + Ttl]
    /\ applied' = [applied EXCEPT ![c] = readAt[c]]
    /\ \E answer \in {c, "LOST"} : End(c, answer)

\* The operation raises, or the database refuses what it wrote.
RollBack(c) ==
    /\ phase[c] = "RUNNING"
    /\ End(c, "FAILED")
    /\ UNCHANGED <<stored, applied>>

\* The connection or the process ends, at any point.
Break(c) ==
    /\ phase[c] # "ENDED"
    /\ End(c, "LOST")
    /\ UNCHANGED <<stored, applied>>

INext ==
    \/ Tick
    \/ \E c \in Calls :
          \/ Lock(c) \/ ReadClock(c) \/ AnswerFromRecord(c) \/ Run(c)
          \/ Commit(c) \/ RollBack(c) \/ Break(c)

ISpec == IInit /\ [][INext]_ivars

-----------------------------------------------------------------------------
(* Properties *)

\* Every call and the record are well formed.
ITypeOK ==
    /\ clock \in Instants /\ holders \subseteq Calls
    /\ phase \in [Calls -> {"BEGUN", "LOCKED", "TIMED", "RUNNING", "ENDED"}]
    /\ readAt \in [Calls -> Instants \cup {Never}]
    /\ stored \in [by : Calls, expires : Nat \ {0}] \cup {NoRecord}
    /\ applied \in [Calls -> Instants \cup {Never}]
    /\ answers \in [Calls -> Calls \cup {"NONE", "CONFLICT", "FAILED", "LOST"}]

Atomic == INSTANCE AtomicHandling

\* However calls of one key interleave, wait, fail and break, each is handled in one step,
\* judged at the instant that call read the clock: performed and recorded together, or
\* answered from the record that lives at that instant.
ImplementsAtomicHandling == Atomic!HSpec
=============================================================================
