------------------------------ MODULE RowLocks ------------------------------
(***************************************************************************)
(* The open database transactions of the server.  A transaction locks      *)
(* rows one at a time, waits for a row that another one holds, and keeps   *)
(* its locks until it commits or rolls back.  Transactions that wait for   *)
(* each other are a deadlock, and the database ends one of them.           *)
(***************************************************************************)
CONSTANTS
    Clients,   \* the requests that may run at once
    None       \* no row

VARIABLE work  \* for each client its transaction: at least what it holds and wants

Idle == [op |-> "none", holds |-> {}, wants |-> None]

InTransaction(c) == work[c] # Idle

MutLocksNothing(c) == TRUE

\* No other transaction holds the row that c needs next.
CanLock(c) == \A d \in Clients \ {c} : work[c].wants \notin work[d].holds

WaitsFor(c, d) == c # d /\ work[c].wants # None /\ work[c].wants \in work[d].holds

\* c waits for itself through others.
Deadlocked(c) ==
    \E S \in SUBSET Clients :
        /\ c \in S
        /\ \A d \in S : (\E e \in S : WaitsFor(d, e)) /\ (\E e \in S : WaitsFor(e, d))
=============================================================================
