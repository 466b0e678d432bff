------------------------------ MODULE MCAccess ------------------------------
(* What overlaps on the server: the transactions on sessions and media, and  *)
(* the calls of one key.  They share no variable (a key's advisory lock is   *)
(* no row's), so each is explored while the other is still to begin.         *)
EXTENDS Access, Idempotency, TLC

Interchangeable == Permutations(Clients)

\* Three calls of one key, one of them of another request.
CONSTANTS c1, c2, c3
MCCalls == {c1, c2, c3}
MCBody  == c1 :> "A" @@ c2 :> "A" @@ c3 :> "B"

Init == AInit /\ IInit

Next ==
    \/ IInit /\ ANext /\ UNCHANGED ivars
    \/ AInit /\ INext /\ UNCHANGED avars

Spec == Init /\ [][Next]_<<avars, ivars>>
=============================================================================
