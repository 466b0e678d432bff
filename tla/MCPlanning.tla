----------------------------- MODULE MCPlanning -----------------------------
(* Instances of Planning for TLC. *)
EXTENDS Planning, TLC

\* Derived identifiers are the slots they are derived from.
SlotIds   == (Rules \X (0 .. MaxNow + 1))
SlotDraft == [s \in Rules \X (0 .. MaxNow + 1) |-> s]

\* What a rule asks for.
OneTerm  == {[kind |-> "EXPENSE", account |-> a, amount |-> 1, classified |-> TRUE] :
                a \in Accounts}

NoDrafts == {}

\* An account opened overdrawn allows it.
Overdrawn == {-1}

\* The opening date of an account moves, and with it what a draft may say.
Reopened == {e \in AccountEdit : e.status = "ACTIVE" /\ e.allowNegative}
=============================================================================
