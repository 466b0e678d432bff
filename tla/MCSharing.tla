----------------------------- MODULE MCSharing -----------------------------
(* Instances of Sharing for TLC. *)
EXTENDS Analytics, TLC

Symmetry == Permutations(Ids \ Expenses) \cup Permutations(People)
              \cup Permutations(DebtIds) \cup Permutations(Shares)

NoDrafts == {}
NoEdits  == {}
=============================================================================
