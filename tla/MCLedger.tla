------------------------------ MODULE MCLedger ------------------------------
(* Instances of Ledger for TLC. *)
EXTENDS Ledger, TLC

\* Identifiers are interchangeable: no action compares or orders them.
Symmetry == Permutations(Ids)

\* The clients leave every account as it was created.
NoEdits == {}

\* Drafts that can be posted.
ClassifiedDrafts == {d \in Draft : d.classified}
=============================================================================
