----------------------------- MODULE MCDevices -----------------------------
(* Instances of Devices for TLC. *)
EXTENDS Devices, TLC

Symmetry == Permutations(Ids)

AllDrafts == Draft
NoDrafts  == {}

\* Other devices close and reopen the account and change its policy.
SomeEdits == {e \in AccountEdit : e.status # "ARCHIVED"}
=============================================================================
