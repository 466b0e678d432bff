------------------------------ MODULE MCOutbox ------------------------------
(* Instances of Outbox for TLC. *)
EXTENDS Outbox

CONSTANTS t1, t2

\* The types of operations a run explores.
Lifecycle == {"CREATE_DRAFT", "UPDATE_DRAFT", "POST", "REVERSE"}
Creations == {"CREATE_DRAFT", "POST"}
Edits     == {"CREATE_DRAFT", "UPDATE_DRAFT", "COMMIT"}
=============================================================================
